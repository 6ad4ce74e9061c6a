SPECIFICATION FairRunSpec
CONSTANTS
  Slots = {i1, i2}
  Clients = {c1}
  Sessions = {s1}
  NoSession = NoSession
  Attempts = 1
INVARIANTS
  SessionsAreTracked
  NothingLeftBehind
PROPERTIES
  StopEnds
  RunsAsControlled
CHECK_DEADLOCK FALSE
