SPECIFICATION FairSpec
CONSTANTS
  Slots = {i1}
  Clients = {c1, c2}
  Sessions = {s1, s2}
  NoSession = NoSession
  Attempts = 1
PROPERTIES
  AskingReconnects
  ShownCountConverges
  NoBusyRetry
