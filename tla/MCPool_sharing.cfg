SPECIFICATION Spec
CONSTANTS
  Slots = {i1, i2}
  Clients = {c1, c2}
  Sessions = {s1, s2}
  NoSession = NoSession
  Attempts = 2
SYMMETRY Symmetry
VIEW View
INVARIANTS
  NoLostWakeup
  UsableIsInSlot
  PatienceIsEarned
  RetryElsewhere
  ShownCountIsSane
  ErrorMeansDown
PROPERTY IsPoolService
