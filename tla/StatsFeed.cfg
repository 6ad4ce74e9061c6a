SPECIFICATION FairSpec
CONSTANTS
  Threads = {ui, w1, w2}
  UI = ui
  Fields = {flag, status, bytes}
  Locked = {status}
  Quiet = {bytes}
  Values = {0, 1}
  NoField = NoField
  Capacity = 2
INVARIANTS
  NoLostUpdate
PROPERTIES
  WindowCatchesUp
  CountersTick
