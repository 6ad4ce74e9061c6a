SPECIFICATION Spec
CONSTANTS
  Slots = {i1}
  Clients = {c1, c2}
  Sessions = {s1, s2}
  NoSession = NoSession
  Attempts = 2
PROPERTIES
  ChannelsReleased
