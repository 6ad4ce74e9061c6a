SPECIFICATION FairSpec
CONSTANTS
  MaxSize = 2
  MaxShown = 3
  MaxLines = 5
  NoFile = NoFile
INVARIANTS
  WithinLimits
  NewsIsAnnounced
  NothingSkipped
PROPERTY NewsIsRead
