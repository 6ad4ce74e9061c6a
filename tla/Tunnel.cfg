SPECIFICATION FairSpec
CONSTANTS
  MaxUp = 3
  MaxDown = 3
  Window = 2
  Room = 1
INVARIANTS
  UploadIsWhole
  DownloadIsWhole
  OneVerdict
PROPERTIES
  NeitherStallsTheOther
CHECK_DEADLOCK FALSE
