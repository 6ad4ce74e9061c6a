SPECIFICATION FairSpec
CONSTANTS
  Runs = {r1, r2}
  NoRun = NoRun
  MaxVersion = 3
INVARIANTS
  OneRun
  IdleIsTruthful
  RestartTakesNewSettings
  NoSilentStop
PROPERTIES
  IsService
