SPECIFICATION FairSpec
CONSTANTS
  small = small
  large = large
  Sizes <- TwoSizes
  DefaultSize = small
  MaxTerminals = 3
  MaxEvents = 6
  KillWorks = TRUE
INVARIANTS
  TypeOK
  SizeAgrees
PROPERTIES
  LetsGoOnlyForStaleExit
  ExitReleases
CHECK_DEADLOCK FALSE
