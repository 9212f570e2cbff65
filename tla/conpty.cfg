SPECIFICATION FairSpec
CONSTANTS
  d1 = d1
  d2 = d2
  Schedulers <- TwoSchedulers
  ArgLists <- ShortLists
  MaxWrites = 2
  MaxOut = 1
INVARIANTS
  TypeOK
  ArgumentsArrive
PROPERTIES
  ConnectReturns
  WriteAnswered
  ExitPosted
CHECK_DEADLOCK FALSE
