SPECIFICATION FairSpec
CONSTANTS
  Fds = {7, 8}
  MaxSize = 3
INVARIANTS
  TypeOK
  TableMatchesSet
  
  ExitLeavesNothing
PROPERTIES
  NeverUnwatched
  GoneServerLeaves
  QuietStopEnds
  UpperDeathStops
