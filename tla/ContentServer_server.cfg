SPECIFICATION FairSpec
CONSTANTS
  Ports = {1, 2, 3}
  Give = 2
  Interfaces = 2
  Songs = 3
  Period = 3
  SelectTime = 2
INVARIANTS
  TypeOK
  PortsInUseAreOnRecord
  PortsAreReturnedAtTheEnd
  RepeatsOnlyWhenStopping
PROPERTIES
  SongHoldsItsPeriod
  StoppedServerExits
CHECK_DEADLOCK FALSE
