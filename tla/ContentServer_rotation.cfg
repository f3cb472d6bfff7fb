SPECIFICATION FairSpec
CONSTANTS
  Ports = {1}
  Give = 1
  Interfaces = 1
  Songs = 2
  Period = 2
  SelectTime = 1
PROPERTIES
  WorkerServesTheCurrentSong
