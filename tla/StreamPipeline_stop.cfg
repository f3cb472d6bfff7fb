SPECIFICATION Spec
CONSTANTS
  Wav = TRUE
  ShowStats = TRUE
  Stops = {"key", "signal", "select"}
  DecoderMax = 1
  PlayerMax = 1
  AlmostEmptyPct = 0
  AlmostFullPct = 60
  SongChunks = 1
  ShortReads = 0
  MaxPauses = 0
PROPERTIES StopReachesEveryone
CHECK_DEADLOCK FALSE
