SPECIFICATION Spec
CONSTANTS
  Wav = TRUE
  ShowStats = FALSE
  Stops = {"key"}
  DecoderMax = 1
  PlayerMax = 2
  AlmostEmptyPct = 0
  AlmostFullPct = 60
  SongChunks = 1
  ShortReads = 0
  MaxPauses = 0
PROPERTIES ClosesWhenServerEnds
CHECK_DEADLOCK FALSE
