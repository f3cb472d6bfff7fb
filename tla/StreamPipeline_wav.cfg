SPECIFICATION Spec
CONSTANTS
  Wav = TRUE
  ShowStats = FALSE
  Stops = {"signal"}
  DecoderMax = 1
  PlayerMax = 2
  AlmostEmptyPct = 0
  AlmostFullPct = 60
  SongChunks = 3
  ShortReads = 1
  MaxPauses = 2
INVARIANTS TypeOK WholeSong
PROPERTY ImplementsSong
CHECK_DEADLOCK FALSE
