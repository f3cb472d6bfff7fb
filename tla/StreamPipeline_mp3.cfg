SPECIFICATION Spec
CONSTANTS
  Wav = FALSE
  ShowStats = FALSE
  Stops = {}
  DecoderMax = 1
  PlayerMax = 1
  AlmostEmptyPct = 0
  AlmostFullPct = 60
  SongChunks = 2
  ShortReads = 0
  MaxPauses = 0
INVARIANTS ChunksAccountedFor
PROPERTIES ImplementsSong StopReachesEveryone
CHECK_DEADLOCK FALSE
