SPECIFICATION MCSpec
CONSTANTS
  WindowBytes = 3
  SlideBytes = 2
  ChunkBytes = {1, 2}
  ChunkWords = {0, 1, 2}
  MinAnchor = 2
  MaxAnchor = 3
  HistoryCap = 4
  MusicThreshold = 2
  MaxChunks = 4
  MaxSlips = 2
  t1 = t1
  t2 = t2
  t3 = t3
  g1 = g1
  Transcribers = {t1, t2, t3}
  Googlers = {g1}
  MaxConcurrent = 1
  MaxRetries = 2
  r1 = r1
  r2 = r2
  k1 = k1
  Requests = {r1, r2}
  Keys = {k1}
  MaxRequests = 2
  Window = 2
  FrameBytes = {1, 2}
  MaxBytes = 3
  MaxTime = 4
CHECK_DEADLOCK FALSE
INVARIANTS
  SpeechTypeOK
  EveryChunkSent
  SpeechNeverDropped
  CleanStreamExact
  MusicModeExact
  PermitsConserved
  WindowCap
  RefusedOnlyWhenFull
PROPERTY
  WaiterServed
