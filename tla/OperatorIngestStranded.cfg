SPECIFICATION FairSpec
CONSTANTS
  a1 = a1
  t1 = t1
  w1 = w1
  Conns = {a1}
  Transport <- OneAudio
  QueueMax = 2
  MaxChunks = 4
  MaxCloses = 1
CHECK_DEADLOCK FALSE
PROPERTY ReleasedAfterDisconnect
