SPECIFICATION FairSpec
CONSTANTS
  a1 = a1
  t1 = t1
  w1 = w1
  Conns = {a1, t1, w1}
  Transport <- AudioTextPeer
  QueueMax = 2
  MaxChunks = 3
  MaxCloses = 1
CHECK_DEADLOCK FALSE
INVARIANTS
  TypeOK
  LockIffHeld
  MutualExclusion
  SingleProducer
  FanoutWhileIngesting
  AudioTailTranscribed
PROPERTY DrainEndsOrWedges
