SPECIFICATION Spec
CONSTANTS
  en = en
  es = es
  fr = fr
  Kinds = {"audio", "transcript", "webrtc"}
  Targets = {es}
  SpeechLangs = {en}
  Masked = {2}
  Faults = {"db", "redis", "drain"}
  Faulty = {es}
  BusMax = 2
  MaxTexts = 4
  MaxEpochs = 3
CHECK_DEADLOCK FALSE
INVARIANTS
  TypeOK
  SpokenOrder
