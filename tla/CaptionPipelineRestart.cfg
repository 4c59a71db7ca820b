SPECIFICATION Spec
CONSTANTS
  en = en
  es = es
  fr = fr
  Kinds = {"transcript"}
  Targets = {es}
  SpeechLangs = {en}
  Masked = {}
  Faults = {}
  Faulty = {}
  BusMax = 2
  MaxTexts = 2
  MaxEpochs = 2
CHECK_DEADLOCK FALSE
INVARIANT SequenceIncreases
