SPECIFICATION FairSpec
CONSTANTS
  en = en
  es = es
  fr = fr
  Kinds = {"audio"}
  Targets = {es, fr}
  SpeechLangs = {en}
  Masked = {2}
  Faults = {"redis"}
  Faulty = {es}
  BusMax = 2
  MaxTexts = 4
  MaxEpochs = 2
CHECK_DEADLOCK FALSE
INVARIANTS
  SequenceIncreases
  TranslationOfItsRow
PROPERTIES
  ImplementsFeed
  HealthyTargetsServed
