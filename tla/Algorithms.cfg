CONSTANTS
  g1 = g1
  g2 = g2
  g3 = g3
  a = a
  b = b
  Refs = {g1, g2, g3, a, b}
  Groups = {g1, g2, g3}
  MaxLevel = 3
  OverflowChecks = TRUE
SPECIFICATION AlgorithmsSpec
INVARIANTS PlacesKeepParents ItemsMoveAsDocumented DecodesWhatWasSent AnalogRangeCorrect DrawnAsRecorded TranslationsAgree InputUnderstood NamesTellApart OfferedCommandRuns ShownTimeParses
SYMMETRY RefSymmetry
CHECK_DEADLOCK FALSE
