CONSTANTS
  Msgs = {m1, m2, m3}
  Texts = {"yes", "more"}
  Script <- MCScript
  HistoryLimit = 2
  TailSize = 1
  Threshold = 1
  MaxPins = 2
  MaxClears = 2
  MaxInputs = 3
SYMMETRY Symmetry
SPECIFICATION Spec
CHECK_DEADLOCK FALSE
INVARIANTS
  SummaryMatchesMark
  HistoryIsToldWhole
  PatientUserIsHeard
