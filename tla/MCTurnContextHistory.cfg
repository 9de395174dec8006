CONSTANTS
  Msgs = {m1, m2}
  Texts = {"yes", "more"}
  Script <- MCScript
  HistoryLimit = 2
  TailSize = 1
  Threshold = 1
  MaxPins = 1
  MaxClears = 1
  MaxInputs = 3
SYMMETRY Symmetry
SPECIFICATION Spec
CHECK_DEADLOCK FALSE
INVARIANT
  HitHasWholeHistory
