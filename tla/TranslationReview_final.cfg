SPECIFICATION Spec
CONSTANTS
  Requests = {r1, r2, r3}
  Lengths = {1}
  None = None
  MaxTrouble = 0
CHECK_DEADLOCK FALSE
SYMMETRY Symmetry
PROPERTIES DecisionFinal
