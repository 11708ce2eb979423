SPECIFICATION FittingSpec
CONSTANTS
  Requests = {r1, r2, r3}
  Lengths = {1, 2}
  None = None
  MaxTrouble = 1
CHECK_DEADLOCK FALSE
SYMMETRY Symmetry
INVARIANTS
  TypeOK
  DecidedJobTranslated
  
PROPERTIES
  DeletedJobStaysDeleted
  AnswersRespected
