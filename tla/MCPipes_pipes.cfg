CONSTANTS
  UnitsIn = 1
  UnitsOut = 2
  Buf = 2
  Cap = 2
  Limits = {1}
SPECIFICATION FairSpec
INVARIANTS TypeOK StopCutsOff AnswerArrives
PROPERTIES EndsTogether
