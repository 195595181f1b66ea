\* Every level, enableME changing while queries run.
CONSTANTS
  q1 = q1
  q2 = q2
  NoContext = NoContext
  Queries = {q1, q2}
  MELevels <- AnyLevels
  PlainLevels <- DefaultLevel
  MaxGeneration = 3
  MaxFunctions = 2
SPECIFICATION Spec
INVARIANTS TypeOK NamesUnique NoOrphans
SYMMETRY QuerySymmetry
CHECK_DEADLOCK FALSE
