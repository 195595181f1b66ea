\* The levels the search chooses, two queries at a time.
CONSTANTS
  q1 = q1
  q2 = q2
  NoContext = NoContext
  Queries = {q1, q2}
  MELevels <- SearchLevels
  PlainLevels <- DefaultLevel
  MaxGeneration = 3
  MaxFunctions = 3
SPECIFICATION SpecQuiet
INVARIANTS FunctionFound LiveCode
SYMMETRY QuerySymmetry
CHECK_DEADLOCK FALSE
