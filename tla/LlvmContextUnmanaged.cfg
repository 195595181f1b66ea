\* A query without levels of its own, enableME on.
CONSTANTS
  q1 = q1
  q2 = q2
  NoContext = NoContext
  Queries = {q1}
  MELevels <- UnmanagedLevel
  PlainLevels <- DefaultLevel
  MaxGeneration = 2
  MaxFunctions = 2
SPECIFICATION SpecQuiet
INVARIANT FunctionFound
CHECK_DEADLOCK FALSE
