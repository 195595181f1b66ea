\* The workload as shipped.
CONSTANTS
  Script <- MCShippedScript
  Matched <- MCMatched
  Explained <- MCExplained
  Compiles <- MCCompiles
  Reached <- MCReached
  Levels = {0, 3}
  Times = {1, 2}
  LateErrors = FALSE
  NoExec = NoExec
SPECIFICATION Spec
INVARIANTS OneLineEach
\* The script ends.
CHECK_DEADLOCK FALSE
