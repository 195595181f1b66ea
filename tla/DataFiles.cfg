\* Every query as EXPLAIN ANALYZE, each repeated, in two databases.
CONSTANTS
  Script <- MCScript
  Matched <- MCMatched
  Explained <- MCExplained
  Compiles <- MCCompiles
  Reached <- MCReached
  Levels = {0, 3}
  Times = {1, 2}
  LateErrors = FALSE
  NoExec = NoExec
SPECIFICATION Spec
INVARIANTS TypeOK OneLineEach LearnsFastest
\* The script ends.
CHECK_DEADLOCK FALSE
