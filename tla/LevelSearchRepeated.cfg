\* One EXPLAIN ANALYZE text sent over and over, enableQuartet on.
CONSTANTS
  EXPR_MAX_NUM = 2
  explained = explained
  plain = plain
  utility = utility
  None = None
  Statements = {explained}
  ExprStmts = {explained}
  ExplainStmts = {explained}
  PlanSizes <- StablePlans
  FileLevels <- NoFile
  Configs <- QuartetConfs
  Times = {1, 2}
  Garbage = {0, 3, 9}
  MaxLevel = 10
SPECIFICATION FairRepeated
INVARIANTS OneDigit LevelsDefined NeverMixed
PROPERTIES Converges LevelThreeTried SearchAdvances BestStays
