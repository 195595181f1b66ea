\* One EXPLAIN ANALYZE text, queries may be cancelled.
CONSTANTS
  EXPR_MAX_NUM = 2
  explained = explained
  plain = plain
  utility = utility
  None = None
  Statements = {explained}
  ExprStmts = {explained}
  ExplainStmts = {explained}
  PlanSizes <- StablePlans
  FileLevels <- NoFile
  Configs <- PlainConfs
  Times = {1, 2}
  Garbage = {0, 3, 9}
  MaxLevel = 10
SPECIFICATION FairCancelled
PROPERTY Converges
