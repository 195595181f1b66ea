\* Any mixture of statements, cancels, reloads and changing plans.
CONSTANTS
  EXPR_MAX_NUM = 2
  explained = explained
  plain = plain
  utility = utility
  None = None
  Statements = {explained, plain, utility}
  ExprStmts = {explained, plain}
  ExplainStmts = {explained}
  PlanSizes <- ChangingPlans
  FileLevels <- FileUpTo2
  Configs <- ReloadConfs
  Times = {1, 2}
  Garbage = {9}
  MaxLevel = 10
  MaxMeasured = 3
SPECIFICATION HSpec
INVARIANTS TypeOK BestIsFastest
