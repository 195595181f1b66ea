SPECIFICATION Spec
CONSTANTS
  EXPR_LIST_SIZE = 4
  HASH_LIMIT = 512
  Exprs <- MCLongExprs
  StepsFile <- MCShortFile
  Backends = {b1}
  Postmaster = pm
  NoTable = NoTable
  MaxLines = 6
INVARIANTS IndexInTable
