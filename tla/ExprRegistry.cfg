SPECIFICATION Spec
CONSTANTS
  EXPR_LIST_SIZE = 4
  HASH_LIMIT = 512
  Exprs <- MCExprs
  StepsFile <- MCStepsFile
  Backends = {b1, b2}
  Postmaster = pm
  NoTable = NoTable
  MaxLines = 6
INVARIANTS TypeOK IndexInTable NumbersUnique FoundAgain Agreement NumbersWritten RefusedOnlyWhenFull
PROPERTIES ImplementsNumbering
SYMMETRY Alike
