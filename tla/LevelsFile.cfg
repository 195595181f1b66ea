\* Two databases with the same two queries; two files, one after the other.
CONSTANTS
  d1 = d1
  d2 = d2
  NoText = NoText
  Databases <- MCDatabases
  QueryIds = {4, 17}
  Levels = {1, 3}
  EXPR_MAX_NUM = 3
  MaxRows = 3
  MaxFiles = 2
SPECIFICATION Spec
INVARIANTS TypeOK RoundTrip NothingBorrowed
SYMMETRY Alike
