\* A text that has room in the tables, one that has not and a utility statement,
\* cancels, reloads, nested queries.
CONSTANTS
  select = select
  append = append
  utility = utility
  a1 = a1
  a2 = a2
  c1 = c1
  d1 = d1
  d2 = d2
  d3 = d3
  d4 = d4
  e1 = e1
  n1 = n1
  n2 = n2
  f = f
  NULL = NULL
  Junk = Junk
  Texts = {select, append, utility}
  Sigs = {a1, a2, c1, d1, d2, d3, d4, e1, n1, n2}
  Shapes = {f}
  Utilities = {utility}
  Plans <- MCPlans
  Nested <- MCNested
  Configs <- MCConfigs
  Blocks = {A, B}
  OPT_LIST_SIZE = 3
  EXPR_MAX_NUM = 3
  MaxTodo = 1
  MaxEvals = 2
SPECIFICATION Spec
INVARIANTS TypeOK RoomSuffices DistinctPositions StablePositions NoDuplicates LiveOperators
INVARIANTS CountsRight CountedOnce
SYMMETRY Alike
\* A session that has written past a table is not followed further.
CHECK_DEADLOCK FALSE
