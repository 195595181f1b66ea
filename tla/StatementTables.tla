-------------------------- MODULE StatementTables --------------------------
(***************************************************************************)
(* The tables a session keeps about the statement it executes:             *)
(*   currentSQLOpts   operators of the plans (addPlanTree), freed and      *)
(*                    allocated again for every statement with expressions *)
(*   currentSQLExprs  expressions of this execution and how often each was *)
(*                    evaluated, allocated again for every statement       *)
(*   currentExprList  expressions of the current text, in the order of     *)
(*                    their positions in the level arrays; it lives as     *)
(*                    long as the same text is repeated.                   *)
(* Both expression tables point into currentSQLOpts, so on a repetition    *)
(* the pointers in currentExprList lead into memory that was freed: the    *)
(* same block, when malloc returns it again, or another one.               *)
(*                                                                         *)
(* None of the three is tested for its size before it is written.          *)
(*                                                                         *)
(* An operator is its signature (plan_node_id, type and costs), which is   *)
(* all the code compares; an expression is its shape (hash and length).    *)
(***************************************************************************)
EXTENDS Naturals, Sequences, FiniteSets

CONSTANTS
  Texts,            \* statement texts
  Utilities,        \* those for which containExpr is false
  Sigs,             \* signatures of operators
  Shapes,           \* expressions
  Plans,            \* per text, the plans it may get: [ops, exprs]
  Nested,           \* plans of queries that functions run while a text executes
  Configs,          \* settings a session may have
  Blocks,           \* memory malloc may return for currentSQLOpts
  OPT_LIST_SIZE,    \* entries of currentSQLOpts (64)
  EXPR_MAX_NUM,     \* entries of the expression tables (64)
  MaxTodo,          \* bound on the expressions that wait when a function runs a query
  MaxEvals,         \* bound on counted evaluations in one execution
  NULL, Junk

Entries == 1 .. OPT_LIST_SIZE

\* a pointer into currentSQLOpts is a block and an index; it may be stale
Pointers == (Blocks \X Entries) \cup {NULL}

ASSUME SizesAssumption ==
  OPT_LIST_SIZE \in Nat /\ EXPR_MAX_NUM \in Nat /\ MaxTodo \in Nat /\ MaxEvals \in Nat

ASSUME ValuesAssumption ==
  /\ Junk \notin Sigs
  /\ NULL \notin Sigs \cup {Junk} \cup Texts \cup (Blocks \X Entries)
  /\ Configs \subseteq [enableME : BOOLEAN, testME : BOOLEAN, enableExprCount : BOOLEAN]

\* ops are the operators that addPlanTree reaches, exprs what is compiled.
PlanType == [ops : Seq(Sigs), exprs : Seq([shape : Shapes, sig : Sigs])]

ASSUME PlansAssumption ==
  /\ \A t \in Texts : Plans[t] \subseteq PlanType
  /\ Nested \subseteq PlanType

OwnPlans == UNION {Plans[t] : t \in Texts}

Operators(P) == UNION {{p.ops[i] : i \in DOMAIN p.ops} : p \in P}

(***************************************************************************)
(* plan_node_id numbers the operators in the order in which addPlanTree    *)
(* walks them, so a signature has one place in all plans.  (The children   *)
(* of an Append, which it does not reach, are numbered too: two plans of a *)
(* text with other numbers of such children before the operator are left   *)
(* out.)                                                                   *)
(***************************************************************************)
ASSUME PlacesAssumption ==
  \A p, q \in OwnPlans : \A i \in DOMAIN p.ops, j \in DOMAIN q.ops :
    p.ops[i] = q.ops[j] => i = j

\* The costs tell the operators of nested queries from those of the texts.
ASSUME NestedAssumption ==
  Operators(Nested) \cap Operators(OwnPlans) = {}

VARIABLES
  conf,              \* [enableME, testME, enableExprCount]
  running,           \* the text being executed, or NULL
  planned,           \* pg_plan_query has planned it
  todo,              \* expressions of the plans not yet compiled
  ready,             \* the compiled ones: <<shape, sig, position>>
  currentStatement, repeats,
  countExpr,
  block, memory,     \* currentSQLOpts and what the blocks hold
  allOptInfoNum,
  currentSQLExprs,   \* sequences of records; their lengths are
  currentExprList,   \*   allExprInfoNum and currentExprNum
  overrun,           \* a table was written past its end
  moved,             \* history: malloc returned another block
  foreign,           \* history: a function ran a query of its own
  placed,            \* history: positions in all executions of the text
  evaluated          \* history: counted evaluations of this execution

tables == <<block, memory, allOptInfoNum, currentSQLExprs, currentExprList>>
history == <<moved, foreign, placed, evaluated>>
executor == <<planned, todo, ready, evaluated>>
session == <<conf, running, currentStatement, repeats, countExpr, tables, moved,
             placed, executor>>
vars == <<session, foreign, overrun>>

Init ==
  /\ conf \in Configs
  /\ running = NULL /\ planned = FALSE
  /\ todo = <<>> /\ ready = {}
  /\ currentStatement = NULL /\ repeats = 0
  /\ countExpr = FALSE
  /\ block \in Blocks
  /\ memory = [b \in Blocks |-> [i \in Entries |-> Junk]]
  /\ allOptInfoNum = 0
  /\ currentSQLExprs = <<>> /\ currentExprList = <<>>
  /\ overrun = FALSE /\ moved = FALSE /\ foreign = FALSE
  /\ placed = {} /\ evaluated = <<>>

----------------------------------------------------------------------------
(* The prologue of exec_simple_query.                                      *)

(***************************************************************************)
(* free and malloc of currentSQLOpts.  The allocator writes its links over *)
(* the first entry of the freed block; if it hands out another block, the  *)
(* rest of the freed one may be overwritten too.  Entries to which no      *)
(* pointer leads are not read before they are written again, and forgotten.*)
(***************************************************************************)
Referenced(b, i) ==
  \E k \in DOMAIN currentExprList' : currentExprList'[k].op = <<b, i>>

RenewOperators ==
  \E b \in Blocks, overwritten \in {{1}, Entries} :
    /\ overwritten = Entries => b # block
    /\ block' = b
    /\ memory' = [c \in Blocks |-> [i \in Entries |->
         IF (c = block /\ i \in overwritten) \/ ~Referenced(c, i) THEN Junk
         ELSE memory[c][i]]]
    /\ allOptInfoNum' = 0

NewText(t) ==
  /\ currentStatement # t
  /\ currentStatement' = t /\ repeats' = 0
  /\ countExpr' = (countExpr \/ conf.enableExprCount)
  /\ currentExprList' = <<>>

\* Seeded fault: a repetition goes on counting.
SameTextCounting(t) ==
  /\ currentStatement = t
  /\ repeats' = 1
  /\ UNCHANGED <<countExpr, currentStatement, currentExprList>>

\* repeats: 0 for the first execution, 1 for every later one
SameText(t) ==
  /\ currentStatement = t
  /\ repeats' = 1
  /\ countExpr' = (countExpr /\ conf.testME)
  /\ UNCHANGED <<currentStatement, currentExprList>>

\* history: whether all entries of the list are of this block and of the text's
\* own plans, and the placements for as long as the block stays the same
NoteMove ==
  /\ moved' = (currentExprList' # <<>> /\ (moved \/ block' # block))
  /\ foreign' = (currentExprList' # <<>> /\ foreign)
  /\ placed' = IF moved' \/ currentExprList' = <<>> THEN {} ELSE placed

\* Seeded fault: the expressions are kept for a repetition.
RenewExprsOnce(t) ==
  IF conf.enableME
  THEN /\ currentSQLExprs' = IF currentStatement = t THEN currentSQLExprs ELSE <<>>
       /\ NewText(t) \/ SameText(t)
  ELSE UNCHANGED <<currentSQLExprs, currentStatement, repeats, countExpr, currentExprList>>

RenewExprs(t) ==
  IF conf.enableME
  THEN currentSQLExprs' = <<>> /\ (NewText(t) \/ SameText(t))
  ELSE UNCHANGED <<currentSQLExprs, currentStatement, repeats, countExpr, currentExprList>>

Receive(t) ==
  /\ running = NULL /\ running' = t
  /\ RenewExprs(t)
  /\ IF t \in Utilities THEN UNCHANGED <<block, memory, allOptInfoNum>> ELSE RenewOperators
  /\ NoteMove
  /\ UNCHANGED <<conf, executor>>

----------------------------------------------------------------------------
(* Planning and executing.                                                 *)

\* The operators go into currentSQLOpts without a write past its end.
OperatorsFit(ops) == allOptInfoNum + Len(ops) <= OPT_LIST_SIZE

\* Seeded fault: allOptInfoNum counts one operator more than were added.
AddPlanTreeOneMore(ops) ==
  /\ OperatorsFit(ops)
  /\ memory' = [memory EXCEPT ![block] = [i \in Entries |->
       IF i - allOptInfoNum \in DOMAIN ops THEN ops[i - allOptInfoNum] ELSE @[i]]]
  /\ allOptInfoNum' = allOptInfoNum + Len(ops) + 1

(***************************************************************************)
(* addPlanTree appends the operators of a plan.  The loop that looks for   *)
(* an operator that is already there starts at the end of the table and    *)
(* never finds one.  More operators than there is room for are written all *)
(* the same: WriteBeyond.                                                  *)
(***************************************************************************)
AddPlanTree(ops) ==
  /\ OperatorsFit(ops)
  /\ memory' = [memory EXCEPT ![block] = [i \in Entries |->
       IF i - allOptInfoNum \in DOMAIN ops THEN ops[i - allOptInfoNum] ELSE @[i]]]
  /\ allOptInfoNum' = allOptInfoNum + Len(ops)

\* pg_plan_query for the text itself
Plan ==
  /\ running \notin Utilities \cup {NULL} /\ ~planned
  /\ planned' = TRUE
  /\ \E p \in Plans[running] : AddPlanTree(p.ops) /\ todo' = p.exprs
  /\ UNCHANGED <<conf, running, ready, currentStatement, repeats, countExpr,
                 block, currentSQLExprs, currentExprList, history>>

\* a function of the statement plans and starts a query of its own
PlanNested ==
  /\ planned
  /\ \E p \in Nested : /\ Len(p.exprs) + Len(todo) <= MaxTodo
                       /\ AddPlanTree(p.ops) /\ todo' = p.exprs \o todo
  /\ foreign' = TRUE
  /\ UNCHANGED <<conf, running, planned, ready, currentStatement, repeats, countExpr,
                 block, currentSQLExprs, currentExprList, moved, placed, evaluated>>

\* the same with a plan that was cached before: no planning, no operators
RunCached ==
  /\ planned
  /\ \E p \in Nested : /\ Len(p.exprs) + Len(todo) <= MaxTodo
                       /\ todo' = p.exprs \o todo
  /\ foreign' = TRUE
  /\ UNCHANGED <<conf, running, planned, ready, currentStatement, repeats, countExpr,
                 tables, moved, placed, evaluated>>

Deref(op) == IF op = NULL THEN NULL ELSE memory[op[1]][op[2]]

\* findOperatorInfo: the first entry with the signature
FindOperatorInfo(sig) ==
  LET places == {i \in 1 .. allOptInfoNum : memory[block][i] = sig}
  IN  IF places = {} THEN NULL
      ELSE <<block, CHOOSE i \in places : \A j \in places : i <= j>>

\* Seeded fault: the operator of an expression is not compared.
SameShape(entry, shape, sig) == entry.shape = shape

IsEntry(entry, shape, sig) == entry.shape = shape /\ Deref(entry.op) = sig

\* Seeded fault: the search leaves out the last entry.
FindButLast(list, shape, sig) ==
  LET hits == {i \in 1 .. Len(list) - 1 : IsEntry(list[i], shape, sig)}
  IN  IF hits = {} THEN 0 ELSE CHOOSE i \in hits : \A j \in hits : i <= j

\* the first entry for the expression at the operator, 0 if there is none
Find(list, shape, sig) ==
  LET hits == {i \in DOMAIN list : IsEntry(list[i], shape, sig)}
  IN  IF hits = {} THEN 0 ELSE CHOOSE i \in hits : \A j \in hits : i <= j

\* sig is an operator of the text's own plan, which is in currentSQLOpts
OfText(sig) ==
  sig \in Operators(OwnPlans) /\ \E i \in 1 .. allOptInfoNum : memory[block][i] = sig

\* The expression is in both expression tables or there is room for it.
ExprFits(shape, sig) ==
  /\ Find(currentSQLExprs, shape, sig) = 0 => Len(currentSQLExprs) < EXPR_MAX_NUM
  /\ Find(currentExprList, shape, sig) = 0 => Len(currentExprList) < EXPR_MAX_NUM

(***************************************************************************)
(* jit_compile_expr: the next expression of the plan is entered into both  *)
(* tables, unless it is there, and gets its position.  Without room for it *)
(* it is written all the same: WriteBeyond.                                *)
(***************************************************************************)
JitCompileExpr ==
  /\ todo # <<>> /\ todo' = Tail(todo)
  /\ IF ~conf.enableME
     THEN UNCHANGED <<currentSQLExprs, currentExprList, ready, placed>>
     ELSE LET shape == Head(todo).shape
              sig   == Head(todo).sig
              op    == FindOperatorInfo(sig)
              known == Find(currentExprList, shape, sig)
              listIndex == IF known = 0 THEN Len(currentExprList) + 1 ELSE known
          IN  /\ ExprFits(shape, sig)
              /\ currentSQLExprs' =
                   IF Find(currentSQLExprs, shape, sig) # 0 THEN currentSQLExprs
                   ELSE Append(currentSQLExprs, [shape |-> shape, op |-> op, count |-> 0])
              /\ currentExprList' =
                   IF known # 0 THEN currentExprList
                   ELSE Append(currentExprList, [shape |-> shape, op |-> op])
              /\ ready' = ready \cup {<<shape, sig, listIndex>>}
              /\ placed' = IF moved \/ ~OfText(sig) THEN placed
                           ELSE placed \cup {<<shape, sig, listIndex>>}
  /\ UNCHANGED <<conf, running, planned, currentStatement, repeats,
                 countExpr, block, memory, allOptInfoNum, moved, foreign, evaluated>>

\* Seeded fault: the entry is looked up by the shape alone.
ExecInterpByShape ==
  /\ running # NULL /\ conf.enableME /\ countExpr
  /\ Len(evaluated) < MaxEvals
  /\ \E x \in ready :
       LET hits == {i \in DOMAIN currentSQLExprs : currentSQLExprs[i].shape = x[1]}
           hit  == CHOOSE i \in hits : \A j \in hits : i <= j
       IN  /\ evaluated' = Append(evaluated, <<x[1], x[2]>>)
           /\ currentSQLExprs' = [currentSQLExprs EXCEPT ![hit].count = @ + 1]
  /\ UNCHANGED <<conf, running, planned, todo, ready, currentStatement,
                 repeats, countExpr, block, memory, allOptInfoNum,
                 currentExprList, moved, foreign, placed>>

(***************************************************************************)
(* The interpreter evaluates an expression and counts it.                  *)
(***************************************************************************)
ExecInterpExpr ==
  /\ running # NULL /\ conf.enableME /\ countExpr
  /\ Len(evaluated) < MaxEvals
  /\ \E x \in ready :
       LET hit == Find(currentSQLExprs, x[1], x[2])
       IN  /\ evaluated' = Append(evaluated, <<x[1], x[2]>>)
           /\ currentSQLExprs' = IF hit = 0 THEN currentSQLExprs
                ELSE [currentSQLExprs EXCEPT ![hit].count = @ + 1]
  /\ UNCHANGED <<conf, running, planned, todo, ready, currentStatement,
                 repeats, countExpr, block, memory, allOptInfoNum,
                 currentExprList, moved, foreign, placed>>

\* The executor's state ends with the statement; no table is reset.
EndStatement ==
  /\ running' = NULL
  /\ planned' = FALSE /\ todo' = <<>> /\ ready' = {}
  /\ evaluated' = <<>>
  /\ UNCHANGED <<conf, currentStatement, repeats, countExpr, tables, moved, foreign, placed>>

\* The statement is done and has written its tables to the data files.
Complete ==
  /\ running # NULL /\ todo = <<>> /\ (planned \/ running \in Utilities)
  /\ EndStatement

\* An error or a cancel: the long jump to PostgresMain.
Abort == running # NULL /\ EndStatement

Reload ==
  /\ running = NULL
  /\ conf' \in Configs \ {conf}
  /\ UNCHANGED <<running, currentStatement, repeats, countExpr, tables, moved, foreign,
                 placed, executor>>

(***************************************************************************)
(* addPlanTree or jit_compile_expr writes past the end of a table, which   *)
(* neither of them tests.  What the write hits and what the session does   *)
(* from there on is undefined: the model marks it and follows it no        *)
(* further.                                                                *)
(***************************************************************************)
WriteBeyond ==
  /\ \/ /\ running \notin Utilities \cup {NULL} /\ ~planned
        /\ \E p \in Plans[running] : ~OperatorsFit(p.ops)
        /\ UNCHANGED foreign
     \/ /\ planned
        /\ \E p \in Nested : Len(p.exprs) + Len(todo) <= MaxTodo /\ ~OperatorsFit(p.ops)
        /\ foreign' = TRUE
     \/ /\ todo # <<>> /\ conf.enableME
        /\ ~ExprFits(Head(todo).shape, Head(todo).sig)
        /\ UNCHANGED foreign
  /\ overrun' = TRUE
  /\ UNCHANGED session

\* a step in which every write is inside its table
Step ==
  \/ \E t \in Texts : Receive(t)
  \/ Plan \/ PlanNested \/ RunCached \/ JitCompileExpr \/ ExecInterpExpr
  \/ Complete \/ Abort \/ Reload

Next == ~overrun /\ (WriteBeyond \/ (Step /\ UNCHANGED overrun))

Spec == Init /\ [][Next]_vars

----------------------------------------------------------------------------
(* Properties.                                                             *)

\* Type correctness.  The sizes are those of a session that has not written
\* past a table (WriteBeyond).
TypeOK ==
  /\ conf \in Configs
  /\ running \in Texts \cup {NULL} /\ currentStatement \in Texts \cup {NULL}
  /\ repeats \in 0 .. 1
  /\ countExpr \in BOOLEAN /\ planned \in BOOLEAN
  /\ overrun \in BOOLEAN /\ moved \in BOOLEAN /\ foreign \in BOOLEAN
  /\ todo \in Seq([shape : Shapes, sig : Sigs])
  /\ ready \subseteq (Shapes \X Sigs \X (1 .. EXPR_MAX_NUM))
  /\ placed \subseteq (Shapes \X Sigs \X (1 .. EXPR_MAX_NUM))
  /\ evaluated \in Seq(Shapes \X Sigs)
  /\ block \in Blocks
  /\ allOptInfoNum \in 0 .. OPT_LIST_SIZE
  /\ memory \in [Blocks -> [Entries -> Sigs \cup {Junk}]]
  /\ currentSQLExprs \in Seq([shape : Shapes, op : Pointers, count : Nat])
  /\ currentExprList \in Seq([shape : Shapes, op : Pointers])
  /\ Len(currentSQLExprs) <= EXPR_MAX_NUM /\ Len(currentExprList) <= EXPR_MAX_NUM

(***************************************************************************)
(* A text has room when every plan it may get fits into currentSQLOpts,    *)
(* addPlanTree reaches the operators of all its expressions, and these     *)
(* stand at no more entries of currentSQLOpts than EXPR_MAX_NUM.           *)
(***************************************************************************)
PlacesOf(t) ==
  {x \in Shapes \X Entries : \E p \in Plans[t] : x[2] \in DOMAIN p.ops /\
     \E k \in DOMAIN p.exprs : p.exprs[k] = [shape |-> x[1], sig |-> p.ops[x[2]]]}

HasRoom(t) ==
  /\ \A p \in Plans[t] :
       /\ Len(p.ops) <= OPT_LIST_SIZE
       /\ \A k \in DOMAIN p.exprs : \E i \in DOMAIN p.ops : p.ops[i] = p.exprs[k].sig
  /\ IsFiniteSet(PlacesOf(t)) /\ Cardinality(PlacesOf(t)) <= EXPR_MAX_NUM

(***************************************************************************)
(* The tables, which are never tested for their size (addPlanTree,         *)
(* jit_compile_expr), do not fill up by themselves: however often a text   *)
(* that has room is repeated, with changing plans and costs, after errors, *)
(* after other texts and in every setting, it is written past a table only *)
(* when malloc has returned another block for currentSQLOpts or a function *)
(* of the text has run queries of its own.                                 *)
(***************************************************************************)
RoomSuffices ==
  (overrun /\ HasRoom(running)) => (moved \/ foreign)

(***************************************************************************)
(* In one execution an expression at an operator of the text's own plan    *)
(* shares its position in the level arrays (list_index, jit.c) with no     *)
(* other expression and no other operator, whatever the stale pointers in  *)
(* currentExprList lead to and whatever queries its functions run.         *)
(***************************************************************************)
DistinctPositions ==
  \A x, y \in ready :
    (OfText(x[2]) /\ x[3] = y[3]) => <<x[1], x[2]>> = <<y[1], y[2]>>

(***************************************************************************)
(* As long as malloc returns the same block, an expression at an operator  *)
(* of the text's own plans has one position in all executions of the text, *)
(* over changed plans, nested queries, errors and statements run with      *)
(* enableME off: the level search compares times of the same expression.   *)
(***************************************************************************)
StablePositions ==
  \A x, y \in placed : <<x[1], x[2]>> = <<y[1], y[2]>> => x[3] = y[3]

(***************************************************************************)
(* No expression is entered twice for the same operator entry, so          *)
(* currentExprList grows only by operators it has not met, by operators of *)
(* cached plans, which are not in currentSQLOpts, and by moved blocks.     *)
(***************************************************************************)
NoDuplicates ==
  \A i, j \in DOMAIN currentExprList :
    (i # j /\ currentExprList[i].op # NULL) => currentExprList[i] # currentExprList[j]

(***************************************************************************)
(* The operators that report.csv prints at the end of a statement, and     *)
(* that the interpreter compares while it counts, are entries of the live  *)
(* currentSQLOpts.                                                         *)
(***************************************************************************)
LiveOperators ==
  (running \notin Utilities \cup {NULL} /\ conf.enableME) =>
    \A i \in DOMAIN currentSQLExprs :
      LET op == currentSQLExprs[i].op
      IN  op # NULL => op[1] = block /\ op[2] <= allOptInfoNum

(***************************************************************************)
(* The counts are right: an entry is counted only for evaluations of its   *)
(* expression at its operator, and for every one of them when the operator *)
(* is one of the text's own plan.  (A cached plan of a function that is    *)
(* planned again in the same execution gets its entry late.)               *)
(***************************************************************************)
Evaluations(shape, sig) ==
  Cardinality({k \in DOMAIN evaluated : evaluated[k] = <<shape, sig>>})

CountsRight ==
  (running \notin Utilities \cup {NULL} /\ conf.enableME) =>
    \A i \in DOMAIN currentSQLExprs :
      LET x   == currentSQLExprs[i]
          sig == Deref(x.op)
      IN  /\ x.count <= Evaluations(x.shape, sig)
          /\ OfText(sig) => x.count = Evaluations(x.shape, sig)

(***************************************************************************)
(* Outside test mode evaluations are counted in the first execution of a   *)
(* text only (the comment on countExpr in postgres.c, prologue of          *)
(* exec_simple_query), so that counting does not disturb the times.        *)
(***************************************************************************)
CountedOnce ==
  (running # NULL /\ conf.enableME /\ ~conf.testME /\ repeats = 1) => evaluated = <<>>
=============================================================================
