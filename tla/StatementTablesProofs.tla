----------------------- MODULE StatementTablesProofs -----------------------
(***************************************************************************)
(* Expressions at the operators of a text have positions of their own in   *)
(* the tables of StatementTables, for any texts, plans, nested queries,    *)
(* settings, blocks and table sizes.                                       *)
(***************************************************************************)
EXTENDS StatementTables, BoundedRecursion, TLAPS

----------------------------------------------------------------------------
(* The inductive invariant.                                                *)

\* An executor has state only between planning and the end of a statement.
Phases ==
  /\ planned => running \in Texts /\ running \notin Utilities \cup {NULL}
  /\ ~ planned => todo = <<>> /\ ready = {} /\ evaluated = <<>>
  /\ (running \notin Utilities \cup {NULL} /\ ~ planned) => allOptInfoNum = 0
  /\ ready # {} => conf.enableME

HasPlace(sig, i) == \E p \in OwnPlans : i \in DOMAIN p.ops /\ p.ops[i] = sig

\* Wherever an operator of the text is in memory, it is at its place.
InPlace ==
  \A b \in Blocks, i \in Entries :
    memory[b][i] \in Operators(OwnPlans) => HasPlace(memory[b][i], i)

\* While the block has not moved, no pointer leads to another one.
OneBlock ==
  ~ moved => \A k \in DOMAIN currentExprList :
    LET op == currentExprList[k].op IN op # NULL => op[1] = block

\* A position of the history is that of an entry for the expression.
PlacedHeld ==
  \A x \in placed :
    /\ ~ moved
    /\ x[3] \in DOMAIN currentExprList
    /\ currentExprList[x[3]].shape = x[1]
    /\ \E i \in Entries : HasPlace(x[2], i) /\ currentExprList[x[3]].op = <<block, i>>

\* The entry at a position in use belongs to the expression that uses it, if
\* either of them is at an operator of the text.
ReadyHeld ==
  \A x \in ready :
    /\ x[3] \in DOMAIN currentExprList
    /\ currentExprList[x[3]].shape = x[1]
    /\ LET sig == Deref(currentExprList[x[3]].op)
       IN  (OfText(x[2]) \/ OfText(sig)) => sig = x[2]

PositionsKept == InPlace /\ OneBlock /\ PlacedHeld /\ ReadyHeld /\ NoDuplicates

\* A write past a table, like a stuttering step, changes nothing of the session.
LEMMA NextIs ==
  ASSUME [Next]_vars
  PROVE  Step \/ (UNCHANGED session /\ foreign' \in {foreign, TRUE})
BY DEF Next, WriteBeyond, vars

----------------------------------------------------------------------------
(* Sequences and entries.                                                  *)

ExprEntry == [shape : Shapes, op : Pointers]
SQLEntry  == [shape : Shapes, op : Pointers, count : Nat]

\* list grows by one entry
Grows(list, new, entry) ==
  /\ Len(new) = Len(list) + 1
  /\ DOMAIN new = DOMAIN list \cup {Len(list) + 1}
  /\ \A i \in DOMAIN list : new[i] = list[i]
  /\ new[Len(list) + 1] = entry

\* Append adds one entry at the end.
LEMMA AppendGrows ==
  ASSUME NEW S, NEW list \in Seq(S), NEW entry \in S
  PROVE  Append(list, entry) \in Seq(S) /\ Grows(list, Append(list, entry), entry)
BY DEF Grows

\* The empty sequence is one over any set.
LEMMA EmptyIs == \A S : <<>> \in Seq(S)
OBVIOUS

\* Counting an evaluation changes the count of one entry and nothing else.
LEMMA CountIs ==
  ASSUME NEW list \in Seq(SQLEntry), NEW hit \in DOMAIN list
  PROVE  LET new == [list EXCEPT ![hit].count = @ + 1]
         IN  /\ new \in Seq(SQLEntry) /\ Len(new) = Len(list)
             /\ DOMAIN new = DOMAIN list
             /\ \A i \in DOMAIN list :
                  /\ new[i].shape = list[i].shape /\ new[i].op = list[i].op
                  /\ new[i].count = IF i = hit THEN list[i].count + 1 ELSE list[i].count
<1> DEFINE new == [list EXCEPT ![hit].count = @ + 1]
<1>1. new = [i \in DOMAIN list |->
               IF i = hit THEN [list[hit] EXCEPT !.count = @ + 1] ELSE list[i]]
  OBVIOUS
<1>2. \A i \in DOMAIN list : list[i] \in SQLEntry
  OBVIOUS
<1>3. \A x \in SQLEntry : /\ [x EXCEPT !.count = @ + 1] \in SQLEntry
                          /\ [x EXCEPT !.count = @ + 1].shape = x.shape
                          /\ [x EXCEPT !.count = @ + 1].op = x.op
                          /\ [x EXCEPT !.count = @ + 1].count = x.count + 1
  <2> SUFFICES ASSUME NEW x \in SQLEntry
               PROVE  /\ [x EXCEPT !.count = @ + 1] \in SQLEntry
                      /\ [x EXCEPT !.count = @ + 1].shape = x.shape
                      /\ [x EXCEPT !.count = @ + 1].op = x.op
                      /\ [x EXCEPT !.count = @ + 1].count = x.count + 1
    OBVIOUS
  <2>1. PICK s \in Shapes, o \in Pointers, c \in Nat : x = [shape |-> s, op |-> o, count |-> c]
    BY DEF SQLEntry
  <2>2. [x EXCEPT !.count = @ + 1] = [shape |-> s, op |-> o, count |-> c + 1]
    BY <2>1
  <2>3. [shape |-> s, op |-> o, count |-> c + 1] \in SQLEntry
    BY DEF SQLEntry
  <2> QED BY <2>1, <2>2, <2>3
<1> HIDE DEF new
<1>4. \A i \in DOMAIN list : new[i] \in SQLEntry
  BY <1>1, <1>2, <1>3
<1>5. DOMAIN list = 1 .. Len(list) /\ Len(list) \in Nat
  OBVIOUS
<1>6. new \in [1 .. Len(list) -> SQLEntry]
  BY <1>1, <1>4, <1>5
<1>7. new \in Seq(SQLEntry) /\ Len(new) = Len(list)
  BY <1>5, <1>6
<1>8. \A i \in DOMAIN list :
        /\ new[i].shape = list[i].shape /\ new[i].op = list[i].op
        /\ new[i].count = IF i = hit THEN list[i].count + 1 ELSE list[i].count
  BY <1>1, <1>2, <1>3
<1> QED BY <1>1, <1>7, <1>8 DEF new

\* A sequence that is not empty has a head and a tail.
LEMMA HeadTail ==
  ASSUME NEW S, NEW list \in Seq(S), list # <<>>
  PROVE  Head(list) \in S /\ Tail(list) \in Seq(S)
OBVIOUS

----------------------------------------------------------------------------
(* Lemmas about the searches.                                              *)

\* The search of a table returns an entry for the expression at the operator,
\* or 0 when the table has none (jit_compile_expr, ExecInterpExpr).
LEMMA FindIs ==
  ASSUME NEW list, DOMAIN list \in SUBSET (Nat \ {0}), NEW shape, NEW sig
  PROVE  /\ Find(list, shape, sig) = 0 <=>
              \A i \in DOMAIN list : ~ IsEntry(list[i], shape, sig)
         /\ Find(list, shape, sig) # 0 =>
              /\ Find(list, shape, sig) \in DOMAIN list
              /\ IsEntry(list[Find(list, shape, sig)], shape, sig)
         /\ Find(list, shape, sig) \in Nat
<1> DEFINE hits == {i \in DOMAIN list : IsEntry(list[i], shape, sig)}
<1>1. hits \in SUBSET Nat /\ hits \subseteq DOMAIN list /\ 0 \notin hits
  OBVIOUS
<1>2. Find(list, shape, sig) = IF hits = {} THEN 0 ELSE CHOOSE i \in hits : \A j \in hits : i <= j
  BY DEF Find
<1>3. \A i : i \in hits <=> i \in DOMAIN list /\ IsEntry(list[i], shape, sig)
  OBVIOUS
<1> HIDE DEF hits
<1>4. CASE hits = {}
  BY <1>2, <1>3, <1>4
<1>5. CASE hits # {}
  <2>1. \E i \in hits : \A j \in hits : i <= j
    BY <1>1, <1>5, LeastMember
  <2>2. Find(list, shape, sig) \in hits
    BY <1>2, <1>5, <2>1
  <2> QED BY <1>1, <1>3, <2>2
<1> QED BY <1>4, <1>5

\* findOperatorInfo returns an entry of the live table with the signature, or
\* NULL when there is none.
LEMMA FindOperatorIs ==
  ASSUME TypeOK, NEW sig \in Sigs
  PROVE  /\ FindOperatorInfo(sig) \in Pointers
         /\ FindOperatorInfo(sig) = NULL =>
              \A i \in 1 .. allOptInfoNum : memory[block][i] # sig
         /\ FindOperatorInfo(sig) # NULL =>
              \E i \in 1 .. allOptInfoNum : /\ i \in Entries
                                            /\ FindOperatorInfo(sig) = <<block, i>>
                                            /\ memory[block][i] = sig
                                            /\ Deref(FindOperatorInfo(sig)) = sig
<1> DEFINE places == {i \in 1 .. allOptInfoNum : memory[block][i] = sig}
           first  == CHOOSE i \in places : \A j \in places : i <= j
<1>1. places \in SUBSET Nat /\ places \subseteq Entries
  BY SizesAssumption DEF TypeOK, Entries
<1>2. FindOperatorInfo(sig) = IF places = {} THEN NULL ELSE <<block, first>>
  BY DEF FindOperatorInfo
<1>3. \A i : i \in places <=> i \in 1 .. allOptInfoNum /\ memory[block][i] = sig
  OBVIOUS
<1> HIDE DEF places
<1>4. CASE places = {}
  BY <1>2, <1>3, <1>4 DEF Pointers
<1>5. CASE places # {}
  <2>1. \E i \in places : \A j \in places : i <= j
    BY <1>1, <1>5, LeastMember
  <2>2. first \in places
    BY <2>1
  <2> HIDE DEF first
  <2>3. FindOperatorInfo(sig) = <<block, first>> /\ <<block, first>> \in Blocks \X Entries
    BY <1>1, <1>2, <1>5, <2>2 DEF TypeOK
  <2>4. Deref(FindOperatorInfo(sig)) = sig
    BY <1>3, <2>2, <2>3, ValuesAssumption DEF Deref
  <2> QED BY <1>1, <1>3, <2>2, <2>3, <2>4, ValuesAssumption DEF Pointers
<1> QED BY <1>4, <1>5

----------------------------------------------------------------------------
(* What a compilation does to the tables.                                  *)

\* the expression of shape at sig is in list, or list grows by it
Entered(list, new, shape, sig, entry) ==
  \/ new = list /\ \E i \in DOMAIN list : IsEntry(list[i], shape, sig)
  \/ Grows(list, new, entry) /\ \A i \in DOMAIN list : ~ IsEntry(list[i], shape, sig)

Placed(shape, sig, k) ==
  \/ /\ currentExprList' = currentExprList
     /\ k \in DOMAIN currentExprList /\ IsEntry(currentExprList[k], shape, sig)
  \/ /\ k = Len(currentExprList) + 1
     /\ Grows(currentExprList, currentExprList', [shape |-> shape, op |-> FindOperatorInfo(sig)])
     /\ \A i \in DOMAIN currentExprList : ~ IsEntry(currentExprList[i], shape, sig)

\* The entries of both tables are of their types.
LEMMA PointerIs ==
  ASSUME TypeOK
  PROVE  /\ \A i \in DOMAIN currentExprList : /\ currentExprList[i] \in ExprEntry
                                              /\ currentExprList[i].op \in Pointers
         /\ \A i \in DOMAIN currentSQLExprs : /\ currentSQLExprs[i].op \in Pointers
                                              /\ currentSQLExprs[i].count \in Nat
<1>1. currentExprList \in Seq(ExprEntry) /\ currentSQLExprs \in Seq(SQLEntry)
  BY DEF TypeOK, ExprEntry, SQLEntry
<1>2. /\ \A i \in DOMAIN currentExprList : currentExprList[i] \in ExprEntry
      /\ \A i \in DOMAIN currentSQLExprs : currentSQLExprs[i] \in SQLEntry
  BY <1>1
<1> QED BY <1>2 DEF ExprEntry, SQLEntry

\* With enableME on, a compilation enters its expression into both tables
\* unless it is there, and takes the position of its entry in currentExprList.
LEMMA CompileIs ==
  ASSUME TypeOK, JitCompileExpr, conf.enableME
  PROVE  \E shape \in Shapes, sig \in Sigs, k \in 1 .. EXPR_MAX_NUM :
           /\ Placed(shape, sig, k)
           /\ Entered(currentSQLExprs, currentSQLExprs', shape, sig,
                      [shape |-> shape, op |-> FindOperatorInfo(sig), count |-> 0])
           /\ ready' = ready \cup {<<shape, sig, k>>}
           /\ placed' = IF moved \/ ~ OfText(sig) THEN placed
                        ELSE placed \cup {<<shape, sig, k>>}
           /\ currentExprList' \in Seq(ExprEntry) /\ Len(currentExprList') <= EXPR_MAX_NUM
           /\ currentSQLExprs' \in Seq(SQLEntry) /\ Len(currentSQLExprs') <= EXPR_MAX_NUM
<1> DEFINE shape == Head(todo).shape
           sig   == Head(todo).sig
           op    == FindOperatorInfo(sig)
           known == Find(currentExprList, shape, sig)
           found == Find(currentSQLExprs, shape, sig)
           k     == IF known = 0 THEN Len(currentExprList) + 1 ELSE known
           e     == [shape |-> shape, op |-> op]
           c     == [shape |-> shape, op |-> op, count |-> 0]
<1>1. shape \in Shapes /\ sig \in Sigs
  <2>1. todo # <<>> /\ todo \in Seq([shape : Shapes, sig : Sigs])
    BY DEF JitCompileExpr, TypeOK
  <2>2. Head(todo) \in [shape : Shapes, sig : Sigs]
    BY <2>1, HeadTail, Zenon
  <2> QED BY <2>2
<1>2. /\ found = 0 => Len(currentSQLExprs) < EXPR_MAX_NUM
      /\ known = 0 => Len(currentExprList) < EXPR_MAX_NUM
      /\ currentSQLExprs' = IF found # 0 THEN currentSQLExprs ELSE Append(currentSQLExprs, c)
      /\ currentExprList' = IF known # 0 THEN currentExprList ELSE Append(currentExprList, e)
      /\ ready' = ready \cup {<<shape, sig, k>>}
      /\ placed' = IF moved \/ ~ OfText(sig) THEN placed ELSE placed \cup {<<shape, sig, k>>}
  BY DEF JitCompileExpr, ExprFits
<1> HIDE DEF shape, sig
<1>3. op \in Pointers
  BY <1>1, FindOperatorIs
<1> HIDE DEF op
<1>4. e \in ExprEntry /\ c \in SQLEntry
  BY <1>1, <1>3 DEF ExprEntry, SQLEntry
<1>5. currentExprList \in Seq(ExprEntry) /\ currentSQLExprs \in Seq(SQLEntry)
  BY DEF TypeOK, ExprEntry, SQLEntry
<1> HIDE DEF e, c
<1>6. /\ Append(currentExprList, e) \in Seq(ExprEntry)
      /\ Grows(currentExprList, Append(currentExprList, e), e)
      /\ Append(currentSQLExprs, c) \in Seq(SQLEntry)
      /\ Grows(currentSQLExprs, Append(currentSQLExprs, c), c)
  BY <1>4, <1>5, AppendGrows
<1>7. /\ known = 0 <=> \A i \in DOMAIN currentExprList : ~ IsEntry(currentExprList[i], shape, sig)
      /\ known # 0 => known \in DOMAIN currentExprList /\ IsEntry(currentExprList[known], shape, sig)
      /\ known \in Nat
  BY <1>5, FindIs
<1>8. /\ found = 0 <=> \A i \in DOMAIN currentSQLExprs : ~ IsEntry(currentSQLExprs[i], shape, sig)
      /\ found # 0 => found \in DOMAIN currentSQLExprs /\ IsEntry(currentSQLExprs[found], shape, sig)
      /\ found \in Nat
  BY <1>5, FindIs
<1> HIDE DEF known, found
<1>9. /\ k \in 1 .. EXPR_MAX_NUM
      /\ Len(currentExprList') <= EXPR_MAX_NUM /\ currentExprList' \in Seq(ExprEntry)
  BY SizesAssumption, <1>2, <1>5, <1>6, <1>7 DEF Grows, TypeOK
<1>10. Len(currentSQLExprs') <= EXPR_MAX_NUM /\ currentSQLExprs' \in Seq(SQLEntry)
  BY SizesAssumption, <1>2, <1>5, <1>6, <1>8 DEF Grows, TypeOK
<1>11. Placed(shape, sig, k)
  BY <1>2, <1>6, <1>7 DEF Placed, e, op
<1>12. Entered(currentSQLExprs, currentSQLExprs', shape, sig, c)
  BY <1>2, <1>6, <1>8 DEF Entered
<1> HIDE DEF k
<1> QED BY <1>1, <1>2, <1>9, <1>10, <1>11, <1>12, Zenon DEF c, op

----------------------------------------------------------------------------
(* Type correctness.                                                       *)

Expr == [shape : Shapes, sig : Sigs]

\* The operators of all plans are signatures.
LEMMA PlanTypes ==
  /\ \A p \in OwnPlans \cup Nested :
       /\ p.ops \in Seq(Sigs) /\ p.exprs \in Seq(Expr)
  /\ Operators(OwnPlans) \subseteq Sigs /\ Operators(Nested) \subseteq Sigs
<1>1. \A p \in OwnPlans \cup Nested : p \in PlanType
  BY PlansAssumption DEF OwnPlans
<1>2. \A p \in PlanType : p.ops \in Seq(Sigs) /\ p.exprs \in Seq(Expr)
  BY DEF PlanType, Expr
<1>3. \A p \in OwnPlans \cup Nested : \A i \in DOMAIN p.ops : p.ops[i] \in Sigs
  BY <1>1, <1>2
<1> QED BY <1>1, <1>2, <1>3 DEF Operators

\* Until a table is written past its end, the tables, settings and histories
\* keep their types, and the executor's state begins with the plan and ends
\* with the statement.
LEMMA TablesTyped == Spec => []TypeOK /\ []Phases
<1>1. Init => TypeOK /\ Phases
  <2> SUFFICES ASSUME Init PROVE TypeOK /\ Phases
    OBVIOUS
  <2>1. /\ <<>> \in Seq([shape : Shapes, sig : Sigs]) /\ <<>> \in Seq(Shapes \X Sigs)
        /\ <<>> \in Seq([shape : Shapes, op : Pointers, count : Nat])
        /\ <<>> \in Seq([shape : Shapes, op : Pointers])
    <3>1. <<>> \in Seq([shape : Shapes, sig : Sigs])
      BY EmptyIs, Zenon
    <3>2. <<>> \in Seq(Shapes \X Sigs)
      BY EmptyIs, Zenon
    <3>3. <<>> \in Seq([shape : Shapes, op : Pointers, count : Nat])
      BY EmptyIs, Zenon
    <3>4. <<>> \in Seq([shape : Shapes, op : Pointers])
      BY EmptyIs, Zenon
    <3> QED BY <3>1, <3>2, <3>3, <3>4
  <2>2. Len(currentSQLExprs) = 0 /\ Len(currentExprList) = 0
    BY DEF Init
  <2>3. /\ todo \in Seq([shape : Shapes, sig : Sigs]) /\ evaluated \in Seq(Shapes \X Sigs)
        /\ currentSQLExprs \in Seq([shape : Shapes, op : Pointers, count : Nat])
        /\ currentExprList \in Seq([shape : Shapes, op : Pointers])
    BY <2>1, Zenon DEF Init
  <2>4. memory \in [Blocks -> [Entries -> Sigs \cup {Junk}]]
    BY DEF Init
  <2>5. /\ conf \in Configs /\ block \in Blocks
        /\ running \in Texts \cup {NULL} /\ currentStatement \in Texts \cup {NULL}
        /\ countExpr \in BOOLEAN /\ planned \in BOOLEAN
        /\ overrun \in BOOLEAN /\ moved \in BOOLEAN /\ foreign \in BOOLEAN
        /\ ready \subseteq (Shapes \X Sigs \X (1 .. EXPR_MAX_NUM))
        /\ placed \subseteq (Shapes \X Sigs \X (1 .. EXPR_MAX_NUM))
    BY Zenon DEF Init
  <2>6. repeats \in 0 .. 1 /\ allOptInfoNum \in 0 .. OPT_LIST_SIZE
    BY SizesAssumption DEF Init
  <2>7. TypeOK
    BY SizesAssumption, <2>2, <2>3, <2>4, <2>5, <2>6 DEF TypeOK
  <2> QED BY <2>7 DEF Init, Phases
<1>2. TypeOK /\ Phases /\ [Next]_vars => TypeOK' /\ Phases'
  <2> SUFFICES ASSUME TypeOK, Phases, [Next]_vars PROVE TypeOK' /\ Phases'
    OBVIOUS
  <2>0. overrun' \in BOOLEAN
    BY DEF Next, WriteBeyond, vars, TypeOK
  <2>1. ASSUME NEW t \in Texts, Receive(t) PROVE TypeOK' /\ Phases'
    <3>1. running = NULL /\ ~ planned /\ UNCHANGED <<conf, planned, todo, ready, evaluated>>
      BY <2>1 DEF Receive, executor, Phases, TypeOK
    <3>2. /\ currentStatement' \in Texts \cup {NULL} /\ repeats' \in 0 .. 1
          /\ countExpr' \in BOOLEAN
      BY <2>1, ValuesAssumption DEF Receive, RenewExprs, NewText, SameText, TypeOK
    <3>3. /\ currentSQLExprs' \in Seq([shape : Shapes, op : Pointers, count : Nat])
          /\ currentExprList' \in Seq([shape : Shapes, op : Pointers])
          /\ Len(currentSQLExprs') <= EXPR_MAX_NUM /\ Len(currentExprList') <= EXPR_MAX_NUM
      <4>1. /\ currentSQLExprs' \in {<<>>, currentSQLExprs}
            /\ currentExprList' \in {<<>>, currentExprList}
        BY <2>1 DEF Receive, RenewExprs, NewText, SameText
      <4>2. /\ <<>> \in Seq([shape : Shapes, op : Pointers, count : Nat])
            /\ <<>> \in Seq([shape : Shapes, op : Pointers])
        BY EmptyIs, Zenon
      <4>3. Len(<<>>) <= EXPR_MAX_NUM
        BY SizesAssumption
      <4> QED BY <4>1, <4>2, <4>3, Zenon DEF TypeOK
    <3>4. /\ block' \in Blocks /\ allOptInfoNum' \in 0 .. OPT_LIST_SIZE
          /\ memory' \in [Blocks -> [Entries -> Sigs \cup {Junk}]]
          /\ t \notin Utilities => allOptInfoNum' = 0
      BY <2>1, SizesAssumption DEF Receive, RenewOperators, TypeOK
    <3>5. /\ moved' \in BOOLEAN /\ foreign' \in BOOLEAN
          /\ placed' \subseteq (Shapes \X Sigs \X (1 .. EXPR_MAX_NUM))
      BY <2>1 DEF Receive, NoteMove, TypeOK
    <3>6. running' = t
      BY <2>1 DEF Receive
    <3>7. TypeOK'
      BY <2>0, <3>1, <3>2, <3>3, <3>4, <3>5, <3>6 DEF TypeOK
    <3> QED BY <3>1, <3>4, <3>6, <3>7 DEF Phases
  <2>2. ASSUME NEW ops \in Seq(Sigs), AddPlanTree(ops)
        PROVE  /\ allOptInfoNum' \in 0 .. OPT_LIST_SIZE
               /\ memory' \in [Blocks -> [Entries -> Sigs \cup {Junk}]]
    BY <2>2, SizesAssumption DEF AddPlanTree, OperatorsFit, TypeOK, Entries
  <2>3. CASE Plan
    <3>1. PICK p \in Plans[running] : AddPlanTree(p.ops) /\ todo' = p.exprs
      BY <2>3 DEF Plan
    <3>2. running \in Texts /\ running \notin Utilities
      BY <2>3 DEF Plan, TypeOK
    <3>3. p.ops \in Seq(Sigs) /\ p.exprs \in Seq(Expr)
      BY <3>1, <3>2, PlanTypes DEF OwnPlans
    <3>4. TypeOK'
      BY <2>0, <2>2, <2>3, <3>1, <3>3, SMTT(30) DEF Plan, TypeOK, history, Expr
    <3> QED BY <2>3, <3>2, <3>4 DEF Plan, Phases
  <2>4. CASE PlanNested
    <3>1. PICK p \in Nested : AddPlanTree(p.ops) /\ todo' = p.exprs \o todo
      BY <2>4, Zenon DEF PlanNested
    <3>2. p.ops \in Seq(Sigs) /\ p.exprs \in Seq(Expr)
      BY PlanTypes
    <3>3. todo' \in Seq(Expr)
      BY <3>1, <3>2 DEF TypeOK, Expr
    <3>4. TypeOK'
      BY <2>0, <2>2, <2>4, <3>1, <3>2, <3>3 DEF PlanNested, TypeOK, Expr
    <3> QED BY <2>4, <3>4 DEF PlanNested, Phases
  <2>5. CASE RunCached
    <3>1. PICK p \in Nested : todo' = p.exprs \o todo
      BY <2>5, Zenon DEF RunCached
    <3>2. p.exprs \in Seq(Expr)
      BY PlanTypes
    <3>3. todo' \in Seq(Expr)
      BY <3>1, <3>2 DEF TypeOK, Expr
    <3>4. TypeOK'
      BY <2>0, <2>5, <3>3 DEF RunCached, TypeOK, tables, Expr
    <3> QED BY <2>5, <3>4 DEF RunCached, Phases, tables
  <2>6. CASE JitCompileExpr
    <3>1. todo' \in Seq(Expr) /\ todo # <<>>
      BY <2>6, HeadTail, SMTT(30) DEF JitCompileExpr, TypeOK, Expr
    <3>2. UNCHANGED <<conf, running, planned, currentStatement, repeats,
                      countExpr, block, memory, allOptInfoNum, moved, foreign, evaluated>>
      BY <2>6 DEF JitCompileExpr
    <3>3. planned
      BY <3>1 DEF Phases, TypeOK
    <3>4. CASE ~ conf.enableME
      <4>1. UNCHANGED <<currentSQLExprs, currentExprList, ready, placed>>
        BY <2>6, <3>4 DEF JitCompileExpr
      <4> QED BY <2>0, <3>1, <3>2, <3>3, <4>1, SMTT(30) DEF TypeOK, Phases, Expr
    <3>5. CASE conf.enableME
      <4>1. PICK shape \in Shapes, sig \in Sigs, k \in 1 .. EXPR_MAX_NUM :
              /\ ready' = ready \cup {<<shape, sig, k>>}
              /\ placed' = IF moved \/ ~ OfText(sig) THEN placed
                           ELSE placed \cup {<<shape, sig, k>>}
              /\ currentExprList' \in Seq(ExprEntry) /\ Len(currentExprList') <= EXPR_MAX_NUM
              /\ currentSQLExprs' \in Seq(SQLEntry) /\ Len(currentSQLExprs') <= EXPR_MAX_NUM
        BY <2>6, <3>5, CompileIs, Zenon
      <4>2. TypeOK'
        BY <2>0, <3>1, <3>2, <4>1 DEF TypeOK, Expr, ExprEntry, SQLEntry
      <4> QED BY <3>2, <3>3, <3>5, <4>2 DEF Phases
    <3>6. conf.enableME \in BOOLEAN
      BY ValuesAssumption DEF TypeOK
    <3> QED BY <3>4, <3>5, SMTT(30)
  <2>7. CASE ExecInterpExpr
    <3>1. PICK x \in ready :
            /\ evaluated' = Append(evaluated, <<x[1], x[2]>>)
            /\ currentSQLExprs' = IF Find(currentSQLExprs, x[1], x[2]) = 0 THEN currentSQLExprs
                 ELSE [currentSQLExprs EXCEPT ![Find(currentSQLExprs, x[1], x[2])].count = @ + 1]
      BY <2>7, Zenon DEF ExecInterpExpr
    <3>2. evaluated' \in Seq(Shapes \X Sigs)
      BY <3>1 DEF TypeOK
    <3>3. /\ currentSQLExprs' \in Seq(SQLEntry)
          /\ Len(currentSQLExprs') <= EXPR_MAX_NUM
      <4>1. /\ currentSQLExprs \in Seq(SQLEntry)
            /\ Len(currentSQLExprs) <= EXPR_MAX_NUM
        BY DEF TypeOK, SQLEntry
      <4> DEFINE hit == Find(currentSQLExprs, x[1], x[2])
      <4>2. hit # 0 => hit \in DOMAIN currentSQLExprs
        BY <4>1, FindIs
      <4>3. currentSQLExprs' = IF hit = 0 THEN currentSQLExprs
                               ELSE [currentSQLExprs EXCEPT ![hit].count = @ + 1]
        BY <3>1
      <4> HIDE DEF hit
      <4> QED BY <4>1, <4>2, <4>3, CountIs
    <3>4. UNCHANGED <<conf, running, planned, todo, ready, currentStatement,
                 repeats, countExpr, block, memory, allOptInfoNum,
                 currentExprList, moved, foreign, placed>>
      BY <2>7 DEF ExecInterpExpr
    <3>5. planned
      BY <3>1 DEF Phases, TypeOK
    <3>6. TypeOK'
      BY <2>0, <3>2, <3>3, <3>4 DEF TypeOK, SQLEntry
    <3> QED BY <3>4, <3>5, <3>6 DEF Phases
  <2>8. CASE EndStatement
    <3>1. todo' \in Seq([shape : Shapes, sig : Sigs]) /\ evaluated' \in Seq(Shapes \X Sigs)
      BY <2>8, EmptyIs DEF EndStatement
    <3>2. TypeOK'
      BY <2>0, <2>8, <3>1, ZenonT(30) DEF EndStatement, TypeOK, tables
    <3> QED BY <2>8, <3>2 DEF EndStatement, Phases
  <2>9. CASE Reload
    <3>1. running = NULL /\ ~ planned /\ ready = {}
      BY <2>9 DEF Reload, Phases, TypeOK
    <3> QED BY <2>0, <2>9, <3>1 DEF Reload, TypeOK, Phases, tables, executor
  <2>10. CASE UNCHANGED session /\ foreign' \in {foreign, TRUE}
    BY <2>0, <2>10 DEF session, tables, executor, TypeOK, Phases
  <2> QED
    BY <2>1, <2>3, <2>4, <2>5, <2>6, <2>7, <2>8, <2>9, <2>10, NextIs DEF Step, Complete, Abort
<1> QED BY <1>1, <1>2, PTL DEF Spec

----------------------------------------------------------------------------
(* Operators of the text while functions add operators of their own.       *)

\* plan_node_id gives a signature one place in all plans of the text.
LEMMA OnePlace ==
  ASSUME NEW sig, NEW i, NEW j, HasPlace(sig, i), HasPlace(sig, j)
  PROVE  i = j
BY PlacesAssumption DEF HasPlace

\* addPlanTree leaves everything alone but the entries that it adds.
LEMMA AddIs ==
  ASSUME TypeOK, NEW ops \in Seq(Sigs), AddPlanTree(ops)
  PROVE  /\ allOptInfoNum' = allOptInfoNum + Len(ops) /\ allOptInfoNum' <= OPT_LIST_SIZE
         /\ \A b \in Blocks, i \in Entries :
              (b # block \/ i <= allOptInfoNum) => memory'[b][i] = memory[b][i]
         /\ \A i \in Entries :
              \/ memory'[block][i] = memory[block][i]
              \/ i - allOptInfoNum \in DOMAIN ops /\ memory'[block][i] = ops[i - allOptInfoNum]
         /\ \A i \in Entries : (i > allOptInfoNum /\ i <= allOptInfoNum') =>
              i - allOptInfoNum \in DOMAIN ops /\ memory'[block][i] = ops[i - allOptInfoNum]
<1>1. /\ allOptInfoNum' = allOptInfoNum + Len(ops)
      /\ allOptInfoNum + Len(ops) <= OPT_LIST_SIZE
  BY DEF AddPlanTree, OperatorsFit
<1>2. \A b \in Blocks : b # block => memory'[b] = memory[b]
  BY DEF AddPlanTree, TypeOK
<1>3. \A i \in Entries : memory'[block][i] =
        IF i - allOptInfoNum \in DOMAIN ops THEN ops[i - allOptInfoNum] ELSE memory[block][i]
  BY DEF AddPlanTree, TypeOK
<1>4. DOMAIN ops = 1 .. Len(ops) /\ Len(ops) \in Nat /\ allOptInfoNum \in Nat
  BY DEF TypeOK
<1>5. \A i \in Entries : i <= allOptInfoNum => memory'[block][i] = memory[block][i]
  BY <1>3, <1>4 DEF Entries
<1>6. \A i \in Entries : (i > allOptInfoNum /\ i <= allOptInfoNum') =>
        i - allOptInfoNum \in DOMAIN ops
  BY <1>1, <1>4 DEF Entries
<1> QED BY <1>1, <1>2, <1>3, <1>5, <1>6

\* A step in which functions may add operators behind those that are there.
OthersAdded ==
  /\ block' = block
  /\ allOptInfoNum' \in Nat
  /\ allOptInfoNum <= allOptInfoNum' /\ allOptInfoNum' <= OPT_LIST_SIZE
  /\ \A b \in Blocks, i \in Entries :
       (b # block \/ i <= allOptInfoNum) => memory'[b][i] = memory[b][i]
  /\ \A b \in Blocks, i \in Entries :
       memory'[b][i] = memory[b][i] \/ memory'[b][i] \notin Operators(OwnPlans)
  /\ \A i \in Entries : (i > allOptInfoNum /\ i <= allOptInfoNum') =>
       memory'[block][i] \notin Operators(OwnPlans)

\* Planning a query of a function is such a step.
LEMMA NestedAdds ==
  ASSUME TypeOK, PlanNested
  PROVE  OthersAdded
<1>1. PICK p \in Nested : AddPlanTree(p.ops)
  BY DEF PlanNested
<1>2. p.ops \in Seq(Sigs)
  BY PlanTypes
<1>3. \A i \in DOMAIN p.ops : p.ops[i] \notin Operators(OwnPlans)
  BY NestedAssumption DEF Operators
<1>4. block' = block
  BY DEF PlanNested
<1>5. Len(p.ops) \in Nat /\ allOptInfoNum \in Nat
  BY <1>2 DEF TypeOK
<1>6. /\ allOptInfoNum' \in Nat
      /\ allOptInfoNum <= allOptInfoNum' /\ allOptInfoNum' <= OPT_LIST_SIZE
  BY <1>1, <1>2, <1>5, AddIs
<1>7. \A b \in Blocks, i \in Entries :
        (b # block \/ i <= allOptInfoNum) => memory'[b][i] = memory[b][i]
  BY <1>1, <1>2, AddIs
<1>8. \A i \in Entries : memory'[block][i] = memory[block][i]
                         \/ memory'[block][i] \notin Operators(OwnPlans)
  BY <1>1, <1>2, <1>3, AddIs
<1>9. \A i \in Entries : (i > allOptInfoNum /\ i <= allOptInfoNum') =>
        memory'[block][i] \notin Operators(OwnPlans)
  BY <1>1, <1>2, <1>3, AddIs
<1> QED BY <1>4, <1>6, <1>7, <1>8, <1>9 DEF OthersAdded

\* Such a step makes no operator of the text appear or go away,
LEMMA SameOfText ==
  ASSUME TypeOK, OthersAdded, NEW sig
  PROVE  OfText(sig)' <=> OfText(sig)
<1>1. 1 .. allOptInfoNum \subseteq 1 .. allOptInfoNum' /\ 1 .. allOptInfoNum' \subseteq Entries
  BY SizesAssumption DEF OthersAdded, TypeOK, Entries
<1>2. ASSUME OfText(sig) PROVE OfText(sig)'
  <2>1. PICK i \in 1 .. allOptInfoNum : memory[block][i] = sig
    BY <1>2 DEF OfText
  <2>2. i \in Entries /\ i <= allOptInfoNum /\ i \in 1 .. allOptInfoNum'
    BY <1>1
  <2>3. memory'[block'][i] = sig
    BY <2>1, <2>2 DEF OthersAdded, TypeOK
  <2> QED BY <1>2, <2>2, <2>3 DEF OfText
<1>3. ASSUME OfText(sig)' PROVE OfText(sig)
  <2>1. PICK i \in 1 .. allOptInfoNum' : memory'[block'][i] = sig
    BY <1>3 DEF OfText
  <2>2. sig \in Operators(OwnPlans)
    BY <1>3 DEF OfText
  <2>3. i \in Entries /\ i <= allOptInfoNum
    <3>1. i \in Entries /\ i \in Int /\ i <= allOptInfoNum' /\ allOptInfoNum \in Int
      BY <1>1 DEF OthersAdded, TypeOK
    <3>2. memory'[block][i] \in Operators(OwnPlans)
      BY <2>1, <2>2 DEF OthersAdded
    <3>3. ~ (i > allOptInfoNum)
      BY <3>1, <3>2 DEF OthersAdded
    <3> QED BY <3>1, <3>3
  <2>4. memory[block][i] = sig /\ i \in 1 .. allOptInfoNum
    BY <2>1, <2>3 DEF OthersAdded, TypeOK
  <2> QED BY <2>2, <2>4 DEF OfText
<1> QED BY <1>2, <1>3

\* and moves no pointer to or from one.
LEMMA SameDeref ==
  ASSUME TypeOK, InPlace, OthersAdded, NEW op \in Pointers,
         OfText(Deref(op)) \/ OfText(Deref(op)')
  PROVE  Deref(op)' = Deref(op)
<1>1. CASE op = NULL
  BY <1>1 DEF Deref
<1>2. CASE op # NULL
  <2>1. op[1] \in Blocks /\ op[2] \in Entries
    BY <1>2 DEF Pointers
  <2>2. Deref(op) = memory[op[1]][op[2]] /\ Deref(op)' = memory'[op[1]][op[2]]
    BY <1>2 DEF Deref
  <2>3. CASE OfText(Deref(op)')
    <3>1. Deref(op)' \in Operators(OwnPlans)
      BY <2>3 DEF OfText
    <3> QED BY <2>1, <2>2, <3>1 DEF OthersAdded
  <2>4. CASE OfText(Deref(op))
    <3>1. PICK i \in 1 .. allOptInfoNum : memory[block][i] = Deref(op)
      BY <2>4 DEF OfText
    <3>2. Deref(op) \in Operators(OwnPlans)
      BY <2>4 DEF OfText
    <3>3. HasPlace(Deref(op), op[2])
      BY <2>1, <2>2, <3>2 DEF InPlace
    <3>4. i \in Entries /\ block \in Blocks
      BY SizesAssumption DEF TypeOK, Entries
    <3>5. HasPlace(Deref(op), i)
      BY <3>1, <3>2, <3>4 DEF InPlace
    <3>6. i = op[2]
      BY <3>3, <3>5, OnePlace
    <3>7. i <= allOptInfoNum
      BY SMTT(30) DEF TypeOK
    <3> QED BY <2>1, <2>2, <3>6, <3>7, SMTT(30) DEF OthersAdded
  <2> QED BY <2>3, <2>4
<1> QED BY <1>1, <1>2

----------------------------------------------------------------------------
(* Positions.                                                              *)

\* The entry of currentExprList that a compilation takes is one for its
\* expression: at an operator of the text, the one at the operator's place.
LEMMA PlacedIs ==
  ASSUME TypeOK, InPlace, OneBlock, NEW shape \in Shapes, NEW sig \in Sigs,
         NEW k \in 1 .. EXPR_MAX_NUM, Placed(shape, sig, k)
  PROVE  /\ k \in DOMAIN currentExprList'
         /\ currentExprList'[k].shape = shape
         /\ currentExprList'[k].op \in Pointers
         /\ \/ Deref(currentExprList'[k].op) = sig
            \/ currentExprList'[k].op = NULL /\ ~ OfText(sig)
         /\ (~ moved /\ OfText(sig)) =>
              \E i \in Entries : HasPlace(sig, i) /\ currentExprList'[k].op = <<block, i>>
         /\ \A i \in DOMAIN currentExprList :
              i \in DOMAIN currentExprList' /\ currentExprList'[i] = currentExprList[i]
<1> DEFINE new == [shape |-> shape, op |-> FindOperatorInfo(sig)]
<1>1. CASE /\ currentExprList' = currentExprList
           /\ k \in DOMAIN currentExprList /\ IsEntry(currentExprList[k], shape, sig)
  <2>1. PICK op \in Pointers : op = currentExprList[k].op
    BY <1>1, PointerIs
  <2>2. Deref(op) = sig
    BY <1>1, <2>1 DEF IsEntry
  <2>3. op # NULL
    BY <2>2, ValuesAssumption DEF Deref
  <2>4. op \in Blocks \X Entries /\ op = <<op[1], op[2]>> /\ op[1] \in Blocks /\ op[2] \in Entries
    BY <2>3 DEF Pointers
  <2>5. memory[op[1]][op[2]] = sig
    BY <2>2, <2>3, SMTT(30) DEF Deref
  <2>6. ASSUME ~ moved, OfText(sig) PROVE HasPlace(sig, op[2]) /\ op = <<block, op[2]>>
    BY <1>1, <2>1, <2>3, <2>4, <2>5, <2>6, SMTT(30) DEF OneBlock, InPlace, OfText
  <2> QED BY <1>1, <2>1, <2>2, <2>4, <2>6 DEF IsEntry
<1>2. CASE k = Len(currentExprList) + 1 /\ Grows(currentExprList, currentExprList', new)
  <2>1. /\ k \in DOMAIN currentExprList'
        /\ currentExprList'[k].shape = shape /\ currentExprList'[k].op = FindOperatorInfo(sig)
        /\ \A i \in DOMAIN currentExprList :
              i \in DOMAIN currentExprList' /\ currentExprList'[i] = currentExprList[i]
    BY <1>2, SMTT(30) DEF Grows
  <2>2. CASE FindOperatorInfo(sig) = NULL
    <3>1. ~ OfText(sig)
      BY <2>2, FindOperatorIs, SMTT(30) DEF OfText
    <3> QED BY <2>1, <2>2, <3>1, SMTT(30) DEF Pointers
  <2>3. CASE FindOperatorInfo(sig) # NULL
    <3>1. PICK i \in Entries : /\ FindOperatorInfo(sig) = <<block, i>>
                               /\ memory[block][i] = sig
                               /\ Deref(FindOperatorInfo(sig)) = sig
      BY <2>3, FindOperatorIs
    <3>2. FindOperatorInfo(sig) \in Pointers
      BY FindOperatorIs
    <3>3. OfText(sig) => HasPlace(sig, i)
      BY <3>1 DEF InPlace, OfText, TypeOK
    <3> QED BY <2>1, <3>1, <3>2, <3>3, SMTT(30)
  <2> QED BY <2>2, <2>3
<1> QED BY <1>1, <1>2, SMTT(30) DEF Placed

\* A step that leaves tables and positions alone keeps what is known of them.
LEMMA SamePositions ==
  ASSUME UNCHANGED <<block, memory, allOptInfoNum, currentExprList, moved, placed>>,
         ready' \in {ready, {}}, PositionsKept
  PROVE  PositionsKept'
<1>1. InPlace' /\ OneBlock' /\ PlacedHeld' /\ NoDuplicates'
  BY DEF PositionsKept, InPlace, OneBlock, PlacedHeld, NoDuplicates
<1>2. ReadyHeld'
  BY Zenon DEF PositionsKept, ReadyHeld, Deref, OfText
<1> QED BY <1>1, <1>2, SMTT(30) DEF PositionsKept

\* A compilation keeps what is known of positions.
LEMMA CompileKeepsPositions ==
  ASSUME TypeOK, PositionsKept, JitCompileExpr
  PROVE  PositionsKept'
<1>1. UNCHANGED <<block, memory, allOptInfoNum, moved>>
  BY DEF JitCompileExpr
<1>2. \A op : Deref(op)' = Deref(op) /\ (OfText(op)' <=> OfText(op))
  BY <1>1 DEF Deref, OfText
<1>3. InPlace'
  BY <1>1 DEF InPlace, PositionsKept
<1>4. CASE ~ conf.enableME
  <2>1. UNCHANGED <<currentExprList, ready, placed>>
    BY <1>4, Zenon DEF JitCompileExpr
  <2> QED BY <1>1, <2>1, SamePositions
<1>5. CASE conf.enableME
  <2>1. PICK shape \in Shapes, sig \in Sigs, k \in 1 .. EXPR_MAX_NUM :
          /\ Placed(shape, sig, k)
          /\ ready' = ready \cup {<<shape, sig, k>>}
          /\ placed' = IF moved \/ ~ OfText(sig) THEN placed
                       ELSE placed \cup {<<shape, sig, k>>}
    BY <1>5, CompileIs, ZenonT(30)
  <2>2. /\ k \in DOMAIN currentExprList'
        /\ currentExprList'[k].shape = shape
        /\ currentExprList'[k].op \in Pointers
        /\ \/ Deref(currentExprList'[k].op) = sig
           \/ currentExprList'[k].op = NULL /\ ~ OfText(sig)
        /\ (~ moved /\ OfText(sig)) =>
             \E i \in Entries : HasPlace(sig, i) /\ currentExprList'[k].op = <<block, i>>
        /\ \A i \in DOMAIN currentExprList :
             i \in DOMAIN currentExprList' /\ currentExprList'[i] = currentExprList[i]
    BY <2>1, PlacedIs, SMTT(30) DEF PositionsKept
  <2>3. PlacedHeld'
    <3> SUFFICES ASSUME NEW x \in placed'
                 PROVE  /\ ~ moved' /\ x[3] \in DOMAIN currentExprList'
                        /\ currentExprList'[x[3]].shape = x[1]
                        /\ \E i \in Entries : /\ HasPlace(x[2], i)
                                              /\ currentExprList'[x[3]].op = <<block', i>>
      BY SMTT(30) DEF PlacedHeld
    <3>1. CASE x \in placed
      BY <1>1, <2>2, <3>1, SMTT(30) DEF PositionsKept, PlacedHeld
    <3>2. CASE x = <<shape, sig, k>> /\ ~ moved /\ OfText(sig)
      BY <1>1, <2>2, <3>2, SMTT(30)
    <3> QED BY <2>1, <3>1, <3>2, SMTT(30)
  <2>4. ReadyHeld'
    <3> SUFFICES ASSUME NEW x \in ready'
                 PROVE  /\ x[3] \in DOMAIN currentExprList'
                        /\ currentExprList'[x[3]].shape = x[1]
                        /\ (OfText(x[2]) \/ OfText(Deref(currentExprList'[x[3]].op)))
                             => Deref(currentExprList'[x[3]].op) = x[2]
      BY <1>1, ZenonT(30) DEF ReadyHeld, OfText, Deref
    <3>1. CASE x \in ready
      BY <2>2, <3>1, SMTT(30) DEF PositionsKept, ReadyHeld
    <3>2. CASE x = <<shape, sig, k>>
      <4>1. ~ OfText(Deref(NULL))
        BY PlanTypes, ValuesAssumption, SMTT(30) DEF Deref, OfText
      <4> QED BY <2>2, <3>2, <4>1, SMTT(30)
    <3> QED BY <2>1, <3>1, <3>2
  <2>5. CASE currentExprList' = currentExprList
    BY <1>1, <1>3, <2>3, <2>4, <2>5 DEF PositionsKept, OneBlock, NoDuplicates
  <2>6. CASE /\ Grows(currentExprList, currentExprList',
                      [shape |-> shape, op |-> FindOperatorInfo(sig)])
             /\ \A i \in DOMAIN currentExprList : ~ IsEntry(currentExprList[i], shape, sig)
    <3> DEFINE n   == Len(currentExprList) + 1
               new == currentExprList'[n]
    <3>1. /\ DOMAIN currentExprList' = DOMAIN currentExprList \cup {n}
          /\ \A i \in DOMAIN currentExprList : currentExprList'[i] = currentExprList[i]
          /\ new.shape = shape /\ new.op = FindOperatorInfo(sig)
      BY <2>6 DEF Grows
    <3>2. new.op # NULL => new.op[1] = block /\ Deref(new.op) = sig
      BY <3>1, FindOperatorIs, SMTT(30)
    <3> HIDE DEF n
    <3>3. OneBlock'
      BY <1>1, <3>1, <3>2, SMTT(30) DEF OneBlock, PositionsKept
    <3>4. \A i \in DOMAIN currentExprList :
            (new.op # NULL \/ currentExprList[i].op # NULL) => currentExprList[i] # new
      BY <2>6, <3>1, <3>2, SMTT(30) DEF IsEntry
    <3>5. NoDuplicates'
      BY <3>1, <3>4 DEF NoDuplicates, PositionsKept
    <3> QED BY <1>3, <2>3, <2>4, <3>3, <3>5, SMTT(30) DEF PositionsKept
  <2> QED BY <2>1, <2>5, <2>6 DEF Placed
<1> QED BY <1>4, <1>5, SMTT(30)

\* So does the prologue of exec_simple_query, which moves the block and
\* may empty the list,
LEMMA ReceiveKeepsPositions ==
  ASSUME TypeOK, Phases, PositionsKept, NEW t \in Texts, Receive(t)
  PROVE  PositionsKept'
<1>1. ready' = {}
  BY DEF Receive, Phases, executor, TypeOK
<1>2. /\ currentExprList' \in {<<>>, currentExprList}
      /\ moved' = (currentExprList' # <<>> /\ (moved \/ block' # block))
      /\ placed' = IF moved' \/ currentExprList' = <<>> THEN {} ELSE placed
  BY DEF Receive, NoteMove, RenewExprs, NewText, SameText
<1>3. \A b \in Blocks, i \in Entries : memory'[b][i] \in {Junk, memory[b][i]}
  BY DEF Receive, RenewOperators, TypeOK
<1>4. InPlace'
  BY <1>3, PlanTypes, ValuesAssumption DEF InPlace, PositionsKept
<1>5. CASE currentExprList' = <<>>
  <2>1. placed' = {} /\ DOMAIN currentExprList' = {}
    BY <1>2, <1>5
  <2> QED BY <1>1, <1>4, <2>1, Zenon
          DEF PositionsKept, OneBlock, PlacedHeld, ReadyHeld, NoDuplicates
<1>6. CASE currentExprList' = currentExprList /\ moved'
  BY <1>1, <1>2, <1>4, <1>6, Zenon
  DEF PositionsKept, OneBlock, PlacedHeld, ReadyHeld, NoDuplicates
<1>7. CASE currentExprList' = currentExprList /\ currentExprList # <<>> /\ ~ moved'
  <2>1. ~ moved /\ block' = block /\ placed' = placed
    BY <1>2, <1>7, Zenon
  <2> QED BY <1>1, <1>4, <1>7, <2>1, Zenon
          DEF PositionsKept, OneBlock, PlacedHeld, ReadyHeld, NoDuplicates
<1> QED BY <1>2, <1>5, <1>6, <1>7, SMTT(30)

\* and so does planning, of the text and of its functions' queries.
LEMMA PlanKeepsPositions ==
  ASSUME TypeOK, Phases, PositionsKept, Plan \/ PlanNested
  PROVE  PositionsKept'
<1>1. UNCHANGED <<block, currentExprList, ready, moved, placed>>
  BY Zenon DEF Plan, PlanNested, history
<1>2. OneBlock' /\ PlacedHeld' /\ NoDuplicates'
  BY <1>1 DEF PositionsKept, OneBlock, PlacedHeld, NoDuplicates
<1>3. CASE Plan
  <2>1. PICK p \in Plans[running] : AddPlanTree(p.ops)
    BY <1>3 DEF Plan
  <2>2. running \in Texts /\ p \in OwnPlans /\ allOptInfoNum = 0 /\ ready = {}
    BY <1>3 DEF Plan, TypeOK, Phases, OwnPlans
  <2>3. p.ops \in Seq(Sigs)
    BY <2>2, PlanTypes
  <2>4. \A b \in Blocks, i \in Entries :
          memory'[b][i] = memory[b][i] \/ (i \in DOMAIN p.ops /\ memory'[b][i] = p.ops[i])
    <3>1. \A i \in Entries : i - allOptInfoNum = i
      BY <2>2 DEF Entries
    <3>2. \A b \in Blocks, i \in Entries : b # block => memory'[b][i] = memory[b][i]
      BY <2>1, <2>3, AddIs
    <3>3. \A i \in Entries :
            \/ memory'[block][i] = memory[block][i]
            \/ i \in DOMAIN p.ops /\ memory'[block][i] = p.ops[i]
      BY <2>1, <2>3, <3>1, AddIs
    <3> QED BY <3>2, <3>3
  <2>5. InPlace'
    BY <2>2, <2>4 DEF InPlace, HasPlace, PositionsKept
  <2> QED BY <1>1, <1>2, <2>2, <2>5 DEF PositionsKept, ReadyHeld
<1>4. CASE PlanNested
  <2>1. OthersAdded
    BY <1>4, NestedAdds
  <2>2. InPlace'
    BY <2>1 DEF OthersAdded, InPlace, PositionsKept
  <2>3. ReadyHeld'
    <3> SUFFICES ASSUME NEW x \in ready
                 PROVE  /\ x[3] \in DOMAIN currentExprList
                        /\ currentExprList[x[3]].shape = x[1]
                        /\ (OfText(x[2])' \/ OfText(Deref(currentExprList[x[3]].op))')
                             => Deref(currentExprList[x[3]].op)' = x[2]
      BY <1>1 DEF ReadyHeld
    <3>1. x[3] \in DOMAIN currentExprList /\ currentExprList[x[3]].shape = x[1]
      BY DEF ReadyHeld, PositionsKept
    <3>2. PICK op \in Pointers : op = currentExprList[x[3]].op
      BY <3>1, PointerIs
    <3>3. PICK sig : sig = Deref(op)'
      OBVIOUS
    <3>4. (OfText(x[2]) \/ OfText(Deref(op))) => Deref(op) = x[2]
      BY <3>2 DEF ReadyHeld, PositionsKept
    <3>5. (OfText(x[2])' <=> OfText(x[2])) /\ (OfText(sig)' <=> OfText(sig))
      BY <2>1, SameOfText
    <3>6. (OfText(Deref(op)) \/ OfText(sig)) => sig = Deref(op)
      BY <2>1, <3>3, SameDeref DEF PositionsKept
    <3>7. (OfText(x[2])' \/ OfText(sig)') => sig = x[2]
      BY <3>4, <3>5, <3>6
    <3>8. currentExprList' = currentExprList
      BY <1>1
    <3>9. Deref(currentExprList[x[3]].op)' = sig
      BY <3>2, <3>3, <3>8 DEF Deref
    <3>10. OfText(Deref(currentExprList[x[3]].op))' <=> OfText(sig)'
      BY <3>9 DEF OfText
    <3> QED BY <3>1, <3>7, <3>9, <3>10
  <2> QED BY <1>2, <2>2, <2>3 DEF PositionsKept
<1> QED BY <1>3, <1>4

\* The invariant about positions.
LEMMA PositionsInvariant == Spec => []PositionsKept
<1>1. Init => PositionsKept
  <2> SUFFICES ASSUME Init PROVE PositionsKept
    OBVIOUS
  <2>1. InPlace
    BY PlanTypes, ValuesAssumption DEF Init, InPlace
  <2>2. DOMAIN currentExprList = {} /\ placed = {} /\ ready = {}
    BY DEF Init
  <2> QED BY <2>1, <2>2 DEF PositionsKept, OneBlock, PlacedHeld, ReadyHeld, NoDuplicates
<1>2. TypeOK /\ Phases /\ PositionsKept /\ [Next]_vars => PositionsKept'
  <2> SUFFICES ASSUME TypeOK, Phases, PositionsKept, [Next]_vars PROVE PositionsKept'
    OBVIOUS
  <2>1. ASSUME UNCHANGED <<block, memory, allOptInfoNum, currentExprList, moved, placed>>,
               ready' \in {ready, {}}
        PROVE  PositionsKept'
    BY <2>1, SamePositions
  <2>2. ASSUME NEW t \in Texts, Receive(t) PROVE PositionsKept'
    BY <2>2, ReceiveKeepsPositions
  <2>3. CASE Plan \/ PlanNested
    BY <2>3, PlanKeepsPositions
  <2>4. CASE RunCached
    BY <2>1, <2>4 DEF RunCached, tables
  <2>5. CASE JitCompileExpr
    BY <2>5, CompileKeepsPositions
  <2>6. CASE ExecInterpExpr
    BY <2>1, <2>6 DEF ExecInterpExpr
  <2>7. CASE EndStatement
    BY <2>1, <2>7 DEF EndStatement, tables
  <2>8. CASE Reload
    BY <2>1, <2>8 DEF Reload, executor, tables
  <2>9. CASE UNCHANGED session
    BY <2>1, <2>9 DEF session, executor, tables
  <2> QED
    BY <2>2, <2>3, <2>4, <2>5, <2>6, <2>7, <2>8, <2>9, NextIs DEF Step, Complete, Abort
<1> QED BY <1>1, <1>2, TablesTyped, PTL DEF Spec

\* In no execution does an expression at an operator of the text's own plan
\* share its position with anything else, whatever queries its functions run.
THEOREM PositionsDistinct == Spec => []DistinctPositions
<1>1. PositionsKept => DistinctPositions
  <2> SUFFICES ASSUME PositionsKept, NEW x \in ready, NEW y \in ready,
                      OfText(x[2]), x[3] = y[3]
               PROVE  x[1] = y[1] /\ x[2] = y[2]
    BY DEF DistinctPositions
  <2>1. /\ currentExprList[x[3]].shape = x[1] /\ currentExprList[y[3]].shape = y[1]
        /\ Deref(currentExprList[x[3]].op) = x[2]
    BY DEF PositionsKept, ReadyHeld
  <2>2. Deref(currentExprList[y[3]].op) = x[2] /\ OfText(Deref(currentExprList[y[3]].op))
    BY <2>1
  <2>3. Deref(currentExprList[y[3]].op) = y[2]
    BY <2>2 DEF PositionsKept, ReadyHeld
  <2> QED BY <2>1, <2>2, <2>3
<1> QED BY <1>1, PositionsInvariant, PTL

\* While the block of currentSQLOpts stays the same, an expression at an
\* operator of the text keeps its position over all executions of the text.
THEOREM PositionsStable == Spec => []StablePositions
<1>1. TypeOK /\ PositionsKept => StablePositions
  <2> SUFFICES ASSUME TypeOK, PositionsKept, NEW x \in placed, NEW y \in placed,
                      x[1] = y[1], x[2] = y[2]
               PROVE  x[3] = y[3]
    BY DEF StablePositions
  <2>1. PICK i \in Entries : HasPlace(x[2], i) /\ currentExprList[x[3]].op = <<block, i>>
    BY DEF PositionsKept, PlacedHeld
  <2>2. PICK j \in Entries : HasPlace(x[2], j) /\ currentExprList[y[3]].op = <<block, j>>
    BY DEF PositionsKept, PlacedHeld
  <2>3. i = j
    BY <2>1, <2>2, OnePlace
  <2>4. /\ x[3] \in DOMAIN currentExprList /\ y[3] \in DOMAIN currentExprList
        /\ currentExprList[x[3]].shape = currentExprList[y[3]].shape
    BY DEF PositionsKept, PlacedHeld
  <2>5. currentExprList[x[3]] \in ExprEntry /\ currentExprList[y[3]] \in ExprEntry
    BY <2>4, PointerIs
  <2>6. currentExprList[x[3]] = currentExprList[y[3]]
    BY <2>1, <2>2, <2>3, <2>4, <2>5, SMTT(30) DEF ExprEntry
  <2>7. currentExprList[x[3]].op # NULL
    BY <2>1, ValuesAssumption DEF TypeOK
  <2> QED BY <2>4, <2>6, <2>7 DEF PositionsKept, NoDuplicates
<1> QED BY <1>1, PositionsInvariant, TablesTyped, PTL

\* jit_compile_expr enters no expression twice for the same operator entry.
THEOREM EntriesUnique == Spec => []NoDuplicates
<1>1. PositionsKept => NoDuplicates
  BY DEF PositionsKept
<1> QED BY <1>1, PositionsInvariant, PTL
=============================================================================
