----------------------- MODULE StatementCountsProofs -----------------------
(***************************************************************************)
(* The counters of StatementTables are right: an expression at an operator *)
(* of the text is counted in one entry, for each of its evaluations, and   *)
(* only in the first execution, for any texts, plans and nested queries.   *)
(* And the tables, which nobody tests for their size, suffice for a text   *)
(* that has room in them.                                                  *)
(***************************************************************************)
EXTENDS StatementTablesProofs, FiniteSetTheorems

----------------------------------------------------------------------------
(* The inductive invariant.                                                *)

\* Every expression at an operator of the text has an entry to be counted in,
ReadyListed ==
  \A x \in ready : OfText(x[2]) =>
    \E i \in DOMAIN currentSQLExprs : IsEntry(currentSQLExprs[i], x[1], x[2])

\* and no expression at an operator has two.
ListedOnce ==
  (planned /\ conf.enableME) =>
    \A i, j \in DOMAIN currentSQLExprs :
      (i # j /\ currentSQLExprs[i].op # NULL) =>
        ~ IsEntry(currentSQLExprs[j], currentSQLExprs[i].shape,
                  Deref(currentSQLExprs[i].op))

\* The table is empty until the statement is planned.
ListStarts ==
  (running \notin Utilities \cup {NULL} /\ conf.enableME /\ ~ planned) => currentSQLExprs = <<>>

\* Only expressions that were compiled are evaluated.
EvaluatedReady ==
  \A k \in DOMAIN evaluated : \E x \in ready : evaluated[k] = <<x[1], x[2]>>

\* Outside test mode a repetition has switched counting off.
StoppedCounting ==
  (running # NULL /\ conf.enableME /\ ~ conf.testME /\ repeats = 1) => ~ countExpr

CountsKept ==
  LiveOperators /\ ListedOnce /\ ReadyListed /\ ListStarts /\ EvaluatedReady /\ CountsRight

----------------------------------------------------------------------------
(* The number of evaluations.                                              *)

\* The evaluations of an expression are finitely many; none, if none is its own.
LEMMA EvaluationsIs ==
  ASSUME evaluated \in Seq(Shapes \X Sigs), NEW shape, NEW sig
  PROVE  /\ Evaluations(shape, sig) \in Nat
         /\ (\A k \in DOMAIN evaluated : evaluated[k] # <<shape, sig>>) =>
              Evaluations(shape, sig) = 0
<1> DEFINE E == {k \in DOMAIN evaluated : evaluated[k] = <<shape, sig>>}
<1>1. Len(evaluated) \in Nat /\ DOMAIN evaluated = 1 .. Len(evaluated)
  OBVIOUS
<1>2. IsFiniteSet(1 .. Len(evaluated))
  BY <1>1, FS_Interval
<1>3. IsFiniteSet(E)
  BY <1>1, <1>2, FS_Subset
<1>4. Cardinality(E) \in Nat
  BY <1>3, FS_CardinalityType
<1>5. Cardinality({}) = 0
  BY FS_EmptySet
<1>6. (\A k \in DOMAIN evaluated : evaluated[k] # <<shape, sig>>) => E = {}
  OBVIOUS
<1> QED BY <1>4, <1>5, <1>6, Zenon DEF Evaluations

\* One more evaluation is counted for its expression only.
LEMMA EvaluationsGrow ==
  ASSUME evaluated \in Seq(Shapes \X Sigs), NEW pair \in Shapes \X Sigs,
         evaluated' = Append(evaluated, pair), NEW shape, NEW sig
  PROVE  Evaluations(shape, sig)' =
           IF pair = <<shape, sig>> THEN Evaluations(shape, sig) + 1 ELSE Evaluations(shape, sig)
<1> DEFINE n == Len(evaluated) + 1
           E == {k \in DOMAIN evaluated : evaluated[k] = <<shape, sig>>}
           F == {k \in DOMAIN evaluated' : evaluated'[k] = <<shape, sig>>}
<1>1. Len(evaluated) \in Nat /\ DOMAIN evaluated = 1 .. Len(evaluated)
  OBVIOUS
<1>2. /\ DOMAIN evaluated' = DOMAIN evaluated \cup {n}
      /\ \A k \in DOMAIN evaluated : evaluated'[k] = evaluated[k]
      /\ evaluated'[n] = pair
  OBVIOUS
<1>3. n \notin DOMAIN evaluated
  BY <1>1
<1>4. IsFiniteSet(1 .. Len(evaluated))
  <2>1. 1 \in Int /\ Len(evaluated) \in Int
    BY <1>1
  <2> QED BY <2>1, FS_Interval
<1>5. IsFiniteSet(E)
  BY <1>1, <1>4, FS_Subset
<1> HIDE DEF n
<1>6. F = IF pair = <<shape, sig>> THEN E \cup {n} ELSE E
  BY <1>2, <1>3
<1>7. n \notin E
  BY <1>3
<1>8. Cardinality(E \cup {n}) = Cardinality(E) + 1
  BY <1>5, <1>7, FS_AddElement, Zenon
<1>9. Evaluations(shape, sig) = Cardinality(E) /\ Evaluations(shape, sig)' = Cardinality(F)
  BY DEF Evaluations
<1> QED BY <1>6, <1>8, <1>9, Zenon

----------------------------------------------------------------------------
(* Counts.                                                                 *)

\* A pointer into the live table is not touched by operators added later.
LEMMA LiveDeref ==
  ASSUME TypeOK, OthersAdded, NEW op \in Pointers,
         op # NULL => op[1] = block /\ op[2] <= allOptInfoNum
  PROVE  Deref(op)' = Deref(op)
<1>1. CASE op = NULL
  BY <1>1 DEF Deref
<1>2. CASE op # NULL
  <2>1. op[1] \in Blocks /\ op[2] \in Entries
    BY <1>2 DEF Pointers
  <2> QED BY <1>2, <2>1 DEF Deref, OthersAdded
<1> QED BY <1>1, <1>2

\* A step that leaves the operators, the entries and the executor's set alone
\* keeps what is known of the entries,
LEMMA SameEntries ==
  ASSUME UNCHANGED <<conf, running, planned, block, memory, allOptInfoNum>>,
         DOMAIN currentSQLExprs' = DOMAIN currentSQLExprs,
         \A i \in DOMAIN currentSQLExprs :
           /\ currentSQLExprs'[i].shape = currentSQLExprs[i].shape
           /\ currentSQLExprs'[i].op = currentSQLExprs[i].op,
         LiveOperators, ListedOnce, ReadyListed
  PROVE  LiveOperators' /\ ListedOnce' /\ (ready' = ready => ReadyListed')
<1> DEFINE list == currentSQLExprs
<1>1. \A i \in DOMAIN list : Deref(list[i].op)' = Deref(list[i].op)
  BY DEF Deref
<1>2. LiveOperators'
  BY DEF LiveOperators
<1>3. ListedOnce'
  <2> SUFFICES ASSUME planned, conf.enableME, NEW i \in DOMAIN list, NEW j \in DOMAIN list,
                      i # j, list[i].op # NULL
               PROVE  ~ (list[j].shape = list[i].shape /\ Deref(list[j].op)' = Deref(list[i].op)')
    BY DEF ListedOnce, IsEntry
  <2>1. ~ (list[j].shape = list[i].shape /\ Deref(list[j].op) = Deref(list[i].op))
    BY DEF ListedOnce, IsEntry
  <2> QED BY <1>1, <2>1
<1>4. ASSUME ready' = ready PROVE ReadyListed'
  <2> SUFFICES ASSUME NEW x \in ready, OfText(x[2])
               PROVE  \E i \in DOMAIN list : list'[i].shape = x[1] /\ Deref(list[i].op)' = x[2]
    BY <1>4 DEF ReadyListed, IsEntry, OfText
  <2>1. PICK i \in DOMAIN list : list[i].shape = x[1] /\ Deref(list[i].op) = x[2]
    BY DEF ReadyListed, IsEntry
  <2> QED BY <1>1, <2>1, SMTT(30)
<1> QED BY <1>2, <1>3, <1>4

\* and one that evaluates nothing keeps the counts.
LEMMA SameCounts ==
  ASSUME UNCHANGED <<conf, running, block, memory, allOptInfoNum, currentSQLExprs, evaluated>>,
         CountsRight
  PROVE  CountsRight'
<1> DEFINE list == currentSQLExprs
<1> SUFFICES ASSUME NEW i \in DOMAIN list, running \notin Utilities \cup {NULL}, conf.enableME
             PROVE  /\ list[i].count <= Evaluations(list[i].shape, Deref(list[i].op))'
                    /\ OfText(Deref(list[i].op))' =>
                         list[i].count = Evaluations(list[i].shape, Deref(list[i].op))'
  BY DEF CountsRight
<1>1. PICK sig : sig = Deref(list[i].op)
  OBVIOUS
<1>2. Deref(list[i].op)' = sig
  BY <1>1, SMTT(30) DEF Deref
<1>3. OfText(Deref(list[i].op))' <=> OfText(sig)
  BY <1>2 DEF OfText
<1>4. Evaluations(list[i].shape, Deref(list[i].op))' = Evaluations(list[i].shape, sig)
  BY <1>2 DEF Evaluations
<1> QED BY <1>1, <1>3, <1>4, ZenonT(30) DEF CountsRight

\* Operators that functions add leave entries and counts as they are.
LEMMA NestedKeepsCounts ==
  ASSUME TypeOK, Phases, CountsKept, PlanNested
  PROVE  CountsKept'
<1>1. OthersAdded
  BY NestedAdds
<1>2. UNCHANGED <<conf, running, planned, ready, block, currentSQLExprs, evaluated>> /\ planned
  BY DEF PlanNested
<1>3. running \notin Utilities \cup {NULL}
  BY <1>2 DEF Phases, TypeOK
<1>4. \A sig : OfText(sig)' <=> OfText(sig)
  BY <1>1, SameOfText, SMTT(30)
<1>5. CASE ~ conf.enableME
  <2>1. ready = {}
    BY <1>5 DEF Phases
  <2> QED BY <1>2, <1>5, <2>1 DEF CountsKept, LiveOperators, ListedOnce, ReadyListed,
                                 ListStarts, EvaluatedReady, CountsRight
<1>6. CASE conf.enableME
  <2>1. \A i \in DOMAIN currentSQLExprs :
          LET op == currentSQLExprs[i].op
          IN  op \in Pointers /\ (op # NULL => op[1] = block /\ op[2] <= allOptInfoNum)
    BY <1>3, <1>6, PointerIs DEF CountsKept, LiveOperators
  <2>2. \A i \in DOMAIN currentSQLExprs :
          Deref(currentSQLExprs[i].op)' = Deref(currentSQLExprs[i].op)
    <3> SUFFICES ASSUME NEW i \in DOMAIN currentSQLExprs
                 PROVE  Deref(currentSQLExprs[i].op)' = Deref(currentSQLExprs[i].op)
      OBVIOUS
    <3>1. PICK op \in Pointers : /\ op = currentSQLExprs[i].op
                                 /\ op # NULL => op[1] = block /\ op[2] <= allOptInfoNum
      BY <2>1
    <3>2. Deref(op)' = Deref(op)
      BY <1>1, <3>1, LiveDeref
    <3>3. Deref(currentSQLExprs[i].op)' = Deref(op)'
      BY <1>2, <3>1 DEF Deref
    <3> QED BY <3>1, <3>2, <3>3
  <2>3. LiveOperators'
    <3>1. \A i \in Entries : i <= allOptInfoNum => i <= allOptInfoNum'
      <4>1. allOptInfoNum <= allOptInfoNum'
        BY <1>1 DEF OthersAdded
      <4>2. allOptInfoNum \in Nat /\ allOptInfoNum' \in Nat /\ Entries \subseteq Nat
        BY <1>1, SizesAssumption DEF OthersAdded, TypeOK, Entries
      <4> QED BY <4>1, <4>2
    <3>2. \A op \in Pointers : op # NULL => op[2] \in Entries
      BY DEF Pointers
    <3> QED BY <1>2, <2>1, <3>1, <3>2 DEF LiveOperators
  <2>4. ListedOnce' /\ ReadyListed'
    <3>1. ListedOnce'
      <4> DEFINE list == currentSQLExprs
      <4> SUFFICES ASSUME planned, conf.enableME, NEW i \in DOMAIN list, NEW j \in DOMAIN list,
                          i # j, list[i].op # NULL
                   PROVE  ~ (list[j].shape = list[i].shape /\ Deref(list[j].op)' = Deref(list[i].op)')
        BY <1>2 DEF ListedOnce, IsEntry
      <4>1. ~ (list[j].shape = list[i].shape /\ Deref(list[j].op) = Deref(list[i].op))
        BY DEF CountsKept, ListedOnce, IsEntry
      <4> QED BY <2>2, <4>1
    <3>2. ReadyListed'
      BY <1>2, <1>4, <2>2, Zenon DEF CountsKept, ReadyListed, IsEntry
    <3> QED BY <3>1, <3>2
  <2>5. CountsRight'
    <3> DEFINE list == currentSQLExprs
    <3> SUFFICES ASSUME NEW i \in DOMAIN list
                 PROVE  /\ list[i].count <= Evaluations(list[i].shape, Deref(list[i].op))'
                        /\ OfText(Deref(list[i].op))' =>
                             list[i].count = Evaluations(list[i].shape, Deref(list[i].op))'
      BY <1>2 DEF CountsRight
    <3>1. PICK sig : sig = Deref(list[i].op)
      OBVIOUS
    <3>2. Deref(list[i].op)' = sig
      BY <2>2, <3>1
    <3>3. OfText(Deref(list[i].op))' <=> OfText(sig)
      <4>1. OfText(Deref(list[i].op))' <=> OfText(sig)'
        BY <3>2 DEF OfText
      <4> QED BY <1>4, <4>1
    <3>4. Evaluations(list[i].shape, Deref(list[i].op))' = Evaluations(list[i].shape, sig)
      BY <1>2, <3>2 DEF Evaluations
    <3> QED BY <1>3, <1>6, <3>1, <3>3, <3>4, ZenonT(30) DEF CountsKept, CountsRight
  <2>6. ListStarts' /\ EvaluatedReady'
    BY <1>2, SMTT(30) DEF CountsKept, ListStarts, EvaluatedReady
  <2> QED BY <2>3, <2>4, <2>5, <2>6, SMTT(30) DEF CountsKept
<1> QED BY <1>5, <1>6

\* A compilation adds at most one entry, with nothing counted yet: an
\* expression of the text is entered before its first evaluation.
LEMMA CompileKeepsCounts ==
  ASSUME TypeOK, Phases, CountsKept, JitCompileExpr
  PROVE  CountsKept'
<1>1. UNCHANGED <<conf, running, planned, block, memory, allOptInfoNum, evaluated>>
  BY DEF JitCompileExpr
<1>2. planned /\ running \notin Utilities \cup {NULL}
  <2>1. todo # <<>>
    BY DEF JitCompileExpr
  <2> QED BY <2>1, SMTT(30) DEF Phases
<1>3. CASE ~ conf.enableME
  <2>1. UNCHANGED <<currentSQLExprs, ready>>
    BY <1>3 DEF JitCompileExpr
  <2>2. ready = {}
    BY <1>3 DEF Phases
  <2> QED BY <1>1, <1>3, <2>1, <2>2, ZenonT(30) DEF CountsKept, LiveOperators, ListedOnce, ReadyListed,
                                       ListStarts, EvaluatedReady, CountsRight
<1>4. CASE conf.enableME
  <2> DEFINE list == currentSQLExprs
             n    == Len(list) + 1
             new  == list'[n]
             op   == new.op
  <2>1. PICK shape \in Shapes, sig \in Sigs, k \in 1 .. EXPR_MAX_NUM :
          /\ Entered(list, list', shape, sig,
                     [shape |-> shape, op |-> FindOperatorInfo(sig), count |-> 0])
          /\ ready' = ready \cup {<<shape, sig, k>>}
    BY <1>4, CompileIs, SMTT(30)
  <2>2. ListStarts' /\ EvaluatedReady'
    BY <1>1, <1>2, <2>1 DEF CountsKept, ListStarts, EvaluatedReady
  <2>3. CASE list' = list /\ \E i \in DOMAIN list : IsEntry(list[i], shape, sig)
    <3>1. LiveOperators' /\ ListedOnce'
      BY <1>1, <2>3, SameEntries DEF CountsKept
    <3>2. CountsRight'
      BY <1>1, <2>3, SameCounts DEF CountsKept
    <3>3. ReadyListed'
      <4> SUFFICES ASSUME NEW x \in ready', OfText(x[2])
                   PROVE  \E i \in DOMAIN list : IsEntry(list[i], x[1], x[2])
        BY <1>1, <2>3, Zenon DEF ReadyListed, OfText, IsEntry, Deref
      <4>1. CASE x \in ready
        BY <4>1 DEF CountsKept, ReadyListed
      <4>2. CASE x = <<shape, sig, k>>
        BY <2>3, <4>2
      <4> QED BY <2>1, <4>1, <4>2
    <3> QED BY <2>2, <3>1, <3>2, <3>3 DEF CountsKept
  <2>4. CASE /\ Grows(list, list', [shape |-> shape, op |-> FindOperatorInfo(sig), count |-> 0])
             /\ \A i \in DOMAIN list : ~ IsEntry(list[i], shape, sig)
    <3>1. /\ DOMAIN list' = DOMAIN list \cup {n}
          /\ \A i \in DOMAIN list : list'[i] = list[i]
          /\ new.shape = shape /\ op = FindOperatorInfo(sig) /\ new.count = 0
      <4>1. /\ DOMAIN list' = DOMAIN list \cup {n}
            /\ \A i \in DOMAIN list : list'[i] = list[i]
            /\ new = [shape |-> shape, op |-> FindOperatorInfo(sig), count |-> 0]
        BY <2>4, Zenon DEF Grows
      <4> HIDE DEF new
      <4> QED BY <4>1
    <3>2. /\ op # NULL => op[1] = block /\ op[2] <= allOptInfoNum /\ Deref(op) = sig
          /\ op = NULL => Deref(op) = NULL /\ ~ OfText(sig) /\ ~ OfText(Deref(op))
      <4>1. op # NULL => op[1] = block /\ op[2] <= allOptInfoNum /\ Deref(op) = sig
        <5>1. ASSUME op # NULL
              PROVE  op[1] = block /\ op[2] <= allOptInfoNum /\ Deref(op) = sig
          <6>1. PICK i \in 1 .. allOptInfoNum :
                  FindOperatorInfo(sig) = <<block, i>> /\ Deref(FindOperatorInfo(sig)) = sig
            BY <3>1, <5>1, FindOperatorIs, SMTT(30)
          <6>2. i <= allOptInfoNum
            BY SMTT(30) DEF TypeOK
          <6> QED BY <3>1, <6>1, <6>2, SMTT(30)
        <5> QED BY <5>1
      <4>2. op = NULL => Deref(op) = NULL /\ ~ OfText(sig)
        <5>1. Deref(NULL) = NULL
          BY DEF Deref
        <5>2. FindOperatorInfo(sig) = NULL => ~ OfText(sig)
          BY FindOperatorIs DEF OfText
        <5> QED BY <3>1, <5>1, <5>2, SMTT(30)
      <4>3. ~ OfText(NULL)
        BY PlanTypes, ValuesAssumption, SMTT(30) DEF OfText
      <4> QED BY <4>1, <4>2, <4>3, SMTT(30)
    <3>3. LiveOperators'
      BY <1>1, <1>2, <1>4, <3>1, <3>2, SMTT(30) DEF CountsKept, LiveOperators
    <3>4. \A i \in DOMAIN list : list[i].op # NULL => Deref(list[i].op) # NULL
      <4>1. \A i \in DOMAIN list : list[i].op \in Pointers
        BY PointerIs
      <4>2. \A p \in Pointers : p # NULL => Deref(p) \in Sigs \cup {Junk}
        <5> SUFFICES ASSUME NEW p \in Pointers, p # NULL PROVE Deref(p) \in Sigs \cup {Junk}
          OBVIOUS
        <5>1. PICK b \in Blocks, k2 \in Entries : p = <<b, k2>>
          BY DEF Pointers
        <5>2. Deref(p) = memory[b][k2]
          BY <5>1 DEF Deref
        <5>3. memory[b][k2] \in Sigs \cup {Junk}
          BY SMTT(30) DEF TypeOK
        <5> QED BY <5>2, <5>3
      <4> QED BY <4>1, <4>2, ValuesAssumption
    <3>5. ListedOnce'
      <4> SUFFICES ASSUME NEW i \in DOMAIN list', NEW j \in DOMAIN list', i # j,
                          list'[i].op # NULL
                   PROVE  ~ IsEntry(list'[j], list'[i].shape, Deref(list'[i].op))
        BY <1>1, SMTT(30) DEF ListedOnce, IsEntry, Deref
      <4>1. CASE i \in DOMAIN list /\ j \in DOMAIN list
        BY <1>2, <1>4, <3>1, <4>1, SMTT(30) DEF CountsKept, ListedOnce
      <4>2. CASE i = n /\ j \in DOMAIN list
        <5>1. list'[j] = list[j] /\ list'[i].shape = shape /\ Deref(list'[i].op) = sig
          BY <3>1, <3>2, <4>2
        <5> QED BY <2>4, <4>2, <5>1, SMTT(30)
      <4>3. CASE i \in DOMAIN list /\ j = n
        BY <2>4, <3>1, <3>2, <3>4, <4>3, ZenonT(30) DEF IsEntry
      <4> QED BY <3>1, <4>1, <4>2, <4>3, SMTT(30)
    <3>6. ReadyListed'
      <4> SUFFICES ASSUME NEW x \in ready', OfText(x[2])
                   PROVE  \E i \in DOMAIN list' : IsEntry(list'[i], x[1], x[2])
        BY <1>1, SMTT(30) DEF ReadyListed, OfText, IsEntry, Deref
      <4>1. CASE x \in ready
        BY <3>1, <4>1, SMTT(30) DEF CountsKept, ReadyListed
      <4>2. CASE x = <<shape, sig, k>>
        <5>1. IsEntry(new, shape, sig)
          BY <3>1, <3>2, <4>2, SMTT(30) DEF IsEntry
        <5> QED BY <3>1, <4>2, <5>1, SMTT(30)
      <4> QED BY <2>1, <4>1, <4>2, SMTT(30)
    <3>7. Evaluations(shape, sig) \in Nat /\ Evaluations(shape, Deref(op)) \in Nat
      BY EvaluationsIs DEF TypeOK
    <3>8. OfText(sig) => Evaluations(shape, sig) = 0
      <4> SUFFICES ASSUME OfText(sig), NEW i \in DOMAIN evaluated PROVE evaluated[i] # <<shape, sig>>
        BY EvaluationsIs DEF TypeOK
      <4>1. PICK x \in ready : evaluated[i] = <<x[1], x[2]>>
        BY SMTT(30) DEF CountsKept, EvaluatedReady
      <4>2. ASSUME x[1] = shape, x[2] = sig PROVE FALSE
        <5>1. \E j \in DOMAIN list : IsEntry(list[j], x[1], x[2])
          BY <4>2, SMTT(30) DEF CountsKept, ReadyListed
        <5> QED BY <2>4, <4>2, <5>1
      <4> QED BY <4>1, <4>2, SMTT(30)
    <3>9. CountsRight'
      <4> SUFFICES ASSUME NEW i \in DOMAIN list'
                   PROVE  /\ list'[i].count <= Evaluations(list[i].shape, Deref(list[i].op))'
                          /\ OfText(Deref(list[i].op))' =>
                               list'[i].count = Evaluations(list[i].shape, Deref(list[i].op))'
        BY DEF CountsRight
      <4>1. PICK e, g : e = list'[i] /\ g = Deref(list'[i].op)
        OBVIOUS
      <4>2. Deref(list[i].op)' = g
        BY <1>1, <4>1, SMTT(30) DEF Deref
      <4>3. OfText(Deref(list[i].op))' <=> OfText(g)
        BY <1>1, <4>2, SMTT(30) DEF OfText
      <4>4. Evaluations(list[i].shape, Deref(list[i].op))' = Evaluations(e.shape, g)
        BY <1>1, <4>1, <4>2, SMTT(30) DEF Evaluations
      <4>5. e.count <= Evaluations(e.shape, g) /\ (OfText(g) => e.count = Evaluations(e.shape, g))
        <5>1. CASE i \in DOMAIN list
          <6>1. e = list[i] /\ g = Deref(list[i].op)
            BY <3>1, <4>1, <5>1
          <6> QED BY <1>2, <1>4, <5>1, <6>1, ZenonT(30) DEF CountsKept, CountsRight
        <5>2. CASE i = n
          <6>1. e.count = 0 /\ e.shape = shape /\ g = Deref(op)
            BY <3>1, <4>1, <5>2, SMTT(30)
          <6>2. OfText(Deref(op)) => Deref(op) = sig
            BY <3>2
          <6> QED BY <3>7, <3>8, <6>1, <6>2, SMTT(30)
        <5> QED BY <3>1, <5>1, <5>2
      <4> QED BY <4>1, <4>3, <4>4, <4>5, SMTT(30)
    <3> QED BY <2>2, <3>3, <3>5, <3>6, <3>9, SMTT(30) DEF CountsKept
  <2> QED BY <2>1, <2>3, <2>4 DEF Entered
<1> QED BY <1>3, <1>4

\* An evaluation is counted in the one entry of its expression, if any.
LEMMA ExecKeepsCounts ==
  ASSUME TypeOK, Phases, CountsKept, ExecInterpExpr
  PROVE  CountsKept'
<1> DEFINE list == currentSQLExprs
<1>1. UNCHANGED <<conf, running, planned, ready, block, memory, allOptInfoNum>>
  BY DEF ExecInterpExpr
<1>2. PICK x \in ready :
        /\ evaluated' = Append(evaluated, <<x[1], x[2]>>)
        /\ list' = IF Find(list, x[1], x[2]) = 0 THEN list
                   ELSE [list EXCEPT ![Find(list, x[1], x[2])].count = @ + 1]
  BY Zenon DEF ExecInterpExpr
<1>3. planned /\ running \notin Utilities \cup {NULL} /\ conf.enableME
  BY <1>2 DEF Phases, TypeOK
<1> DEFINE hit == Find(list, x[1], x[2])
<1>4. list \in Seq(SQLEntry) /\ x[2] \in Sigs /\ <<x[1], x[2]>> \in Shapes \X Sigs
  BY DEF TypeOK, SQLEntry
<1>5. /\ hit = 0 <=> \A i \in DOMAIN list : ~ IsEntry(list[i], x[1], x[2])
      /\ hit # 0 => hit \in DOMAIN list /\ IsEntry(list[hit], x[1], x[2])
  <2>1. DOMAIN list \in SUBSET (Nat \ {0})
    BY <1>4
  <2> QED BY <2>1, FindIs, Zenon
<1>6. list' = IF hit = 0 THEN list ELSE [list EXCEPT ![hit].count = @ + 1]
  BY <1>2, SMTT(30)
<1> HIDE DEF hit
<1>7. /\ DOMAIN list' = DOMAIN list
      /\ \A i \in DOMAIN list :
           /\ list'[i].shape = list[i].shape /\ list'[i].op = list[i].op
           /\ list'[i].count = IF i = hit THEN list[i].count + 1 ELSE list[i].count
  <2>1. CASE hit = 0
    <3>1. 0 \notin DOMAIN list
      BY <1>4
    <3> QED BY <1>6, <2>1, <3>1
  <2>2. CASE hit # 0
    BY <1>4, <1>5, <1>6, <2>2, CountIs
  <2> QED BY <2>1, <2>2
<1>8. LiveOperators' /\ ListedOnce' /\ ReadyListed' /\ ListStarts'
  <2>1. LiveOperators' /\ ListedOnce' /\ ReadyListed'
    BY <1>1, <1>7, SameEntries DEF CountsKept
  <2> QED BY <1>1, <1>3, <2>1, SMTT(30) DEF ListStarts
<1>9. EvaluatedReady'
  <2>1. /\ DOMAIN evaluated' = DOMAIN evaluated \cup {Len(evaluated) + 1}
        /\ \A k \in DOMAIN evaluated : evaluated'[k] = evaluated[k]
        /\ evaluated'[Len(evaluated) + 1] = <<x[1], x[2]>>
    <3>1. PICK pair \in Shapes \X Sigs : pair = <<x[1], x[2]>>
      BY <1>4
    <3>2. evaluated \in Seq(Shapes \X Sigs) /\ evaluated' = Append(evaluated, pair)
      BY <1>2, <3>1 DEF TypeOK
    <3>3. Grows(evaluated, evaluated', pair)
      BY <3>2, AppendGrows, Zenon
    <3> QED BY <3>1, <3>3 DEF Grows
  <2> QED BY <1>1, <2>1 DEF CountsKept, EvaluatedReady
<1>10. CountsRight'
  <2> SUFFICES ASSUME NEW i \in DOMAIN list
               PROVE  /\ list'[i].count <= Evaluations(list[i].shape, Deref(list[i].op))'
                      /\ OfText(Deref(list[i].op))' =>
                           list'[i].count = Evaluations(list[i].shape, Deref(list[i].op))'
    BY <1>7 DEF CountsRight
  <2>1. PICK shape, g : shape = list[i].shape /\ g = Deref(list[i].op)
    BY SMTT(30)
  <2>2. list'[i].shape = shape /\ Deref(list[i].op)' = g
    BY <1>1, <1>7, <2>1, SMTT(30) DEF Deref
  <2>3. Evaluations(list[i].shape, Deref(list[i].op))' = Evaluations(shape, g)'
    BY <2>2 DEF Evaluations
  <2>4. OfText(Deref(list[i].op))' <=> OfText(g)
    BY <1>1, <2>2 DEF OfText
  <2>5. Evaluations(shape, g)' = IF <<x[1], x[2]>> = <<shape, g>>
                                 THEN Evaluations(shape, g) + 1 ELSE Evaluations(shape, g)
    <3>1. PICK pair \in Shapes \X Sigs : pair = <<x[1], x[2]>>
      BY <1>4
    <3>2. evaluated' = Append(evaluated, pair) /\ evaluated \in Seq(Shapes \X Sigs)
      BY <1>2, <3>1 DEF TypeOK
    <3>3. Evaluations(shape, g)' = IF pair = <<shape, g>>
                                   THEN Evaluations(shape, g) + 1 ELSE Evaluations(shape, g)
      BY <3>2, EvaluationsGrow
    <3> QED BY <3>1, <3>3
  <2>6. Evaluations(shape, g) \in Nat
    BY EvaluationsIs, SMTT(30) DEF TypeOK
  <2>7. /\ list[i].count <= Evaluations(shape, g)
        /\ OfText(g) => list[i].count = Evaluations(shape, g)
    BY <1>3, <2>1 DEF CountsKept, CountsRight
  <2>8. <<x[1], x[2]>> = <<shape, g>> <=> i = hit
    <3>1. ASSUME i = hit PROVE shape = x[1] /\ g = x[2]
      <4>1. hit # 0
        BY <1>4, <3>1
      <4>2. IsEntry(list[i], x[1], x[2])
        BY <1>5, <3>1, <4>1
      <4> QED BY <2>1, <4>2, Zenon DEF IsEntry
    <3>2. ASSUME shape = x[1], g = x[2] PROVE i = hit
      <4>1. IsEntry(list[i], x[1], x[2])
        BY <2>1, <3>2, SMTT(30) DEF IsEntry
      <4>2. list[i].op # NULL
        BY <1>4, <2>1, <3>2, ValuesAssumption, SMTT(30) DEF Deref
      <4>3. hit \in DOMAIN list /\ IsEntry(list[hit], shape, g)
        BY <1>5, <3>2, <4>1, SMTT(30)
      <4> QED BY <1>3, <2>1, <4>2, <4>3, SMTT(30) DEF CountsKept, ListedOnce
    <3> QED BY <3>1, <3>2
  <2>9. list'[i].count = IF i = hit THEN list[i].count + 1 ELSE list[i].count
    BY <1>7
  <2>10. list[i].count \in Nat
    BY PointerIs
  <2>11. PICK c, m \in Nat : c = list[i].count /\ m = Evaluations(shape, g)
    BY <2>6, <2>10
  <2>12. \/ list'[i].count = c /\ Evaluations(shape, g)' = m
         \/ list'[i].count = c + 1 /\ Evaluations(shape, g)' = m + 1
    BY <2>5, <2>8, <2>9, <2>11, Zenon
  <2>13. c <= m /\ (OfText(g) => c = m)
    BY <2>7, <2>11, Zenon
  <2>14. c + 1 <= m + 1
    BY <2>13
  <2>15. /\ list'[i].count <= Evaluations(shape, g)'
         /\ OfText(g) => list'[i].count = Evaluations(shape, g)'
    BY <2>12, <2>13, <2>14, ZenonT(30)
  <2> QED BY <2>3, <2>4, <2>15, ZenonT(30)
<1> QED BY <1>8, <1>9, <1>10 DEF CountsKept

\* The invariant about counts.
LEMMA CountsInvariant == Spec => []CountsKept
<1>1. Init => CountsKept
  <2> SUFFICES ASSUME Init PROVE CountsKept
    OBVIOUS
  <2>1. /\ DOMAIN currentSQLExprs = {} /\ DOMAIN evaluated = {}
        /\ currentSQLExprs = <<>> /\ ready = {}
    BY DEF Init
  <2> QED BY <2>1 DEF CountsKept, LiveOperators, ListedOnce, ReadyListed, ListStarts,
                      EvaluatedReady, CountsRight
<1>2. TypeOK /\ Phases /\ CountsKept /\ [Next]_vars => CountsKept'
  <2> SUFFICES ASSUME TypeOK, Phases, CountsKept, [Next]_vars PROVE CountsKept'
    OBVIOUS
  <2>1. ASSUME ready' = {}, evaluated' = <<>>,
               (running' \notin Utilities \cup {NULL} /\ conf'.enableME) => currentSQLExprs' = <<>>,
               planned' => running' \notin Utilities \cup {NULL}
        PROVE  CountsKept'
    <3>1. DOMAIN <<>> = {}
      OBVIOUS
    <3> QED BY <2>1, <3>1, Zenon DEF CountsKept, LiveOperators, ListedOnce, ReadyListed, ListStarts,
                              EvaluatedReady, CountsRight
  <2>2. ASSUME UNCHANGED <<conf, running, planned, ready, tables, evaluated>> PROVE CountsKept'
    <3>1. UNCHANGED <<block, memory, allOptInfoNum, currentSQLExprs>>
      BY <2>2 DEF tables
    <3>2. LiveOperators' /\ ListedOnce' /\ ReadyListed'
      BY <2>2, <3>1, SameEntries DEF CountsKept
    <3>3. CountsRight'
      BY <2>2, <3>1, SameCounts DEF CountsKept
    <3>4. ListStarts' /\ EvaluatedReady'
      BY <2>2, <3>1 DEF CountsKept, ListStarts, EvaluatedReady
    <3> QED BY <3>2, <3>3, <3>4 DEF CountsKept
  <2>3. ASSUME NEW t \in Texts, Receive(t) PROVE CountsKept'
    <3>1. ready' = {} /\ evaluated' = <<>> /\ ~ planned' /\ conf' = conf
      BY <2>3 DEF Receive, Phases, executor, TypeOK
    <3>2. conf.enableME => currentSQLExprs' = <<>>
      BY <2>3 DEF Receive, RenewExprs
    <3> QED BY <2>1, <3>1, <3>2
  <2>4. CASE Plan
    <3>1. /\ ready' = {} /\ evaluated' = <<>>
          /\ running' = running /\ conf' = conf /\ running \notin Utilities \cup {NULL}
          /\ ~ planned /\ currentSQLExprs' = currentSQLExprs
      BY <2>4 DEF Plan, Phases, history
    <3>2. conf.enableME => currentSQLExprs' = <<>>
      BY <3>1 DEF CountsKept, ListStarts
    <3> QED BY <2>1, <3>1, <3>2, SMTT(30)
  <2>5. CASE PlanNested
    BY <2>5, NestedKeepsCounts
  <2>6. CASE RunCached
    BY <2>2, <2>6 DEF RunCached
  <2>7. CASE JitCompileExpr
    BY <2>7, CompileKeepsCounts
  <2>8. CASE ExecInterpExpr
    BY <2>8, ExecKeepsCounts
  <2>9. CASE EndStatement
    BY <2>1, <2>9 DEF EndStatement
  <2>10. CASE Reload
    <3>1. running = NULL /\ running' = NULL /\ ready' = {} /\ evaluated' = <<>> /\ ~ planned'
      BY <2>10 DEF Reload, Phases, executor, TypeOK
    <3> QED BY <2>1, <3>1
  <2>11. CASE UNCHANGED session
    BY <2>2, <2>11 DEF session, executor
  <2> QED
    BY <2>3, <2>4, <2>5, <2>6, <2>7, <2>8, <2>9, <2>10, <2>11, NextIs DEF Step, Complete, Abort
<1> QED BY <1>1, <1>2, TablesTyped, PTL DEF Spec

\* The operators that the report prints, and that the interpreter compares
\* while it counts, are entries of the live currentSQLOpts.
THEOREM OperatorsLive == Spec => []LiveOperators
<1>1. CountsKept => LiveOperators
  BY DEF CountsKept
<1> QED BY <1>1, CountsInvariant, PTL

\* An expression is counted for its own evaluations only, and for every one
\* of them when its operator is one of the text's own plan.
THEOREM CountsExact == Spec => []CountsRight
<1>1. CountsKept => CountsRight
  BY DEF CountsKept
<1> QED BY <1>1, CountsInvariant, PTL

\* Outside test mode a repetition of a text counts nothing.
THEOREM RepetitionsUncounted == Spec => []CountedOnce
<1> DEFINE Inv == TypeOK /\ Phases /\ StoppedCounting /\ CountedOnce
<1>1. Init => StoppedCounting /\ CountedOnce
  BY DEF Init, StoppedCounting, CountedOnce
<1>2. Inv /\ [Next]_vars => StoppedCounting' /\ CountedOnce'
  <2> SUFFICES ASSUME Inv, [Next]_vars PROVE StoppedCounting' /\ CountedOnce'
    OBVIOUS
  <2>1. ASSUME NEW t \in Texts, Receive(t) PROVE StoppedCounting' /\ CountedOnce'
    <3>1. evaluated' = <<>> /\ conf' = conf
      BY <2>1 DEF Receive, Phases, executor, TypeOK
    <3>2. (conf.enableME /\ ~ conf.testME) => repeats' = 0 \/ ~ countExpr'
      BY <2>1, Zenon DEF Receive, RenewExprs, NewText, SameText
    <3>3. CountedOnce'
      BY <3>1 DEF CountedOnce
    <3>4. StoppedCounting'
      BY <3>1, <3>2 DEF StoppedCounting
    <3> QED BY <3>3, <3>4
  <2>2. ASSUME UNCHANGED <<conf, running, repeats, countExpr, evaluated>>
        PROVE  StoppedCounting' /\ CountedOnce'
    BY <2>2 DEF StoppedCounting, CountedOnce
  <2>3. CASE Plan \/ PlanNested \/ RunCached \/ JitCompileExpr
    BY <2>2, <2>3, Zenon DEF Plan, PlanNested, RunCached, JitCompileExpr, history
  <2>4. CASE ExecInterpExpr
    BY <2>4 DEF ExecInterpExpr, StoppedCounting, CountedOnce
  <2>5. CASE EndStatement
    BY <2>5 DEF EndStatement, StoppedCounting, CountedOnce
  <2>6. CASE Reload
    BY <2>6 DEF Reload, StoppedCounting, CountedOnce
  <2>7. CASE UNCHANGED session
    BY <2>2, <2>7 DEF session, executor
  <2> QED BY <2>1, <2>3, <2>4, <2>5, <2>6, <2>7, NextIs DEF Step, Complete, Abort
<1> QED BY <1>1, <1>2, TablesTyped, PTL DEF Spec

----------------------------------------------------------------------------
(* The room in the tables.                                                 *)

\* The entry stands for an expression of t at its place in the live table.
AtPlace(entry, t) ==
  \E i \in Entries : entry.op = <<block, i>> /\ <<entry.shape, i>> \in PlacesOf(t)

TextCurrent == (running # NULL /\ conf.enableME) => currentStatement = running

\* While no function has run a query, the expressions that wait are the text's,
TodoReached ==
  (planned /\ HasRoom(running) /\ ~ foreign) =>
    \A k \in DOMAIN todo :
      /\ todo[k].sig \in Operators(OwnPlans)
      /\ \E i \in 1 .. allOptInfoNum : /\ memory[block][i] = todo[k].sig
                                       /\ <<todo[k].shape, i>> \in PlacesOf(running)

\* so are those entered in this execution,
SQLExprsPlaced ==
  (planned /\ conf.enableME /\ HasRoom(running) /\ ~ foreign) =>
    \A k \in DOMAIN currentSQLExprs : AtPlace(currentSQLExprs[k], running)

\* and in all executions of the text, while the block stays.
ListPlaced ==
  (currentStatement # NULL /\ HasRoom(currentStatement) /\ ~ moved /\ ~ foreign) =>
    \A k \in DOMAIN currentExprList : AtPlace(currentExprList[k], currentStatement)

RoomKept == TextCurrent /\ TodoReached /\ SQLExprsPlaced /\ ListPlaced /\ RoomSuffices

\* Such an entry has an operator.
LEMMA AtPlaceIs ==
  ASSUME TypeOK, NEW entry, NEW t, AtPlace(entry, t)
  PROVE  entry.op # NULL
<1>1. PICK i \in Entries : entry.op = <<block, i>>
  BY DEF AtPlace
<1>2. <<block, i>> \in Blocks \X Entries
  BY DEF TypeOK
<1> QED BY <1>1, <1>2, ValuesAssumption

\* The places and the room of a text are those of the text.
LEMMA SamePlaces ==
  /\ running' = running => /\ PlacesOf(running)' = PlacesOf(running)
                           /\ HasRoom(running)' <=> HasRoom(running)
  /\ currentStatement' = currentStatement =>
       /\ PlacesOf(currentStatement)' = PlacesOf(currentStatement)
       /\ HasRoom(currentStatement)' <=> HasRoom(currentStatement)
<1>1. ASSUME running' = running PROVE PlacesOf(running)' = PlacesOf(running)
  BY <1>1, Zenon DEF PlacesOf
<1>2. ASSUME running' = running PROVE HasRoom(running)' <=> HasRoom(running)
  BY <1>1, <1>2, Zenon DEF HasRoom
<1>3. ASSUME currentStatement' = currentStatement
      PROVE  PlacesOf(currentStatement)' = PlacesOf(currentStatement)
  BY <1>3, Zenon DEF PlacesOf
<1>4. ASSUME currentStatement' = currentStatement
      PROVE  HasRoom(currentStatement)' <=> HasRoom(currentStatement)
  BY <1>3, <1>4, Zenon DEF HasRoom
<1> QED BY <1>1, <1>2, <1>3, <1>4

\* What is known of the expressions of a text does not change with the rest.
LEMMA SameTodo ==
  ASSUME UNCHANGED <<running, planned, todo, block, memory, allOptInfoNum>>,
         ~ foreign' => ~ foreign, TodoReached
  PROVE  TodoReached'
<1> SUFFICES ASSUME planned, HasRoom(running), ~ foreign, NEW k \in DOMAIN todo
             PROVE  /\ todo[k].sig \in Operators(OwnPlans)
                    /\ \E i \in 1 .. allOptInfoNum : /\ memory[block][i] = todo[k].sig
                                                     /\ <<todo[k].shape, i>> \in PlacesOf(running)
  BY SamePlaces DEF TodoReached
<1> QED BY DEF TodoReached

LEMMA SameList ==
  ASSUME UNCHANGED <<currentStatement, block, currentExprList>>,
         ~ moved' => ~ moved, ~ foreign' => ~ foreign, ListPlaced
  PROVE  ListPlaced'
<1> SUFFICES ASSUME HasRoom(currentStatement), currentStatement # NULL, ~ moved, ~ foreign,
                    NEW k \in DOMAIN currentExprList
             PROVE  \E i \in Entries :
                      /\ currentExprList[k].op = <<block, i>>
                      /\ <<currentExprList[k].shape, i>> \in PlacesOf(currentStatement)
  BY SamePlaces DEF ListPlaced, AtPlace
<1> QED BY DEF ListPlaced, AtPlace

LEMMA SameSQLExprs ==
  ASSUME UNCHANGED <<conf, running, planned, block>>, ~ foreign' => ~ foreign, SQLExprsPlaced,
         DOMAIN currentSQLExprs' = DOMAIN currentSQLExprs,
         \A k \in DOMAIN currentSQLExprs :
           /\ currentSQLExprs'[k].shape = currentSQLExprs[k].shape
           /\ currentSQLExprs'[k].op = currentSQLExprs[k].op
  PROVE  SQLExprsPlaced'
<1> SUFFICES ASSUME planned, conf.enableME, HasRoom(running), ~ foreign,
                    NEW k \in DOMAIN currentSQLExprs
             PROVE  \E i \in Entries : /\ currentSQLExprs[k].op = <<block, i>>
                                      /\ <<currentSQLExprs[k].shape, i>> \in PlacesOf(running)
  BY SamePlaces DEF SQLExprsPlaced, AtPlace
<1> QED BY DEF SQLExprsPlaced, AtPlace

\* A sequence of distinct members of P, one of which it lacks, is shorter than P.
LEMMA ShorterThan ==
  ASSUME NEW n \in Nat, NEW P, IsFiniteSet(P), NEW x \in P, NEW key \in [1 .. n -> P \ {x}],
         \A i, j \in 1 .. n : i # j => key[i] # key[j]
  PROVE  n < Cardinality(P)
<1>1. key \in Injection(1 .. n, P \ {x})
  BY DEF Injection, IsInjective
<1>2. IsFiniteSet(P \ {x}) /\ Cardinality(P \ {x}) = Cardinality(P) - 1
  BY FS_RemoveElement
<1>3. Cardinality(1 .. n) <= Cardinality(P \ {x})
  BY <1>1, <1>2, FS_Injection
<1>4. Cardinality(1 .. n) = n
  BY FS_Interval
<1>5. Cardinality(P) \in Nat
  BY FS_CardinalityType
<1> QED BY <1>2, <1>3, <1>4, <1>5

\* A table of distinct entries of a text that has room has room for another.
LEMMA RoomFor ==
  ASSUME TypeOK, NEW t, HasRoom(t), NEW list, NEW n \in Nat, DOMAIN list = 1 .. n,
         \A k \in 1 .. n : AtPlace(list[k], t),
         \A k, l \in 1 .. n : k # l => ~ (list[k].shape = list[l].shape /\ list[k].op = list[l].op),
         NEW shape, NEW i, <<shape, i>> \in PlacesOf(t),
         \A k \in 1 .. n : ~ IsEntry(list[k], shape, memory[block][i])
  PROVE  n < EXPR_MAX_NUM
<1> DEFINE P   == PlacesOf(t)
           x   == <<shape, i>>
           key == [k \in 1 .. n |-> <<list[k].shape, list[k].op[2]>>]
<1>1. IsFiniteSet(P) /\ Cardinality(P) <= EXPR_MAX_NUM /\ x \in P
  BY DEF HasRoom
<1>2. \A k \in 1 .. n : /\ list[k].op = <<block, list[k].op[2]>> /\ list[k].op # NULL
                        /\ key[k] \in P
  <2> SUFFICES ASSUME NEW k \in 1 .. n
               PROVE  list[k].op = <<block, list[k].op[2]>> /\ list[k].op # NULL /\ key[k] \in P
    OBVIOUS
  <2>1. PICK j \in Entries : list[k].op = <<block, j>> /\ <<list[k].shape, j>> \in P
    BY DEF AtPlace
  <2>2. list[k].op[2] = j /\ <<block, j>> \in Blocks \X Entries
    BY <2>1 DEF TypeOK
  <2> QED BY <2>1, <2>2, ValuesAssumption
<1>3. \A k \in 1 .. n : key[k] # x
  <2> SUFFICES ASSUME NEW k \in 1 .. n, key[k] = x PROVE FALSE
    OBVIOUS
  <2>1. list[k].shape = shape /\ list[k].op[2] = i
    BY Zenon
  <2>2. list[k].op = <<block, i>> /\ list[k].op # NULL
    BY <1>2, <2>1
  <2>3. Deref(list[k].op) = memory[block][i]
    BY <2>2 DEF Deref
  <2> QED BY <2>1, <2>3 DEF IsEntry
<1>4. \A k, l \in 1 .. n : k # l => key[k] # key[l]
  BY <1>2
<1>5. key \in [1 .. n -> P \ {x}]
  BY <1>2, <1>3
<1> HIDE DEF key, x, P
<1>6. n < Cardinality(P)
  BY <1>1, <1>4, <1>5, ShorterThan
<1>7. Cardinality(P) \in Nat
  BY <1>1, FS_CardinalityType
<1> QED BY <1>1, <1>6, <1>7, SizesAssumption

\* What is written past a table is not an expression of a text that has room,
\* nor its plan.
LEMMA BeyondKeepsRoom ==
  ASSUME TypeOK, Phases, NoDuplicates, ListedOnce, RoomKept, WriteBeyond
  PROVE  RoomSuffices'
<1> SUFFICES ASSUME HasRoom(running), ~ moved, ~ foreign' PROVE FALSE
  <2>1. running' = running /\ moved' = moved
    BY DEF WriteBeyond, session
  <2> QED BY <2>1, SamePlaces DEF RoomSuffices
<1>1. ~ foreign
  BY DEF WriteBeyond, TypeOK
<1>2. CASE /\ running \notin Utilities \cup {NULL} /\ ~ planned
           /\ \E p \in Plans[running] : ~ OperatorsFit(p.ops)
  <2>1. PICK p \in Plans[running] : ~ OperatorsFit(p.ops)
    BY <1>2
  <2>2. allOptInfoNum = 0 /\ Len(p.ops) <= OPT_LIST_SIZE
    BY <1>2, <2>1 DEF Phases, HasRoom
  <2>3. p.ops \in Seq(Sigs)
    BY <1>2, PlanTypes DEF OwnPlans, TypeOK
  <2> QED BY <2>1, <2>2, <2>3 DEF OperatorsFit
<1>3. CASE /\ todo # <<>> /\ conf.enableME
           /\ ~ ExprFits(Head(todo).shape, Head(todo).sig)
  <2> DEFINE shape == Head(todo).shape
             sig   == Head(todo).sig
  <2>1. planned /\ running # NULL
    BY <1>3 DEF Phases
  <2>2. 1 \in DOMAIN todo /\ todo[1] = Head(todo)
    BY <1>3 DEF TypeOK
  <2>3. PICK i \in 1 .. allOptInfoNum :
          memory[block][i] = sig /\ <<shape, i>> \in PlacesOf(running)
    BY <1>1, <2>1, <2>2 DEF RoomKept, TodoReached
  <2> HIDE DEF shape, sig
  <2>4. CASE Find(currentSQLExprs, shape, sig) = 0 /\ ~ Len(currentSQLExprs) < EXPR_MAX_NUM
    <3> DEFINE list == currentSQLExprs
    <3>1. DOMAIN list = 1 .. Len(list) /\ Len(list) \in Nat /\ DOMAIN list \in SUBSET (Nat \ {0})
      BY DEF TypeOK
    <3>2. \A k \in 1 .. Len(list) : AtPlace(list[k], running)
      BY <1>1, <1>3, <2>1, <3>1 DEF RoomKept, SQLExprsPlaced
    <3>3. \A k \in 1 .. Len(list) : list[k].op # NULL
      BY <3>2, AtPlaceIs
    <3>4. \A k, l \in 1 .. Len(list) :
            k # l => ~ (list[k].shape = list[l].shape /\ list[k].op = list[l].op)
      BY <1>3, <2>1, <3>1, <3>3 DEF ListedOnce, IsEntry
    <3>5. \A k \in 1 .. Len(list) : ~ IsEntry(list[k], shape, sig)
      BY <2>4, <3>1, FindIs
    <3> HIDE DEF list
    <3>6. Len(list) < EXPR_MAX_NUM
      BY <2>3, <3>1, <3>2, <3>4, <3>5, RoomFor
    <3> QED BY <2>4, <3>6 DEF list
  <2>5. CASE Find(currentExprList, shape, sig) = 0 /\ ~ Len(currentExprList) < EXPR_MAX_NUM
    <3> DEFINE list == currentExprList
    <3>1. DOMAIN list = 1 .. Len(list) /\ Len(list) \in Nat /\ DOMAIN list \in SUBSET (Nat \ {0})
      BY DEF TypeOK
    <3>2. \A k \in 1 .. Len(list) : AtPlace(list[k], running)
      BY <1>1, <1>3, <2>1, <3>1 DEF RoomKept, ListPlaced, TextCurrent
    <3>3. \A k \in 1 .. Len(list) : list[k].op # NULL /\ list[k] \in ExprEntry
      BY <3>1, <3>2, AtPlaceIs, PointerIs
    <3>4. \A k, l \in 1 .. Len(list) :
            k # l => ~ (list[k].shape = list[l].shape /\ list[k].op = list[l].op)
      BY <3>1, <3>3 DEF NoDuplicates, ExprEntry
    <3>5. \A k \in 1 .. Len(list) : ~ IsEntry(list[k], shape, sig)
      BY <2>5, <3>1, FindIs
    <3> HIDE DEF list
    <3>6. Len(list) < EXPR_MAX_NUM
      BY <2>3, <3>1, <3>2, <3>4, <3>5, RoomFor
    <3> QED BY <2>5, <3>6 DEF list
  <2> QED BY <1>3, <2>4, <2>5 DEF ExprFits, shape, sig
<1> QED BY <1>2, <1>3 DEF WriteBeyond

\* The first entry of an operator of the text is the one at its place.
LEMMA FoundAtPlace ==
  ASSUME TypeOK, InPlace, NEW sig \in Operators(OwnPlans),
         NEW i \in 1 .. allOptInfoNum, memory[block][i] = sig
  PROVE  i \in Entries /\ FindOperatorInfo(sig) = <<block, i>>
<1>1. sig \in Sigs /\ block \in Blocks /\ i \in Entries
  BY PlanTypes, SizesAssumption DEF TypeOK, Entries
<1>2. PICK j \in Entries : FindOperatorInfo(sig) = <<block, j>> /\ memory[block][j] = sig
  BY <1>1, FindOperatorIs
<1>3. HasPlace(sig, i) /\ HasPlace(sig, j)
  BY <1>1, <1>2 DEF InPlace
<1> QED BY <1>1, <1>2, <1>3, OnePlace

\* A compilation leaves the entries of both tables and adds at most one to each.
LEMMA CompileAdds ==
  ASSUME TypeOK, JitCompileExpr, conf.enableME
  PROVE  LET op == FindOperatorInfo(Head(todo).sig)
         IN  /\ \A k \in DOMAIN currentSQLExprs' :
                  \/ /\ k \in DOMAIN currentSQLExprs
                     /\ currentSQLExprs'[k] = currentSQLExprs[k]
                  \/ /\ currentSQLExprs'[k].shape = Head(todo).shape
                     /\ currentSQLExprs'[k].op = op
             /\ \A k \in DOMAIN currentExprList' :
                  \/ /\ k \in DOMAIN currentExprList
                     /\ currentExprList'[k] = currentExprList[k]
                  \/ /\ currentExprList'[k].shape = Head(todo).shape
                     /\ currentExprList'[k].op = op
<1> DEFINE op == FindOperatorInfo(Head(todo).sig)
           e  == [shape |-> Head(todo).shape, op |-> op]
           c  == [shape |-> Head(todo).shape, op |-> op, count |-> 0]
<1>1. /\ currentSQLExprs' \in {currentSQLExprs, Append(currentSQLExprs, c)}
      /\ currentExprList' \in {currentExprList, Append(currentExprList, e)}
  BY DEF JitCompileExpr
<1>2. Head(todo) \in [shape : Shapes, sig : Sigs]
  <2>1. todo # <<>> /\ todo \in Seq([shape : Shapes, sig : Sigs])
    BY DEF JitCompileExpr, TypeOK
  <2> QED BY <2>1, HeadTail, Zenon
<1>3. op \in Pointers
  BY <1>2, FindOperatorIs
<1> HIDE DEF op
<1>4. e \in ExprEntry /\ c \in SQLEntry
  BY <1>2, <1>3 DEF ExprEntry, SQLEntry
<1>5. e.shape = Head(todo).shape /\ e.op = op /\ c.shape = Head(todo).shape /\ c.op = op
  OBVIOUS
<1> HIDE DEF e, c
<1>6. currentExprList \in Seq(ExprEntry) /\ currentSQLExprs \in Seq(SQLEntry)
  BY DEF TypeOK, ExprEntry, SQLEntry
<1>7. Grows(currentExprList, Append(currentExprList, e), e)
  BY <1>4, <1>6, AppendGrows
<1>8. Grows(currentSQLExprs, Append(currentSQLExprs, c), c)
  BY <1>4, <1>6, AppendGrows
<1>9. \A k \in DOMAIN currentSQLExprs' :
        \/ k \in DOMAIN currentSQLExprs /\ currentSQLExprs'[k] = currentSQLExprs[k]
        \/ currentSQLExprs'[k].shape = Head(todo).shape /\ currentSQLExprs'[k].op = op
  BY <1>1, <1>5, <1>8 DEF Grows
<1>10. \A k \in DOMAIN currentExprList' :
        \/ k \in DOMAIN currentExprList /\ currentExprList'[k] = currentExprList[k]
        \/ currentExprList'[k].shape = Head(todo).shape /\ currentExprList'[k].op = op
  BY <1>1, <1>5, <1>7 DEF Grows
<1> QED BY <1>9, <1>10 DEF op

\* Compiling an expression of the text enters it at its place.
LEMMA CompileKeepsRoom ==
  ASSUME TypeOK, Phases, InPlace, RoomKept, JitCompileExpr
  PROVE  TodoReached' /\ SQLExprsPlaced' /\ ListPlaced'
<1>1. UNCHANGED <<conf, running, planned, currentStatement, block, memory, allOptInfoNum,
                  moved, foreign>>
  BY DEF JitCompileExpr
<1>2. /\ todo # <<>> /\ todo' = Tail(todo) /\ todo \in Seq([shape : Shapes, sig : Sigs])
      /\ planned /\ running \in Texts /\ running # NULL
  BY DEF JitCompileExpr, TypeOK, Phases
<1>3. /\ 1 \in DOMAIN todo /\ todo[1] = Head(todo)
      /\ \A k \in DOMAIN todo' : k + 1 \in DOMAIN todo /\ todo'[k] = todo[k + 1]
  BY <1>2
<1>4. TodoReached'
  <2> SUFFICES ASSUME HasRoom(running), ~ foreign, NEW k \in DOMAIN todo'
               PROVE  /\ todo'[k].sig \in Operators(OwnPlans)
                      /\ \E i \in 1 .. allOptInfoNum :
                           /\ memory[block][i] = todo'[k].sig
                           /\ <<todo'[k].shape, i>> \in PlacesOf(running)
    BY <1>1, SamePlaces DEF TodoReached
  <2>1. k + 1 \in DOMAIN todo /\ todo'[k] = todo[k + 1]
    BY <1>3
  <2> QED BY <1>2, <2>1 DEF RoomKept, TodoReached
<1>5. ASSUME conf.enableME, HasRoom(running), ~ foreign
      PROVE  \E i \in Entries : /\ FindOperatorInfo(Head(todo).sig) = <<block, i>>
                               /\ <<Head(todo).shape, i>> \in PlacesOf(running)
  <2>1. /\ todo[1].sig \in Operators(OwnPlans)
        /\ \E i \in 1 .. allOptInfoNum : /\ memory[block][i] = todo[1].sig
                                         /\ <<todo[1].shape, i>> \in PlacesOf(running)
    BY <1>2, <1>3, <1>5 DEF RoomKept, TodoReached
  <2> QED BY <1>3, <2>1, FoundAtPlace
<1>6. SQLExprsPlaced'
  <2> SUFFICES ASSUME conf.enableME, HasRoom(running), ~ foreign,
                      NEW k \in DOMAIN currentSQLExprs'
               PROVE  \E i \in Entries : /\ currentSQLExprs'[k].op = <<block, i>>
                                        /\ <<currentSQLExprs'[k].shape, i>> \in PlacesOf(running)
    BY <1>1, SamePlaces DEF SQLExprsPlaced, AtPlace
  <2>1. CASE k \in DOMAIN currentSQLExprs /\ currentSQLExprs'[k] = currentSQLExprs[k]
    BY <1>2, <2>1 DEF RoomKept, SQLExprsPlaced, AtPlace
  <2>2. CASE /\ currentSQLExprs'[k].shape = Head(todo).shape
             /\ currentSQLExprs'[k].op = FindOperatorInfo(Head(todo).sig)
    BY <1>5, <2>2
  <2> QED BY <2>1, <2>2, CompileAdds
<1>7. ListPlaced'
  <2> SUFFICES ASSUME HasRoom(currentStatement), currentStatement # NULL, ~ moved, ~ foreign,
                      NEW k \in DOMAIN currentExprList'
               PROVE  \E i \in Entries :
                        /\ currentExprList'[k].op = <<block, i>>
                        /\ <<currentExprList'[k].shape, i>> \in PlacesOf(currentStatement)
    BY <1>1, SamePlaces DEF ListPlaced, AtPlace
  <2>1. CASE k \in DOMAIN currentExprList /\ currentExprList'[k] = currentExprList[k]
    BY <2>1 DEF RoomKept, ListPlaced, AtPlace
  <2>2. CASE /\ conf.enableME
             /\ currentExprList'[k].shape = Head(todo).shape
             /\ currentExprList'[k].op = FindOperatorInfo(Head(todo).sig)
    <3>1. currentStatement = running
      BY <1>2, <2>2 DEF RoomKept, TextCurrent
    <3> QED BY <1>5, <2>2, <3>1
  <2>3. ~ conf.enableME => currentExprList' = currentExprList
    BY DEF JitCompileExpr
  <2> QED BY <2>1, <2>2, <2>3, CompileAdds
<1> QED BY <1>4, <1>6, <1>7

\* Planning the text enters the operators of all its expressions.
LEMMA PlanKeepsRoom ==
  ASSUME TypeOK, Phases, ListStarts, RoomKept, Plan
  PROVE  TodoReached' /\ SQLExprsPlaced' /\ ListPlaced'
<1>1. /\ UNCHANGED <<conf, running, currentStatement, block, currentSQLExprs, currentExprList,
                     moved, foreign>>
      /\ running \notin Utilities \cup {NULL} /\ ~ planned /\ running \in Texts
  BY DEF Plan, history, TypeOK
<1>2. PICK p \in Plans[running] : AddPlanTree(p.ops) /\ todo' = p.exprs
  BY DEF Plan
<1>3. p.ops \in Seq(Sigs) /\ p.exprs \in Seq(Expr) /\ p \in OwnPlans
  BY <1>1, PlanTypes DEF OwnPlans
<1>4. allOptInfoNum = 0
  BY <1>1 DEF Phases
<1>5. /\ allOptInfoNum' = Len(p.ops) /\ Len(p.ops) <= OPT_LIST_SIZE
      /\ \A i \in DOMAIN p.ops : i \in Entries /\ i \in 1 .. Len(p.ops) /\ memory'[block][i] = p.ops[i]
  <2>1. /\ allOptInfoNum' = Len(p.ops) /\ Len(p.ops) <= OPT_LIST_SIZE /\ Len(p.ops) \in Nat
        /\ DOMAIN p.ops = 1 .. Len(p.ops)
    BY <1>2, <1>3, <1>4, AddIs
  <2>2. \A i \in DOMAIN p.ops : i \in Entries /\ i > allOptInfoNum /\ i <= allOptInfoNum'
    BY <1>4, <2>1, SizesAssumption DEF Entries
  <2>3. \A i \in DOMAIN p.ops : memory'[block][i] = p.ops[i - allOptInfoNum]
    BY <1>2, <1>3, <2>2, AddIs
  <2>4. \A i \in DOMAIN p.ops : i - allOptInfoNum = i
    BY <1>4, <2>1
  <2> QED BY <2>1, <2>2, <2>3, <2>4
<1>6. TodoReached'
  <2> SUFFICES ASSUME HasRoom(running), NEW k \in DOMAIN p.exprs
               PROVE  /\ p.exprs[k].sig \in Operators(OwnPlans)
                      /\ \E i \in 1 .. allOptInfoNum' :
                           /\ memory'[block][i] = p.exprs[k].sig
                           /\ <<p.exprs[k].shape, i>> \in PlacesOf(running)
    BY <1>1, <1>2, SamePlaces DEF TodoReached
  <2>1. PICK i \in DOMAIN p.ops : p.ops[i] = p.exprs[k].sig
    BY <1>2 DEF HasRoom
  <2>2. i \in Entries /\ i \in 1 .. allOptInfoNum' /\ memory'[block][i] = p.exprs[k].sig
    BY <1>5, <2>1
  <2>3. p.exprs[k].sig \in Operators(OwnPlans)
    BY <1>3, <2>1 DEF Operators
  <2>4. p.exprs[k] \in Expr
    BY <1>3
  <2>5. p.exprs[k] = [shape |-> p.exprs[k].shape, sig |-> p.ops[i]] /\ p.exprs[k].shape \in Shapes
    BY <2>1, <2>4 DEF Expr
  <2>6. <<p.exprs[k].shape, i>> \in PlacesOf(running)
    BY <1>2, <2>1, <2>2, <2>5 DEF PlacesOf
  <2> QED BY <2>2, <2>3, <2>6
<1>7. SQLExprsPlaced'
  <2>1. conf.enableME => currentSQLExprs = <<>>
    BY <1>1 DEF ListStarts
  <2>2. DOMAIN <<>> = {}
    OBVIOUS
  <2> QED BY <1>1, <2>1, <2>2 DEF SQLExprsPlaced
<1>8. ListPlaced'
  BY <1>1, SameList DEF RoomKept
<1> QED BY <1>6, <1>7, <1>8

\* The prologue empties the list or keeps it, and notes a moved block.
LEMMA ReceiveKeepsRoom ==
  ASSUME TypeOK, Phases, RoomKept, NEW t \in Texts, Receive(t)
  PROVE  TextCurrent' /\ TodoReached' /\ SQLExprsPlaced' /\ ListPlaced'
<1>1. running' = t /\ conf' = conf /\ ~ planned'
  BY DEF Receive, Phases, executor, TypeOK
<1>2. conf.enableME => currentStatement' = t
  BY DEF Receive, RenewExprs, NewText, SameText
<1>3. \/ currentExprList' = <<>>
      \/ currentExprList' = currentExprList /\ currentStatement' = currentStatement
  BY DEF Receive, RenewExprs, NewText, SameText
<1>4. (currentExprList' # <<>> /\ ~ moved' /\ ~ foreign') =>
        block' = block /\ ~ moved /\ ~ foreign
  BY DEF Receive, NoteMove
<1>5. ListPlaced'
  <2>1. CASE currentExprList' = <<>>
    <3>1. DOMAIN currentExprList' = {}
      BY <2>1
    <3> QED BY <3>1 DEF ListPlaced
  <2>2. CASE currentExprList' # <<>> /\ ~ moved' /\ ~ foreign'
    BY <1>3, <1>4, <2>2, SameList DEF RoomKept
  <2>3. CASE moved' \/ foreign'
    BY <2>3 DEF ListPlaced
  <2> QED BY <2>1, <2>2, <2>3
<1> QED BY <1>1, <1>2, <1>5 DEF TextCurrent, TodoReached, SQLExprsPlaced

\* Counting changes neither expressions nor operators.
LEMMA ExecKeepsRoom ==
  ASSUME TypeOK, Phases, RoomKept, ExecInterpExpr
  PROVE  TodoReached' /\ SQLExprsPlaced' /\ ListPlaced'
<1> DEFINE list == currentSQLExprs
<1>1. UNCHANGED <<conf, running, planned, todo, currentStatement, block, memory, allOptInfoNum,
                  currentExprList, moved, foreign>>
  BY DEF ExecInterpExpr
<1>2. PICK x \in ready :
        list' = IF Find(list, x[1], x[2]) = 0 THEN list
                ELSE [list EXCEPT ![Find(list, x[1], x[2])].count = @ + 1]
  BY Zenon DEF ExecInterpExpr
<1>3. list \in Seq(SQLEntry) /\ DOMAIN list \in SUBSET (Nat \ {0})
  BY DEF TypeOK, SQLEntry
<1>4. Find(list, x[1], x[2]) # 0 => Find(list, x[1], x[2]) \in DOMAIN list
  BY <1>3, FindIs, Zenon
<1>5. /\ DOMAIN list' = DOMAIN list
      /\ \A i \in DOMAIN list : list'[i].shape = list[i].shape /\ list'[i].op = list[i].op
  BY <1>2, <1>3, <1>4, CountIs
<1>6. SQLExprsPlaced'
  BY <1>1, <1>5, SameSQLExprs DEF RoomKept
<1>7. TodoReached' /\ ListPlaced'
  BY <1>1, SameTodo, SameList DEF RoomKept
<1> QED BY <1>6, <1>7

(***************************************************************************)
(* The tables that addPlanTree and jit_compile_expr write without a test   *)
(* of their size do not fill up by repetitions, changed plans, errors,     *)
(* other texts or settings: a text that has room is written past a table   *)
(* only after malloc has returned another block or a function of the text  *)
(* has run queries of its own, for any texts, plans and sizes.             *)
(***************************************************************************)
THEOREM TablesSuffice == Spec => []RoomSuffices
<1>1. Init => RoomKept
  <2> SUFFICES ASSUME Init PROVE RoomKept
    OBVIOUS
  <2>1. DOMAIN currentExprList = {} /\ ~ planned /\ running = NULL /\ ~ overrun
    BY DEF Init
  <2> QED BY <2>1 DEF RoomKept, TextCurrent, TodoReached, SQLExprsPlaced, ListPlaced, RoomSuffices
<1>2. TypeOK /\ Phases /\ PositionsKept /\ CountsKept /\ RoomKept /\ [Next]_vars => RoomKept'
  <2> SUFFICES ASSUME TypeOK, Phases, PositionsKept, CountsKept, RoomKept, [Next]_vars
               PROVE  RoomKept'
    OBVIOUS
  <2>0. (Step /\ ~ overrun') \/ WriteBeyond \/ UNCHANGED vars
    BY DEF Next
  <2>1. ASSUME UNCHANGED session
        PROVE  /\ TextCurrent'
               /\ foreign' \in {foreign, TRUE} => TodoReached' /\ SQLExprsPlaced' /\ ListPlaced'
    <3>1. UNCHANGED <<conf, running, planned, todo, currentStatement, block, memory,
                      allOptInfoNum, currentSQLExprs, currentExprList, moved>>
      BY <2>1 DEF session, tables, executor
    <3>2. TextCurrent'
      BY <3>1 DEF RoomKept, TextCurrent
    <3>3. ASSUME foreign' \in {foreign, TRUE} PROVE TodoReached' /\ SQLExprsPlaced' /\ ListPlaced'
      <4>1. ~ foreign' => ~ foreign
        BY <3>3
      <4>2. TodoReached' /\ ListPlaced'
        BY <3>1, <4>1, SameTodo, SameList DEF RoomKept
      <4>3. SQLExprsPlaced'
        BY <3>1, <4>1, SameSQLExprs DEF RoomKept
      <4> QED BY <4>2, <4>3
    <3> QED BY <3>2, <3>3
  <2>2. CASE UNCHANGED vars
    <3>1. RoomSuffices'
      BY <2>2, SamePlaces DEF vars, session, RoomKept, RoomSuffices
    <3> QED BY <2>1, <2>2, <3>1 DEF vars, RoomKept
  <2>3. CASE WriteBeyond
    <3>1. RoomSuffices'
      BY <2>3, BeyondKeepsRoom DEF PositionsKept, CountsKept
    <3>2. UNCHANGED session /\ foreign' \in {foreign, TRUE}
      BY <2>3 DEF WriteBeyond
    <3> QED BY <2>1, <3>1, <3>2 DEF RoomKept
  <2>4. CASE Step /\ ~ overrun'
    <3>1. SUFFICES TextCurrent' /\ TodoReached' /\ SQLExprsPlaced' /\ ListPlaced'
      BY <2>4 DEF RoomKept, RoomSuffices
    <3>2. ASSUME UNCHANGED <<conf, running, currentStatement>> PROVE TextCurrent'
      BY <3>2 DEF RoomKept, TextCurrent
    <3>3. ASSUME foreign' PROVE TodoReached' /\ SQLExprsPlaced' /\ ListPlaced'
      BY <3>3 DEF TodoReached, SQLExprsPlaced, ListPlaced
    <3>4. ASSUME ~ planned', UNCHANGED <<currentStatement, block, currentExprList, moved, foreign>>
          PROVE  TodoReached' /\ SQLExprsPlaced' /\ ListPlaced'
      BY <3>4, SameList DEF RoomKept, TodoReached, SQLExprsPlaced
    <3>5. ASSUME NEW t \in Texts, Receive(t)
          PROVE  TextCurrent' /\ TodoReached' /\ SQLExprsPlaced' /\ ListPlaced'
      BY <3>5, ReceiveKeepsRoom
    <3>6. CASE Plan
      BY <3>2, <3>6, PlanKeepsRoom DEF CountsKept, Plan
    <3>7. CASE PlanNested \/ RunCached
      BY <3>2, <3>3, <3>7 DEF PlanNested, RunCached
    <3>8. CASE JitCompileExpr
      BY <3>2, <3>8, CompileKeepsRoom DEF PositionsKept, JitCompileExpr
    <3>9. CASE ExecInterpExpr
      BY <3>2, <3>9, ExecKeepsRoom DEF ExecInterpExpr
    <3>10. CASE EndStatement
      BY <3>4, <3>10 DEF EndStatement, TextCurrent, tables
    <3>11. CASE Reload
      <4>1. ~ planned' /\ running' = NULL
        BY <3>11 DEF Reload, Phases, TypeOK, executor
      <4> QED BY <3>4, <3>11, <4>1 DEF Reload, TextCurrent, tables
    <3> QED BY <2>4, <3>5, <3>6, <3>7, <3>8, <3>9, <3>10, <3>11 DEF Step, Complete, Abort
  <2> QED BY <2>0, <2>2, <2>3, <2>4
<1>3. RoomKept => RoomSuffices
  BY DEF RoomKept
<1> QED BY <1>1, <1>2, <1>3, TablesTyped, PositionsInvariant, CountsInvariant, PTL DEF Spec
=============================================================================
