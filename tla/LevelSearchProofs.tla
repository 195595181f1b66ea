------------------------- MODULE LevelSearchProofs -------------------------
(***************************************************************************)
(* What is proved of LevelSearch, for every number of positions, every set *)
(* of statements and times: type correctness under every configuration,    *)
(* that the recorded best is the fastest combination measured, and what    *)
(* the passes guarantee for the workload they are written for: EXPLAIN     *)
(* ANALYZE texts with stable plans, none of which fails, with              *)
(* enableQuartet on.                                                       *)
(***************************************************************************)
EXTENDS LevelSearchHistory, TLAPS

----------------------------------------------------------------------------
(* The passes of the search.                                               *)

\* The workload: search on, test mode off, one plan size per text.
QuartetWorkload ==
  /\ \A c \in Configs : c.enableME /\ ~c.testME /\ c.enableQuartet
  /\ Statements \subseteq ExprStmts
  /\ \A s \in Statements : \E n \in 0 .. EXPR_MAX_NUM : PlanSizes[s] = {n}

Reg == 0 .. currentExprNum - 1
UpTo2(f) == \A i \in Reg : f[i] \in 0 .. 2
UpTo3(f) == \A i \in Reg : f[i] \in 0 .. 3
ZeroOr3(f, i) == f[i] \in {0, 3}
Unmixed(f) == \A i, j \in Reg : ~(f[i] = 3 /\ f[j] \in {1, 2})
ZeroBut(f, i) == \A j \in Reg \ {i} : f[j] = 0

\* The first execution of a text.
Fresh ==
  /\ Reserved2 = 0 /\ Reserved3 = 0 /\ min_expr_time = 0
  /\ \A i \in Reg : currentExprJITLevels[i] = 0
  /\ query # None => min_total_time = 0

\* The sweep of whole-plan levels.
Sweeping ==
  /\ Reserved2 = 0 /\ min_expr_time = 0
  /\ UpTo2(currentExprJITLevels) /\ Unmixed(currentExprJITLevels)

\* First pass: one digit of 0, 1, 2; the positions before it have a best.
FirstPass ==
  /\ ZeroBut(currentExprJITLevels, Reserved2)
  /\ currentExprJITLevels[Reserved2] \in 0 .. 2
  /\ \A i \in 0 .. Reserved2 - 1 : bestCurrentJITLevels[i] \in 0 .. 2
  /\ min_expr_time # 0 => bestCurrentJITLevels[Reserved2] \in 0 .. 2
  /\ query = None => min_expr_time # 0

\* Between the passes: the local best of the first one is in force.
Between ==
  /\ Reserved2 = 0
  /\ UpTo2(currentExprJITLevels)
  /\ query # None /\ ~useTheBest => currentLevelsCount > 0

\* Second pass: one digit at 3.
Digit3 ==
  /\ ~useTheBest
  /\ ZeroBut(currentExprJITLevels, Reserved2)
  /\ currentExprJITLevels[Reserved2] = 3
  /\ query = None => min_expr_time # 0

SecondPass ==
  /\ UpTo3(bestCurrentJITLevels)
  /\ Between \/ Digit3
  /\ min_expr_time # 0 => \A i \in Reg \ {Reserved2} : ZeroOr3(bestCurrentJITLevels, i)
  /\ Reserved2 >= 1 => \A i \in Reg \ {0} : ZeroOr3(bestCurrentJITLevels, i)
  /\ Reserved2 >= 2 => ZeroOr3(bestCurrentJITLevels, 0)

\* Every position has been varied.
Done == UpTo3(currentExprJITLevels) /\ Unmixed(currentExprJITLevels)

\* The phase the search is in.
Phase ==
  /\ currentStatementExecNum = 0 => Fresh /\ ~enableOPT3 /\ ~useTheBest
  /\ currentStatementExecNum # 0 /\ Reserved3 < 3 =>
       Sweeping /\ ~enableOPT3 /\ ~useTheBest
  /\ Reserved3 = 3 /\ Reserved2 < currentExprNum /\ ~enableOPT3 => 
       FirstPass /\ ~useTheBest
  /\ enableOPT3 => Reserved3 = 3 /\ Reserved2 < currentExprNum /\ SecondPass
  /\ Reserved3 = 3 /\ Reserved2 >= currentExprNum => Done
  /\ useTheBest => query # None

\* The statement being searched, its plan size and its recorded best.
Subject ==
  /\ query \in {None, currentStatement}
  /\ query # None => planned \in PlanSizes[query] /\ currentExprNum <= planned
  /\ currentStatement = None => query = None /\ currentStatementExecNum = 0
                                /\ currentExprNum = 0
  /\ currentStatement # None /\ (query = None \/ currentStatementExecNum # 0) =>
       currentExprNum \in PlanSizes[currentStatement] /\ min_total_time # 0
  /\ min_total_time # 0 => UpTo3(bestJITLevels) /\ Unmixed(bestJITLevels)

PassInv == TypeOK /\ Subject /\ Phase

----------------------------------------------------------------------------
\* The levels that test mode reads from its file are levels.
LEMMA OverlayType ==
  ASSUME NEW s \in Statements, NEW levels \in [Pos -> Int]
  PROVE  Overlay(s, levels) \in [Pos -> Int]
  BY ConstAssumption DEF Overlay, JITLevels

\* The registered positions are positions of the arrays.
LEMMA RegInPos ==
  ASSUME TypeOK
  PROVE  Reg \subseteq Pos
  <1>1. EXPR_MAX_NUM \in Nat /\ currentExprNum \in 0 .. EXPR_MAX_NUM
    BY ConstAssumption DEF TypeOK
  <1> QED BY <1>1 DEF Reg, Pos

LEMMA RegSame ==
  ASSUME currentExprNum' = currentExprNum
  PROVE  Reg' = Reg
  BY DEF Reg

\* The first run of a text: jit_compile_expr registers its expressions.
LEMMA PassAddExpr ==
  ASSUME QuartetWorkload, PassInv, TypeOK', AddExpr
  PROVE  PassInv'
  <1> USE ConstAssumption
  <1>1. /\ query \in Statements /\ query = currentStatement /\ query # None
        /\ ~conf.testME
    BY DEF AddExpr, PassInv, Subject, QuartetWorkload, TypeOK
  <1>2. currentStatementExecNum = 0
    BY <1>1 DEF AddExpr, PassInv, Subject, QuartetWorkload, TypeOK
  <1>3. Fresh /\ ~enableOPT3 /\ ~useTheBest
    BY <1>2 DEF PassInv, Phase
  <1>4. Fresh'
    <2>1. /\ currentExprNum \in Pos /\ currentExprNum' = currentExprNum + 1
          /\ currentExprJITLevels' = [currentExprJITLevels EXCEPT ![currentExprNum] = 0]
          /\ currentExprJITLevels \in [Pos -> Int]
      BY <1>1 DEF AddExpr, PassInv, TypeOK, Pos
    <2>2. ASSUME NEW i \in Reg' PROVE currentExprJITLevels'[i] = 0
      <3>1. i \in Pos /\ (i = currentExprNum \/ i \in Reg)
        BY <2>1 DEF Reg, Pos
      <3> QED BY <2>1, <3>1, <1>3 DEF Fresh
    <2> QED BY <1>1, <1>3, <2>2 DEF Fresh, AddExpr, search, best
  <1>5. Phase'
    <2>1. ~enableOPT3' /\ ~useTheBest'
      BY <1>3 DEF AddExpr, search
    <2>2. Reserved3' = 0 /\ currentStatementExecNum' = 0
      BY <1>2, <1>3 DEF AddExpr, search, Fresh
    <2> QED BY <1>4, <2>1, <2>2 DEF Phase
  <1>6. Subject'
    BY <1>1, <1>2, <1>3 DEF Subject, AddExpr, best, PassInv, TypeOK, Fresh
  <1> QED BY <1>5, <1>6 DEF PassInv

\* In every phase the levels in force are defined and not mixed.
LEMMA PhaseGood ==
  ASSUME PassInv
  PROVE  UpTo3(currentExprJITLevels) /\ Unmixed(currentExprJITLevels)
  <1> DEFINE L == currentExprJITLevels
  <1>1. CASE currentStatementExecNum = 0
    BY <1>1 DEF PassInv, Phase, Fresh, UpTo3, Unmixed
  <1>2. CASE currentStatementExecNum # 0 /\ Reserved3 < 3
    BY <1>2 DEF PassInv, Phase, Sweeping, UpTo2, UpTo3, Unmixed
  <1>3. CASE Reserved3 = 3 /\ Reserved2 >= currentExprNum
    BY <1>3 DEF PassInv, Phase, Done
  <1>4. CASE Reserved3 = 3 /\ Reserved2 < currentExprNum /\ ~enableOPT3
    <2>1. ZeroBut(L, Reserved2) /\ L[Reserved2] \in 0 .. 2
      BY <1>4 DEF PassInv, Phase, FirstPass
    <2>2. \A i \in Reg : L[i] \in 0 .. 2
      BY <2>1 DEF ZeroBut
    <2> QED BY <2>2 DEF UpTo3, Unmixed
  <1>5. CASE enableOPT3
    <2>1. CASE Between
      BY <2>1 DEF Between, UpTo2, UpTo3, Unmixed
    <2>2. CASE Digit3
      <3>1. \A i \in Reg : L[i] \in {0, 3}
        BY <2>2 DEF Digit3, ZeroBut
      <3> QED BY <3>1 DEF UpTo3, Unmixed
    <2> QED BY <1>5, <2>1, <2>2 DEF PassInv, Phase, SecondPass
  <1> QED BY <1>1, <1>2, <1>3, <1>4, <1>5 DEF PassInv, TypeOK

\* A run is measured.
LEMMA PassMeasure ==
  ASSUME QuartetWorkload, PassInv, TypeOK', NEW t \in Times, ExplainOnePlan(t)
  PROVE  PassInv'
  <1> USE ConstAssumption
  <1>1. /\ query \in Statements /\ query = currentStatement /\ query # None
        /\ conf.enableME /\ currentExprNum = planned
        /\ PlanSizes[query] = {currentExprNum}
    BY DEF ExplainOnePlan, Compiled, PassInv, Subject, QuartetWorkload, TypeOK
  <1>2. /\ query' = None
        /\ RecordTotal(t) /\ RecordPosition(t)
        /\ UNCHANGED <<currentStatement, currentExprNum, currentExprJITLevels,
                       Reserved2, Reserved3, enableOPT3, currentStatementExecNum,
                       currentLevelsCount>>
        /\ t \in Nat /\ t # 0
    BY <1>1 DEF ExplainOnePlan
  <1>3. ~useTheBest'
    BY <1>1 DEF ExplainOnePlan
  <1>a. Reg \subseteq Pos /\ Reg' = Reg
    BY <1>2, RegInPos, RegSame DEF PassInv
  <1>b. currentExprNum \in Nat /\ Reserved2 \in Nat /\ Reserved3 \in 0 .. 3
    BY DEF PassInv, TypeOK
  <1>4. Subject'
    <2>1. min_total_time' # 0
      BY <1>2 DEF RecordTotal, FasterThanAll
    <2>2. UpTo3(bestJITLevels)' /\ Unmixed(bestJITLevels)'
      <3>1. CASE FasterThanAll(t)
        <4>1. \A i \in Reg : bestJITLevels'[i] = currentExprJITLevels[i]
          BY <1>2, <1>a, <1>b, <3>1 DEF RecordTotal, Reg
        <4> QED BY <1>a, <4>1, PhaseGood DEF UpTo3, Unmixed
      <3>2. CASE ~FasterThanAll(t)
        BY <1>2, <1>a, <3>2 DEF RecordTotal, FasterThanAll, PassInv, Subject, UpTo3, Unmixed
      <3> QED BY <3>1, <3>2
    <2> QED BY <1>1, <1>2, <2>1, <2>2 DEF Subject
  <1>5. Phase'
    <2>1. CASE Reserved3 < 3
      <3>1. UNCHANGED min_expr_time /\ ~enableOPT3
        BY <1>2, <2>1 DEF RecordPosition, FasterHere, PassInv, Phase, TypeOK
      <3> QED BY <1>2, <1>3, <1>a, <2>1, <3>1, SMTT(30)
              DEF PassInv, Phase, TypeOK, Fresh, Sweeping, UpTo2, Unmixed
    <2>2. CASE Reserved3 = 3 /\ Reserved2 >= currentExprNum
      <3>1. ~enableOPT3 /\ currentStatementExecNum # 0
        BY <1>b, <2>2 DEF PassInv, Phase, Fresh
      <3>2. Done'
        BY <1>2, <1>a, <2>2 DEF PassInv, Phase, Done, UpTo3, Unmixed
      <3>3. ~enableOPT3' /\ currentStatementExecNum' # 0 /\ Reserved3' = 3
            /\ ~(Reserved2' < currentExprNum')
        BY <1>2, <1>b, <2>2, <3>1
      <3> QED BY <1>3, <3>2, <3>3 DEF Phase
    <2>3. CASE Reserved3 = 3 /\ Reserved2 < currentExprNum /\ ~enableOPT3
      <3>1. FirstPass /\ ~useTheBest /\ currentStatementExecNum # 0
        BY <2>3 DEF PassInv, Phase, Fresh
      <3>2. Reserved2 \in Reg /\ Reserved2 \in Pos
        BY <2>3, <1>a, SMTT(30) DEF PassInv, TypeOK, Reg
      <3>3. min_expr_time' # 0
        BY <1>2, <2>3, <3>1 DEF RecordPosition, FasterHere
      <3>4. bestCurrentJITLevels'[Reserved2] \in 0 .. 2
        BY <1>2, <2>3, <3>1, <3>2, SMTT(30) DEF RecordPosition, FasterHere, FirstPass
      <3>5. ASSUME NEW i \in 0 .. Reserved2 - 1
            PROVE  bestCurrentJITLevels'[i] = bestCurrentJITLevels[i]
        <4>1. i \in Pos /\ i # Reserved2 /\ ~Stale(i)
          BY <1>b, <2>3, <3>2 DEF Stale, Pos
        <4> QED BY <1>2, <4>1 DEF RecordPosition
      <3>6. FirstPass'
        BY <1>2, <1>a, <3>1, <3>3, <3>4, <3>5 DEF FirstPass, ZeroBut
      <3>7. ~enableOPT3' /\ currentStatementExecNum' # 0 /\ Reserved3' = 3
            /\ ~(Reserved2' >= currentExprNum')
        BY <1>2, <1>b, <2>3, <3>1
      <3> QED BY <1>3, <3>6, <3>7 DEF Phase
    <2>4. CASE Reserved3 = 3 /\ Reserved2 < currentExprNum /\ enableOPT3
      <3> DEFINE C == bestCurrentJITLevels
      <3>1. SecondPass /\ currentStatementExecNum # 0
        BY <2>4 DEF PassInv, Phase, Fresh
      <3>2. Reserved2 \in Reg /\ Reserved2 \in Pos
        BY <2>4, <1>a, SMTT(30) DEF PassInv, TypeOK, Reg
      <3>3. SecondPass'
        <4>1. CASE FasterHere(t)
          <5>1. /\ min_expr_time' = t /\ ~useTheBest
                /\ C'[Reserved2] = currentExprJITLevels[Reserved2]
            BY <1>2, <4>1, <3>2, <2>4, SMTT(30) DEF RecordPosition, FasterHere
          <5>2. \A i \in Reg \ {Reserved2} :
                  C'[i] = IF C[i] \notin {0, 3} THEN 0 ELSE C[i]
            BY <1>2, <1>a, <1>b, <4>1, <3>2, <2>4, SMTT(30) DEF RecordPosition, Stale, Reg
          <5>3. C'[Reserved2] \in 0 .. 3 /\ (Reserved2 >= 1 => C'[Reserved2] = 3)
            <6>1. CASE Between
              <7>1. Reserved2 = 0 /\ currentExprJITLevels[Reserved2] \in 0 .. 2
                BY <6>1, <3>2, Zenon DEF Between, UpTo2
              <7> QED BY <5>1, <7>1, SMTT(30)
            <6>2. CASE Digit3
              <7>1. currentExprJITLevels[Reserved2] = 3
                BY <6>2, Zenon DEF Digit3
              <7> QED BY <5>1, <7>1, SMTT(30)
            <6> QED BY <3>1, <6>1, <6>2, Zenon DEF SecondPass
          <5>4. \A i \in Reg \ {Reserved2} : C'[i] \in {0, 3}
            BY <5>2
          <5>5. (Between \/ Digit3)'
            BY <1>2, <1>3, <1>a, <5>1, <3>1 DEF SecondPass, Between, Digit3, UpTo2, ZeroBut
          <5>6. 0 \in Reg
            BY <3>2, SMTT(30) DEF Reg, PassInv, TypeOK
          <5> QED BY <1>2, <1>a, <3>2, <5>3, <5>4, <5>5, <5>6, SMTT(30) DEF SecondPass, UpTo3, ZeroOr3
        <4>2. CASE ~FasterHere(t)
          <5>1. UNCHANGED <<min_expr_time, bestCurrentJITLevels>>
            BY <1>2, <4>2 DEF RecordPosition
          <5>2. useTheBest \/ min_expr_time # 0
            BY <4>2, <2>4 DEF FasterHere
          <5>3. (Between \/ Digit3)'
            BY <1>2, <1>3, <1>a, <5>1, <5>2, <3>1 DEF SecondPass, Between, Digit3, UpTo2, ZeroBut
          <5> QED BY <1>2, <1>a, <3>1, <5>1, <5>3, SMTT(30) DEF SecondPass, UpTo3, ZeroOr3
        <4> QED BY <4>1, <4>2
      <3>4. enableOPT3' /\ currentStatementExecNum' # 0 /\ Reserved3' = 3
            /\ Reserved2' < currentExprNum' /\ ~(Reserved2' >= currentExprNum')
        BY <1>2, <1>b, <2>4, <3>1
      <3> QED BY <1>3, <3>3, <3>4 DEF Phase
    <2> QED BY <2>1, <2>2, <2>3, <2>4, SMTT(30) DEF PassInv, TypeOK
  <1> QED BY <1>4, <1>5 DEF PassInv

\* What all executions of a repeated text have in common, given that the
\* previous one was measured.
Repeated(s) ==
  /\ s \in Statements /\ query' = s /\ query = None /\ currentStatement = s
  /\ ~useTheBest
  /\ UNCHANGED <<currentExprNum, best, currentStatement>>
  /\ currentStatementExecNum' # 0
  /\ s # None

\* The levels Choose puts in force.
LEMMA ChooseLevels ==
  ASSUME TypeOK, NEW levels, NEW index \in Nat, NEW useBest \in BOOLEAN,
         NEW opt3 \in BOOLEAN, Choose(levels, index, useBest, opt3),
         NEW i \in Reg
  PROVE  currentExprJITLevels'[i] =
           IF ~useBest THEN levels[i]
           ELSE IF index >= currentExprNum /\ ~opt3 THEN bestJITLevels[i]
           ELSE bestCurrentJITLevels[i]
  <1>1. i \in Pos /\ ~(i >= currentExprNum)
    BY ConstAssumption DEF TypeOK, Reg, Pos
  <1> QED BY <1>1 DEF Choose

\* The second execution starts the sweep.
LEMMA PassFirstRepeat ==
  ASSUME PassInv, TypeOK', NEW s, Repeated(s), FirstRepeat
  PROVE  Phase'
  <1>1. Fresh /\ ~enableOPT3
    BY DEF FirstRepeat, PassInv, Phase
  <1>2. Reg' = Reg /\ Reg \subseteq Pos
    BY RegInPos, RegSame DEF Repeated, PassInv
  <1>3. \A i \in Reg : currentExprJITLevels'[i] = 0
    BY <1>2 DEF FirstRepeat, AllAt, Reg, PassInv, TypeOK
  <1>4. Sweeping'
    BY <1>1, <1>2, <1>3 DEF Sweeping, Fresh, FirstRepeat, search, UpTo2, Unmixed
  <1>5. ~enableOPT3' /\ ~useTheBest'
    BY <1>1 DEF FirstRepeat, search, Repeated
  <1>6. Reserved3' = 0 /\ currentStatementExecNum' # 0
    BY <1>1 DEF FirstRepeat, search, Repeated, Fresh
  <1> QED BY <1>4, <1>5, <1>6 DEF Phase

\* A repetition of the same combination stays in its phase.
LEMMA PassSame ==
  ASSUME PassInv, TypeOK', NEW s, Repeated(s), SameCombination
  PROVE  Phase'
  <1>1. Reg' = Reg
    BY DEF Repeated, Reg
  <1>2. /\ UNCHANGED <<currentExprJITLevels, bestCurrentJITLevels, currentExprNum>>
        /\ UNCHANGED <<min_expr_time, Reserved2, Reserved3, enableOPT3, useTheBest>>
        /\ query' # None /\ query = None /\ currentLevelsCount' > 0
        /\ currentStatementExecNum' # 0 /\ currentStatementExecNum # 0
    BY DEF Repeated, SameCombination, search, best, PassInv, TypeOK
  <1>3. Sweeping => Sweeping'
    BY <1>1, <1>2 DEF Sweeping, UpTo2, Unmixed
  <1>4. FirstPass => FirstPass'
    BY <1>1, <1>2 DEF FirstPass, ZeroBut
  <1>5. SecondPass => SecondPass'
    <2>1. Between => Between'
      BY <1>1, <1>2 DEF Between, UpTo2
    <2>2. Digit3 => Digit3'
      BY <1>1, <1>2 DEF Digit3, ZeroBut
    <2> QED BY <1>1, <1>2, <2>1, <2>2 DEF SecondPass, UpTo3, ZeroOr3
  <1>6. Done => Done'
    BY <1>1, <1>2 DEF Done, UpTo3, Unmixed
  <1> QED BY <1>2, <1>3, <1>4, <1>5, <1>6 DEF PassInv, Phase

\* A step of the sweep; the last one, all zero, opens the first pass.
LEMMA PassSweep ==
  ASSUME PassInv, TypeOK', NEW s, Repeated(s), NextCombination, SweepPlan
  PROVE  Phase' /\ Remaining' = Remaining - 1
  <1>1. /\ Sweeping /\ ~enableOPT3 /\ ~useTheBest
        /\ currentStatementExecNum' # 0 /\ query' # None
        /\ Reserved3 \in 0 .. 2 /\ Reserved2 = 0 /\ min_expr_time' = 0
        /\ currentExprNum' = currentExprNum /\ currentExprNum \in Nat
    BY DEF NextCombination, SweepPlan, PassInv, Phase, TypeOK, Repeated, Sweeping
  <1>2. Reg' = Reg /\ Reg \subseteq Pos
    BY <1>1, RegInPos, RegSame DEF PassInv
  <1>3. Choose(AllAt((Reserved3 + 1) % 3), Reserved2, useTheBest, enableOPT3)
    BY SMTT(30) DEF SweepPlan
  <1>4. Reserved2' = 0 /\ Reserved3' = Reserved3 + 1
    BY <1>1, <1>3 DEF Choose, SweepPlan
  <1>5. ~enableOPT3' /\ ~useTheBest'
    BY <1>1, <1>3 DEF Choose
  <1>6. \A i \in Reg : currentExprJITLevels'[i] = (Reserved3 + 1) % 3
    <2>1. \A i \in Reg : AllAt((Reserved3 + 1) % 3)[i] = (Reserved3 + 1) % 3
      BY <1>1, <1>2 DEF AllAt, Reg
    <2>2. \A i \in Reg : i \in Pos /\ currentExprJITLevels'[i] = AllAt((Reserved3 + 1) % 3)[i]
      BY <1>1, <1>2, <1>3 DEF Choose
    <2> QED BY <2>1, <2>2
  <1>7. (Reserved3 + 1) % 3 \in 0 .. 2 /\ (Reserved3 = 2 => (Reserved3 + 1) % 3 = 0)
    BY <1>1
  <1>8. CASE Reserved3 < 2
    <2>1. Sweeping'
      <3>1. \A i \in Reg' : currentExprJITLevels'[i] \in 0 .. 2
        BY <1>2, <1>6, <1>7, Zenon
      <3>2. \A i \in Reg' : currentExprJITLevels'[i] # 3
        BY <3>1, SMTT(30)
      <3> QED BY <1>1, <1>4, <3>1, <3>2, Zenon DEF Sweeping, UpTo2, Unmixed
    <2>2. Remaining' = Remaining - 1
      BY <1>1, <1>4, <1>8, SMTT(30) DEF Remaining
    <2> QED BY <1>1, <1>4, <1>5, <1>8, <2>1, <2>2 DEF Phase
  <1>9. CASE Reserved3 = 2
    <2>1. \A i \in Reg : currentExprJITLevels'[i] = 0
      BY <1>6, <1>7, <1>9
    <2>2. CASE currentExprNum = 0
      <3>1. Done'
        BY <2>1, <1>2 DEF Done, UpTo3, Unmixed
      <3>2. Remaining' = Remaining - 1
        BY <1>1, <1>4, <1>9, <2>2, SMTT(30) DEF Remaining
      <3> QED BY <1>1, <1>4, <1>5, <1>9, <2>2, <3>1, <3>2 DEF Phase
    <2>3. CASE currentExprNum > 0
      <3>1. 0 \in Reg
        BY <2>3, <1>1 DEF Reg
      <3>2. FirstPass'
        BY <1>1, <1>2, <1>4, <2>1, <3>1 DEF FirstPass, ZeroBut
      <3>3. Remaining' = Remaining - 1
        <4>1. currentExprJITLevels'[Reserved2'] = 0
          BY <1>4, <2>1, <3>1
        <4> QED BY <1>1, <1>4, <1>5, <1>9, <2>3, <4>1, SMTT(30) DEF Remaining
      <3> QED BY <1>1, <1>4, <1>5, <1>9, <2>3, <3>2, <3>3 DEF Phase
    <2> QED BY <1>1, <2>2, <2>3
  <1> QED BY <1>1, <1>8, <1>9

\* Every position has been varied: the recorded best is in force.
LEMMA PassExhausted ==
  ASSUME QuartetWorkload, PassInv, TypeOK', NEW s, Repeated(s), NextCombination, Exhausted
  PROVE  Phase' /\ OnBest' /\ Remaining = 0 /\ Remaining' = 0
  <1>1. /\ Reserved3 = 3 /\ Reserved2 >= currentExprNum
        /\ currentStatementExecNum' # 0 /\ query' # None
        /\ currentExprNum' = currentExprNum /\ min_total_time # 0
        /\ Reserved2 \in Nat /\ currentExprNum \in Nat /\ Reserved3' = 3
    BY DEF Exhausted, Swept, QuartetWorkload, PassInv, TypeOK, Repeated, Subject
  <1>2. ~enableOPT3
    BY <1>1 DEF PassInv, Phase
  <1>3. Choose(currentExprJITLevels, Reserved2, TRUE, enableOPT3)
    BY DEF Exhausted
  <1>4. Reserved2' = Reserved2 /\ ~enableOPT3'
    BY <1>2, <1>3 DEF Choose
  <1>5. Reg' = Reg /\ Reg \subseteq Pos
    BY <1>1, RegInPos, RegSame DEF PassInv
  <1>6. ASSUME NEW i \in Reg PROVE currentExprJITLevels'[i] = bestJITLevels[i]
    <2>1. i \in Pos /\ ~(i >= currentExprNum)
      BY <1>1, <1>5, SMTT(30) DEF Reg
    <2> QED BY <1>1, <1>2, <1>3, <2>1 DEF Choose
  <1>7. Done'
    BY <1>1, <1>5, <1>6 DEF Done, PassInv, Subject, UpTo3, Unmixed
  <1>8. OnBest'
    BY <1>1, <1>5, <1>6, SMTT(30) DEF OnBest, Reg, Repeated, best
  <1>9. Remaining = 0 /\ Remaining' = 0
    BY <1>1, <1>4, SMTT(30) DEF Remaining
  <1> QED BY <1>1, <1>4, <1>7, <1>8, <1>9, SMTT(30) DEF Phase

\* A step of the first pass.
LEMMA PassVary ==
  ASSUME QuartetWorkload, PassInv, TypeOK', NEW s, Repeated(s), NextCombination, Vary
  PROVE  Phase' /\ Remaining' = Remaining - 1
  <1> DEFINE L == currentExprJITLevels
             C == bestCurrentJITLevels
  <1>1. /\ Reserved3 = 3 /\ Reserved2 < currentExprNum /\ ~enableOPT3 /\ ~useTheBest
        /\ currentStatementExecNum' # 0 /\ query' # None
        /\ currentExprNum' = currentExprNum /\ C' = C
        /\ Reserved2 \in Nat /\ currentExprNum \in Nat /\ Reserved3' = 3
        /\ L \in [Pos -> Int]
    BY DEF Vary, Swept, QuartetWorkload, PassInv, TypeOK, Repeated, best
  <1>2. Reg' = Reg /\ Reg \subseteq Pos /\ Reserved2 \in Reg
    <2>1. Reserved2 \in Reg
      BY <1>1 DEF Reg
    <2> QED BY <1>1, <2>1, RegInPos, RegSame DEF PassInv
  <1>3. /\ ZeroBut(L, Reserved2) /\ L[Reserved2] \in 0 .. 2
        /\ \A i \in 0 .. Reserved2 : C[i] \in 0 .. 2
    <2>1. FirstPass /\ query = None
      BY <1>1 DEF PassInv, Phase, Repeated
    <2>2. \A i \in 0 .. Reserved2 : i = Reserved2 \/ i \in 0 .. Reserved2 - 1
      BY <1>1
    <2> QED BY <2>1, <2>2 DEF FirstPass
  <1>r. Remaining = 3 - L[Reserved2] + 2 * (currentExprNum - 1 - Reserved2)
                      + currentExprNum + 1
    BY <1>1, <1>3, SMTT(30) DEF Remaining
  <1>4. CASE /\ L[Reserved2] + 1 # 3
             /\ Choose([L EXCEPT ![Reserved2] = L[Reserved2] + 1],
                       Reserved2, useTheBest, FALSE)
             /\ UNCHANGED min_expr_time
    <2>1. Reserved2' = Reserved2 /\ ~enableOPT3' /\ ~useTheBest'
      BY <1>1, <1>4, Zenon DEF Choose
    <2>2. \A i \in Reg : L'[i] = IF i = Reserved2 THEN L[i] + 1 ELSE L[i]
      BY <1>1, <1>2, <1>4 DEF Choose
    <2>3. ZeroBut(L, Reserved2)' /\ L'[Reserved2] \in 0 .. 2
      BY <1>2, <1>3, <1>4, <2>1, <2>2 DEF ZeroBut
    <2>4. FirstPass'
      BY <1>1, <1>3, <2>1, <2>3 DEF FirstPass
    <2>5. Remaining' = Remaining - 1
      <3>1. L'[Reserved2'] = L[Reserved2] + 1
        BY <1>2, <2>1, <2>2
      <3> QED BY <1>1, <1>3, <1>r, <2>1, <3>1, SMTT(30) DEF Remaining
    <2> QED BY <1>1, <2>1, <2>4, <2>5 DEF Phase
  <1>5. CASE /\ L[Reserved2] + 1 = 3
             /\ Reserved2 + 1 < currentExprNum
             /\ Choose([Carry EXCEPT ![Reserved2 + 1] = @ + 1],
                       Reserved2 + 1, FALSE, FALSE)
             /\ min_expr_time' = 0
    <2>1. Reserved2' = Reserved2 + 1 /\ ~enableOPT3' /\ ~useTheBest'
      BY <1>1, <1>5 DEF Choose
    <2>2. Reserved2 + 1 \in Reg
      BY <1>1, <1>5 DEF Reg
    <2>3. \A i \in Reg : L'[i] = IF i = Reserved2 + 1 THEN L[i] + 1
                                 ELSE IF i = Reserved2 THEN 0 ELSE L[i]
      <3>1. \A i \in Reg : L'[i] = [Carry EXCEPT ![Reserved2 + 1] = @ + 1][i]
        BY <1>2, <1>5 DEF Choose
      <3> QED BY <1>1, <1>2, <2>2, <3>1 DEF Carry
    <2>4. ZeroBut(L, Reserved2)' /\ L'[Reserved2'] \in 0 .. 2
      BY <1>1, <1>2, <1>3, <2>1, <2>2, <2>3 DEF ZeroBut
    <2>5. FirstPass'
      BY <1>1, <1>3, <1>5, <2>1, <2>4 DEF FirstPass
    <2>6. Remaining' = Remaining - 1
      <3>1. L'[Reserved2'] = 1 /\ L[Reserved2] = 2
        BY <1>1, <1>2, <1>3, <1>5, <2>1, <2>2, <2>3, SMTT(30) DEF ZeroBut
      <3> QED BY <1>1, <1>5, <1>r, <2>1, <3>1, SMTT(30) DEF Remaining
    <2> QED BY <1>1, <1>5, <2>1, <2>5, <2>6 DEF Phase
  <1>6. CASE /\ L[Reserved2] + 1 = 3
             /\ Reserved2 + 1 >= currentExprNum
             /\ Choose(Carry, 0, TRUE, TRUE)
             /\ min_expr_time' = 0
    <2>a. ~(0 >= currentExprNum)
      BY <1>1
    <2>1. Reserved2' = 0 /\ enableOPT3' /\ useTheBest'
      BY <2>a, <1>6 DEF Choose
    <2>2. \A i \in Reg : L'[i] = C[i]
      BY <1>1, <1>2, <1>6 DEF Choose, Reg
    <2>3. \A i \in Reg : C[i] \in 0 .. 2
      BY <1>1, <1>3, <1>6 DEF Reg
    <2>4. Between'
      BY <1>2, <2>1, <2>2, <2>3 DEF Between, UpTo2
    <2>5. SecondPass'
      BY <1>1, <1>2, <1>6, <2>1, <2>3, <2>4 DEF SecondPass, UpTo3
    <2>6. Remaining' = Remaining - 1
      <3>1. L'[Reserved2'] # 3 /\ L[Reserved2] = 2 /\ Reserved2 = currentExprNum - 1
        <4>1. 0 \in Reg
          BY <2>a, <1>1 DEF Reg
        <4>2. L'[Reserved2'] \in 0 .. 2
          BY <2>1, <2>2, <2>3, <4>1
        <4> QED BY <1>1, <1>3, <1>6, <4>2, SMTT(30)
      <3> QED BY <1>1, <1>r, <2>a, <2>1, <3>1, SMTT(30) DEF Remaining
    <2> QED BY <1>1, <2>1, <2>5, <2>6 DEF Phase
  <1> QED BY <1>4, <1>5, <1>6, Zenon DEF Vary

\* A step of the second pass.
LEMMA PassVaryOPT3 ==
  ASSUME QuartetWorkload, PassInv, TypeOK', NEW s, Repeated(s), NextCombination, VaryOPT3
  PROVE  Phase' /\ Remaining' = Remaining - 1
  <1> DEFINE L == currentExprJITLevels
             C == bestCurrentJITLevels
             levels == IF Reserved2 = 0 /\ L[0] # 3 THEN AllAt(0) ELSE L
  <1>1. /\ Reserved3 = 3 /\ Reserved2 < currentExprNum /\ enableOPT3 /\ ~useTheBest
        /\ currentStatementExecNum' # 0 /\ query' # None
        /\ currentExprNum' = currentExprNum /\ C' = C
        /\ Reserved2 \in Nat /\ currentExprNum \in Nat /\ Reserved3' = 3
        /\ L \in [Pos -> Int]
    BY DEF VaryOPT3, Swept, QuartetWorkload, PassInv, TypeOK, Repeated, best
  <1>2. Reg' = Reg /\ Reg \subseteq Pos /\ Reserved2 \in Reg
    <2>1. Reserved2 \in Reg
      BY <1>1 DEF Reg
    <2> QED BY <1>1, <2>1, RegInPos, RegSame DEF PassInv
  <1>3. SecondPass
    BY <1>1 DEF PassInv, Phase
  <1>4. CASE Between
    <2>1. Reserved2 = 0 /\ L[0] # 3 /\ 0 \in Reg
      BY <1>2, <1>4 DEF Between, UpTo2
    <2>2. \A i \in Reg : AllAt(0)[i] = 0
      BY <1>1, <1>2 DEF AllAt, Reg
    <2>3. AllAt(0) = levels /\ levels[Reserved2] # 3
      BY <2>1, <2>2
    <2>4. /\ Choose([AllAt(0) EXCEPT ![Reserved2] = 3], Reserved2, useTheBest, TRUE)
          /\ UNCHANGED min_expr_time
      <3>1. \/ /\ levels[Reserved2] # 3
               /\ Choose([levels EXCEPT ![Reserved2] = 3], Reserved2, useTheBest, TRUE)
               /\ UNCHANGED min_expr_time
            \/ levels[Reserved2] = 3
        BY DEF VaryOPT3
      <3> HIDE DEF levels
      <3> QED BY <2>3, <3>1
    <2>5. Reserved2' = 0 /\ enableOPT3' /\ ~useTheBest'
      BY <1>1, <2>1, <2>4 DEF Choose
    <2>6. \A i \in Reg : L'[i] = [AllAt(0) EXCEPT ![Reserved2] = 3][i]
      BY <1>1, <1>2, <2>4 DEF Choose
    <2>7. \A i \in Reg : L'[i] = IF i = 0 THEN 3 ELSE 0
      BY <1>2, <2>1, <2>2, <2>6, Zenon DEF AllAt
    <2>8. Digit3'
      BY <1>1, <1>2, <2>1, <2>5, <2>7 DEF Digit3, ZeroBut
    <2>9. SecondPass'
      BY <1>1, <1>2, <1>3, <2>1, <2>4, <2>5, <2>8 DEF SecondPass, UpTo3, ZeroOr3
    <2>10. Remaining' = Remaining - 1
      <3>1. L'[Reserved2'] = 3
        BY <2>1, <2>5, <2>7
      <3> QED BY <1>1, <2>1, <2>5, <3>1, SMTT(30) DEF Remaining
    <2> QED BY <1>1, <2>5, <2>9, <2>1, <2>10 DEF Phase
  <1>5. CASE Digit3
    <2>1. /\ L[Reserved2] = 3 /\ levels = L /\ ZeroBut(L, Reserved2)
          /\ min_expr_time # 0
      BY <1>5 DEF Digit3, Repeated
    <2>2. \A i \in Reg \ {Reserved2} : ZeroOr3(C, i)
      BY <1>3, <2>1 DEF SecondPass
    <2>3. CASE /\ Reserved2 + 1 < currentExprNum
               /\ Choose([L EXCEPT ![Reserved2] = 0, ![Reserved2 + 1] = 3],
                         Reserved2 + 1, FALSE, TRUE)
               /\ min_expr_time' = 0
      <3>1. Reserved2' = Reserved2 + 1 /\ enableOPT3' /\ ~useTheBest'
        BY <2>3 DEF Choose
      <3>2. Reserved2 + 1 \in Reg /\ Reserved2 + 1 # Reserved2 /\ 0 \in Reg
        BY <1>1, <2>3 DEF Reg
      <3>3. \A i \in Reg : L'[i] = IF i = Reserved2 + 1 THEN 3
                                   ELSE IF i = Reserved2 THEN 0 ELSE L[i]
        <4>1. \A i \in Reg : L'[i] = [L EXCEPT ![Reserved2] = 0, ![Reserved2 + 1] = 3][i]
          BY <1>2, <2>3 DEF Choose
        <4> QED BY <1>1, <1>2, <3>2, <4>1
      <3>4. Digit3'
        BY <1>1, <1>2, <2>1, <3>1, <3>2, <3>3 DEF Digit3, ZeroBut
      <3>5. \A i \in Reg \ {0} : ZeroOr3(C, i)
        <4>1. CASE Reserved2 = 0
          BY <2>2, <4>1
        <4>2. CASE Reserved2 >= 1
          BY <1>3, <4>2 DEF SecondPass
        <4> QED BY <1>1, <4>1, <4>2
      <3>6. Reserved2 >= 1 => ZeroOr3(C, 0)
        BY <1>1, <2>2, <3>2
      <3>7. SecondPass'
        BY <1>1, <1>2, <1>3, <2>3, <3>1, <3>4, <3>5, <3>6 DEF SecondPass, UpTo3, ZeroOr3
      <3>8. Remaining' = Remaining - 1
        <4>1. L'[Reserved2'] = 3
          BY <3>1, <3>2, <3>3
        <4> QED BY <1>1, <2>1, <2>3, <3>1, <4>1, SMTT(30) DEF Remaining
      <3> QED BY <1>1, <2>3, <3>1, <3>7, <3>8 DEF Phase
    <2>4. CASE /\ Reserved2 + 1 >= currentExprNum
               /\ Choose([L EXCEPT ![Reserved2] = 0], Reserved2 + 1, TRUE, TRUE)
               /\ min_expr_time' = 0
      <3>1. Reserved2' = Reserved2 + 1 /\ ~enableOPT3'
        BY <2>4 DEF Choose
      <3>2. \A i \in Reg : L'[i] = C[i]
        BY <1>1, <1>2, <2>4 DEF Choose, Reg
      <3>3. Unmixed(C)
        <4>1. CASE Reserved2 = 0
          <5>1. \A i, j \in Reg : i = j
            BY <1>1, <2>4, <4>1 DEF Reg
          <5> QED BY <5>1 DEF Unmixed
        <4>2. CASE Reserved2 >= 1
          <5>1. \A i \in Reg : C[i] \in {0, 3}
            BY <1>1, <1>2, <1>3, <2>2, <4>2 DEF SecondPass, ZeroOr3
          <5> QED BY <5>1 DEF Unmixed
        <4> QED BY <1>1, <4>1, <4>2
      <3>4. Done'
        BY <1>2, <1>3, <3>2, <3>3 DEF Done, SecondPass, UpTo3, Unmixed
      <3>5. Remaining' = Remaining - 1
        BY <1>1, <2>1, <2>4, <3>1, SMTT(30) DEF Remaining
      <3> QED BY <1>1, <2>4, <3>1, <3>4, <3>5 DEF Phase
    <2> QED BY <1>1, <2>1, <2>3, <2>4 DEF VaryOPT3
  <1> QED BY <1>3, <1>4, <1>5 DEF SecondPass

\* A text arrives: a new one, or the current one for another execution.
LEMMA PassReceive ==
  ASSUME QuartetWorkload, PassInv, TypeOK', NEW s \in Statements, Receive(s)
  PROVE  PassInv'
  <1> USE ConstAssumption
  <1>1. /\ conf.enableME /\ ~conf.testME
        /\ query = None /\ query' = s /\ s # None
        /\ planned' \in PlanSizes[s]
    BY DEF QuartetWorkload, PassInv, TypeOK, Receive
  <1>2. CASE NewStatement(s)
    <2>1. \A i \in Pos : currentExprJITLevels'[i] = 0
      BY <1>1, <1>2 DEF NewStatement, Overlay
    <2>2. /\ currentExprNum' = 0 /\ Reserved2' = 0 /\ Reserved3' = 0
          /\ min_expr_time' = 0 /\ min_total_time' = 0
          /\ currentStatementExecNum' = 0 /\ currentStatement' = s
      BY <1>2 DEF NewStatement, ResetSearch
    <2>3. ~enableOPT3' /\ ~useTheBest'
      BY <1>2 DEF NewStatement, ResetSearch
    <2>4. Fresh'
      BY <2>2 DEF Fresh, Reg
    <2>5. Phase'
      BY <2>2, <2>3, <2>4, SMTT(30) DEF Phase
    <2>6. planned' \in Nat
      BY SMTT(30) DEF TypeOK
    <2>7. Subject'
      BY <1>1, <2>2, <2>6 DEF Subject
    <2> QED BY <2>5, <2>7, SMTT(30) DEF PassInv
  <1>3. CASE Repeat(s)
    <2>1. /\ currentStatement = s
          /\ FirstRepeat \/ NextCombination \/ SameCombination
          /\ UNCHANGED <<currentStatement, currentExprNum, bestJITLevels,
                         bestCurrentJITLevels, min_total_time>>
      BY <1>3 DEF Repeat, best
    <2>2. currentStatementExecNum' # 0
      BY <2>1 DEF FirstRepeat, NextCombination, SameCombination
    <2>3. ~useTheBest
      BY <1>1, SMTT(30) DEF PassInv, Phase
    <2>4. Repeated(s)
      BY <1>1, <2>1, <2>2, <2>3, SMTT(30) DEF Repeated, best
    <2>5. Phase'
      BY SMTT(30), <2>1, <2>4, PassFirstRepeat, PassSame, PassSweep, PassExhausted,
         PassVary, PassVaryOPT3 DEF NextCombination
    <2>6. planned' = currentExprNum /\ currentExprNum \in PlanSizes[s]
          /\ min_total_time # 0
      BY <1>1, <2>1, SMTT(30) DEF PassInv, Subject, QuartetWorkload
    <2>7. currentExprNum \in Nat /\ Reg' = Reg
      BY <2>1, SMTT(30) DEF PassInv, TypeOK, Reg
    <2>8. Subject'
      <3>1. UpTo3(bestJITLevels)' /\ Unmixed(bestJITLevels)'
        BY <2>1, <2>6, <2>7, Zenon DEF PassInv, Subject, UpTo3, Unmixed
      <3>2. planned' \in PlanSizes[query'] /\ currentExprNum' <= planned'
        BY <1>1, <2>1, <2>6, <2>7, SMTT(30)
      <3> QED BY <1>1, <2>1, <2>2, <2>6, <3>1, <3>2, Zenon DEF Subject
    <2> QED BY <2>5, <2>8, SMTT(30) DEF PassInv
  <1> QED BY <1>1, <1>2, <1>3 DEF Receive, RepeatTest, Unmanaged

----------------------------------------------------------------------------
(* The progress of the search in the intended workload.                    *)

\* Nothing is left to try exactly when every position has been varied.
LEMMA NothingLeft ==
  ASSUME PassInv
  PROVE  /\ Remaining \in Nat
         /\ Remaining = 0 <=> Reserved3 = 3 /\ Reserved2 >= currentExprNum
  <1>1. /\ currentExprNum \in Nat /\ Reserved2 \in 0 .. currentExprNum
        /\ Reserved3 \in 0 .. 3
    BY ConstAssumption DEF PassInv, TypeOK
  <1>2. CASE Reserved3 < 3
    BY <1>1, <1>2, SMTT(30) DEF Remaining
  <1>3. CASE Reserved3 = 3 /\ Reserved2 < currentExprNum /\ ~enableOPT3
    <2>1. currentExprJITLevels[Reserved2] \in 0 .. 2
      BY <1>3 DEF PassInv, Phase, Fresh, FirstPass
    <2> QED BY <1>1, <1>3, <2>1, SMTT(30) DEF Remaining
  <1>4. CASE Reserved3 = 3 /\ Reserved2 < currentExprNum /\ enableOPT3
    BY <1>1, <1>4, SMTT(30) DEF Remaining
  <1>5. CASE Reserved3 = 3 /\ Reserved2 >= currentExprNum
    BY <1>1, <1>5, SMTT(30) DEF Remaining
  <1> QED BY <1>1, <1>2, <1>3, <1>4, <1>5

\* What a step that stays with the text does to the number of combinations
\* left, and to the best combination in force.
Uses == Remaining' = IF Due /\ Remaining # 0 THEN Remaining - 1 ELSE Remaining
Keeps == Remaining = 0 /\ (Due \/ OnBest) => OnBest'

\* The current text arrives again.
LEMMA ReceiveAdvances ==
  ASSUME QuartetWorkload, PassInv, TypeOK', NEW s \in Statements, Receive(s),
         currentStatement' = currentStatement
  PROVE  Uses /\ Keeps
  <1> USE ConstAssumption
  <1>1. conf.enableME /\ ~conf.testME /\ query = None /\ query' = s /\ s # None
    BY DEF QuartetWorkload, PassInv, TypeOK, Receive
  <1>2. Repeat(s)
    BY <1>1 DEF Receive, NewStatement, RepeatTest, Unmanaged
  <1>3. /\ currentStatement = s
        /\ FirstRepeat \/ NextCombination \/ SameCombination
        /\ UNCHANGED <<currentStatement, currentExprNum, best>>
    BY <1>2 DEF Repeat
  <1>4. Repeated(s)
    <2>1. ~useTheBest
      BY <1>1 DEF PassInv, Phase
    <2>2. currentStatementExecNum' # 0
      BY <1>3 DEF FirstRepeat, NextCombination, SameCombination
    <2> QED BY <1>1, <1>3, <2>1, <2>2 DEF Repeated
  <1>5. CASE FirstRepeat
    <2>1. ~Due /\ Fresh
      BY <1>5 DEF FirstRepeat, Due, PassInv, Phase
    <2>2. Reserved3 = 0 /\ Reserved3' = 0
      BY <1>5, <2>1 DEF Fresh, FirstRepeat, search
    <2>3. Remaining' = Remaining
      BY <1>3, <2>2, SMTT(30) DEF Remaining
    <2>4. Remaining # 0
      BY <2>2, NothingLeft
    <2> QED BY <2>1, <2>3, <2>4 DEF Uses, Keeps
  <1>6. CASE SameCombination
    <2>1. ~Due
      <3>1. currentLevelsCount \in Nat /\ conf.Reserved1 \in Nat
        BY SMTT(30) DEF PassInv, TypeOK, Config
      <3> QED BY <1>6, <3>1, SMTT(30) DEF SameCombination, Due
    <2>2. UNCHANGED <<Remaining, OnBest>>
      BY <1>3, <1>6 DEF SameCombination, search, best, Remaining, OnBest
    <2> QED BY <2>1, <2>2 DEF Uses, Keeps
  <1>7. CASE NextCombination /\ Exhausted
    <2>1. OnBest' /\ Remaining = 0 /\ Remaining' = 0
      BY <1>4, <1>7, PassExhausted
    <2> QED BY <2>1 DEF Uses, Keeps
  <1>8. CASE NextCombination /\ ~Exhausted
    <2>1. Remaining' = Remaining - 1
      BY <1>4, <1>8, PassSweep, PassVary, PassVaryOPT3 DEF NextCombination
    <2>2. Due
      BY <1>1, <1>8 DEF NextCombination, Due
    <2>3. Remaining # 0
      <3>1. ~(Reserved3 = 3 /\ Reserved2 >= currentExprNum)
        <4>1. Reserved3 < 3 \/ Reserved2 < currentExprNum
          BY <1>8, Zenon DEF NextCombination, SweepPlan, Vary, VaryOPT3
        <4>2. Reserved3 \in Nat /\ Reserved2 \in Nat /\ currentExprNum \in Nat
          BY DEF PassInv, TypeOK
        <4> QED BY <4>1, <4>2
      <3> QED BY <3>1, NothingLeft
    <2> QED BY <2>1, <2>2, <2>3 DEF Uses, Keeps
  <1> QED BY <1>3, <1>5, <1>6, <1>7, <1>8

\* A registered expression restarts nothing: it belongs to the first
\* execution, when every combination is still to come.
LEMMA AddExprKeeps ==
  ASSUME QuartetWorkload, PassInv, AddExpr
  PROVE  currentExprNum' # currentExprNum /\ Keeps
  <1> USE ConstAssumption
  <1>1. /\ query \in Statements /\ query = currentStatement /\ query # None
        /\ currentExprNum < planned /\ planned \in PlanSizes[query]
        /\ currentExprNum' = currentExprNum + 1 /\ currentExprNum \in Nat
    <2>1. query \in Statements /\ query # None
      BY SMTT(30) DEF AddExpr, QuartetWorkload
    <2>2. query = currentStatement /\ planned \in PlanSizes[query]
      BY <2>1, Zenon DEF PassInv, Subject
    <2>3. currentExprNum \in Nat
      BY SMTT(30) DEF PassInv, TypeOK
    <2> QED BY <2>1, <2>2, <2>3, Zenon DEF AddExpr
  <1>2. currentStatementExecNum = 0
    BY <1>1 DEF PassInv, Subject, QuartetWorkload, TypeOK
  <1>3. Reserved3 = 0
    BY <1>2 DEF PassInv, Phase, Fresh
  <1> QED BY <1>1, <1>3, NothingLeft DEF Keeps

\* A measured time changes no level and no position; if it is a new minimum,
\* the combination recorded is the one in force.
LEMMA MeasureKeeps ==
  ASSUME QuartetWorkload, PassInv, NEW t \in Times, ExplainOnePlan(t)
  PROVE  Uses /\ Keeps
  <1> USE ConstAssumption
  <1>1. query # None /\ conf.enableME /\ t \in Nat /\ t # 0
    BY DEF ExplainOnePlan, PassInv, QuartetWorkload, TypeOK
  <1>2. /\ RecordTotal(t)
        /\ UNCHANGED <<currentExprNum, currentExprJITLevels, Reserved2, Reserved3,
                       enableOPT3>>
    BY <1>1 DEF ExplainOnePlan
  <1>3. ~Due
    BY <1>1 DEF Due
  <1>4. Remaining' = Remaining
    BY <1>2 DEF Remaining
  <1>5. OnBest => OnBest'
    <2> SUFFICES ASSUME OnBest PROVE OnBest'
      OBVIOUS
    <2>1. CASE FasterThanAll(t)
      <3>1. \A i \in Reg : i \in Pos /\ i < currentExprNum
        BY RegInPos DEF PassInv, TypeOK, Reg
      <3>2. \A i \in Reg : bestJITLevels'[i] = currentExprJITLevels[i]
        BY <1>2, <2>1, <3>1 DEF RecordTotal
      <3> QED BY <1>1, <1>2, <2>1, <3>2 DEF OnBest, RecordTotal, Reg
    <2>2. CASE ~FasterThanAll(t)
      BY <1>2, <2>2 DEF OnBest, RecordTotal
    <2> QED BY <2>1, <2>2
  <1> QED BY <1>3, <1>4, <1>5 DEF Uses, Keeps

\* The progress of one step.
LEMMA StepAdvances ==
  ASSUME QuartetWorkload, PassInv, TypeOK', NextRepeated,
         currentStatement' = currentStatement
  PROVE  (currentExprNum' = currentExprNum => Uses) /\ Keeps
  <1>1. CASE Send
    BY <1>1, ReceiveAdvances DEF Send
  <1>2. CASE AddExpr
    BY <1>2, AddExprKeeps
  <1>3. CASE Measure
    BY <1>3, MeasureKeeps DEF Measure
  <1> QED BY <1>1, <1>2, <1>3 DEF NextRepeated

----------------------------------------------------------------------------
(* Every step is well typed, under every configuration.                    *)

\* Choose writes well-typed search state when given a well-typed combination
\* and a position that is at most the number of registered expressions.
LEMMA ChooseType ==
  ASSUME TypeOK, NEW levels \in [Pos -> Int], NEW index \in 0 .. currentExprNum,
         NEW useBest \in BOOLEAN, NEW opt3, Choose(levels, index, useBest, opt3)
  PROVE  /\ currentExprJITLevels' \in [Pos -> Int]
         /\ Reserved2' \in 0 .. currentExprNum
         /\ enableOPT3' \in BOOLEAN
         /\ useTheBest' \in BOOLEAN
  BY ConstAssumption DEF TypeOK, Choose, Pos

\* A search step keeps the search state well typed.
LEMMA CombinationType ==
  ASSUME TypeOK, SweepPlan \/ Exhausted \/ VaryOPT3 \/ Vary
  PROVE  /\ currentExprJITLevels' \in [Pos -> Int]
         /\ Reserved2' \in 0 .. currentExprNum
         /\ Reserved3' \in 0 .. 3
         /\ min_expr_time' \in Nat
         /\ enableOPT3' \in BOOLEAN
         /\ useTheBest' \in BOOLEAN
  <1> USE ConstAssumption
  <1>a. \A l \in Int : AllAt(l) \in [Pos -> Int]
    BY DEF AllAt, TypeOK
  <1>b. /\ TRUE \in BOOLEAN /\ FALSE \in BOOLEAN /\ useTheBest \in BOOLEAN
        /\ currentExprJITLevels \in [Pos -> Int]
        /\ Reserved2 \in 0 .. currentExprNum
    BY DEF TypeOK
  <1>1. CASE SweepPlan
    <2>1. (Reserved3 + 1) % 3 \in Int
      BY <1>1 DEF SweepPlan, TypeOK
    <2>2. AllAt((Reserved3 + 1) % 3) \in [Pos -> Int]
      BY <2>1, <1>a
    <2>3. Choose(AllAt((Reserved3 + 1) % 3), Reserved2, useTheBest, enableOPT3)
      BY <1>1 DEF SweepPlan
    <2>4. Reserved3' \in 0 .. 3 /\ min_expr_time' \in Nat
      BY <1>1 DEF SweepPlan, TypeOK
    <2> QED BY <2>2, <2>3, <2>4, <1>b, ChooseType
  <1>2. CASE Exhausted
    <2>1. Choose(currentExprJITLevels, Reserved2, TRUE, enableOPT3)
      BY <1>2 DEF Exhausted
    <2>2. Reserved3' \in 0 .. 3 /\ min_expr_time' \in Nat
      BY <1>2 DEF Exhausted, TypeOK
    <2> QED BY <2>1, <2>2, <1>b, ChooseType
  <1>3. CASE VaryOPT3
    <2> DEFINE levels == IF Reserved2 = 0 /\ currentExprJITLevels[0] # 3
                         THEN AllAt(0) ELSE currentExprJITLevels
    <2>1. levels \in [Pos -> Int]
      BY <1>a DEF TypeOK
    <2>2. Reserved2 + 1 \in 0 .. currentExprNum /\ Reserved2 \in Pos
      BY <1>3, SMTT(30) DEF VaryOPT3, TypeOK, Pos
    <2>3. Reserved3' \in 0 .. 3
      BY <1>3 DEF VaryOPT3, TypeOK
    <2> HIDE DEF levels
    <2>4. /\ [levels EXCEPT ![Reserved2] = 3] \in [Pos -> Int]
          /\ [levels EXCEPT ![Reserved2] = 0] \in [Pos -> Int]
      BY <2>1, <2>2
    <2>6. CASE /\ Choose([levels EXCEPT ![Reserved2] = 3], Reserved2, useTheBest, TRUE)
               /\ UNCHANGED min_expr_time
      <3>1. min_expr_time' \in Nat
        BY <2>6 DEF TypeOK
      <3>2. Choose([levels EXCEPT ![Reserved2] = 3], Reserved2, useTheBest, TRUE)
        BY <2>6
      <3>3. useTheBest' \in BOOLEAN /\ enableOPT3' \in BOOLEAN
        BY <3>2 DEF Choose, TypeOK
      <3>4. Reserved2' \in 0 .. currentExprNum
        BY <3>2 DEF Choose, TypeOK
      <3>5. currentExprJITLevels' \in [Pos -> Int]
        BY <3>2, <2>4 DEF Choose, TypeOK
      <3> QED BY <2>3, <3>1, <3>3, <3>4, <3>5
    <2>7. CASE /\ Reserved2 + 1 < currentExprNum
               /\ Choose([levels EXCEPT ![Reserved2] = 0, ![Reserved2 + 1] = 3],
                         Reserved2 + 1, FALSE, TRUE)
               /\ min_expr_time' = 0
      <3>1. Reserved2 + 1 \in Pos
        BY <2>2, <2>7 DEF TypeOK, Pos
      <3>2. [levels EXCEPT ![Reserved2] = 0, ![Reserved2 + 1] = 3] \in [Pos -> Int]
        BY <2>4, <3>1
      <3> QED BY <2>2, <2>3, <2>7, <3>2, <1>b, ChooseType
    <2>8. CASE /\ Choose([levels EXCEPT ![Reserved2] = 0], Reserved2 + 1, TRUE, TRUE)
               /\ min_expr_time' = 0
      BY <2>2, <2>3, <2>4, <2>8, <1>b, ChooseType
    <2> QED BY <1>3, <2>6, <2>7, <2>8 DEF VaryOPT3, levels
  <1>4. CASE Vary
    <2>1. /\ Reserved2 + 1 \in 0 .. currentExprNum
          /\ 0 \in 0 .. currentExprNum
          /\ Reserved2 \in Pos
      BY <1>4, SMTT(30) DEF Vary, TypeOK, Pos
    <2>2. Reserved3' \in 0 .. 3
      BY <1>4 DEF Vary, TypeOK
    <2>3. /\ Carry \in [Pos -> Int]
          /\ [currentExprJITLevels EXCEPT ![Reserved2] =
                currentExprJITLevels[Reserved2] + 1] \in [Pos -> Int]
      BY <2>1 DEF Carry, TypeOK
    <2>4. CASE /\ Choose([currentExprJITLevels EXCEPT ![Reserved2] =
                            currentExprJITLevels[Reserved2] + 1],
                         Reserved2, useTheBest, FALSE)
               /\ UNCHANGED min_expr_time
      <3>1. min_expr_time' \in Nat
        BY <2>4 DEF TypeOK
      <3>2. Choose([currentExprJITLevels EXCEPT ![Reserved2] =
                      currentExprJITLevels[Reserved2] + 1],
                   Reserved2, useTheBest, FALSE)
        BY <2>4
      <3>3. useTheBest' \in BOOLEAN /\ enableOPT3' \in BOOLEAN
        BY <3>2 DEF Choose, TypeOK
      <3>4. Reserved2' \in 0 .. currentExprNum
        BY <3>2 DEF Choose, TypeOK
      <3>5. currentExprJITLevels' \in [Pos -> Int]
        BY <3>2, <2>3 DEF Choose, TypeOK
      <3> QED BY <2>2, <3>1, <3>3, <3>4, <3>5
    <2>5. CASE /\ Reserved2 + 1 < currentExprNum
               /\ Choose([Carry EXCEPT ![Reserved2 + 1] = @ + 1],
                         Reserved2 + 1, FALSE, FALSE)
               /\ min_expr_time' = 0
      <3>1. Reserved2 + 1 \in Pos
        BY <2>1, <2>5 DEF TypeOK, Pos
      <3>2. [Carry EXCEPT ![Reserved2 + 1] = @ + 1] \in [Pos -> Int]
        BY <2>3, <3>1
      <3> QED BY <2>1, <2>2, <2>5, <3>2, <1>b, ChooseType
    <2>6. CASE /\ Choose(Carry, 0, TRUE, TRUE)
               /\ min_expr_time' = 0
      BY <2>1, <2>2, <2>3, <2>6, <1>b, ChooseType
    <2> QED BY <1>4, <2>4, <2>5, <2>6 DEF Vary
  <1> QED BY <1>1, <1>2, <1>3, <1>4

\* Every step of the backend keeps TypeOK.
LEMMA TypeStep == TypeOK /\ [Next]_vars => TypeOK'
  <1> SUFFICES ASSUME TypeOK, [Next]_vars PROVE TypeOK'
    OBVIOUS
  <1>1. ASSUME NEW s \in Statements, Receive(s) PROVE TypeOK'
    <2>1. /\ conf' \in Configs /\ query' \in Statements \cup {None}
          /\ planned' \in 0 .. EXPR_MAX_NUM
      BY <1>1, ConstAssumption DEF Receive, TypeOK
    <2>2. CASE NewStatement(s)
      <3>1. currentExprJITLevels' \in [Pos -> Int]
        <4>1. currentExprJITLevels' = Overlay(s, [i \in Pos |-> 0])
          BY <2>2 DEF NewStatement
        <4>2. [i \in Pos |-> 0] \in [Pos -> Int]
          OBVIOUS
        <4> QED BY <1>1, <4>1, <4>2, OverlayType
      <3>2. bestJITLevels' \in [Pos -> Int] /\ bestCurrentJITLevels' \in [Pos -> Int]
        BY <2>2, ConstAssumption DEF NewStatement
      <3>3. enableOPT3' \in BOOLEAN /\ useTheBest' \in BOOLEAN
        BY <2>2 DEF NewStatement, ResetSearch
      <3>4. /\ currentExprNum' \in 0 .. EXPR_MAX_NUM
            /\ Reserved2' \in 0 .. currentExprNum' /\ Reserved3' \in 0 .. 3
            /\ min_total_time' \in Nat /\ min_expr_time' \in Nat
            /\ currentStatement' \in Statements \cup {None}
            /\ currentStatementExecNum' \in 0 .. 2 /\ currentLevelsCount' \in Nat
        BY <1>1, <2>2, ConstAssumption DEF NewStatement, ResetSearch
      <3> QED BY <2>1, <3>1, <3>2, <3>3, <3>4 DEF TypeOK
    <2>3. CASE Repeat(s)
      <3>1. /\ currentStatement' \in Statements \cup {None}
            /\ currentExprNum' = currentExprNum /\ currentExprNum \in 0 .. EXPR_MAX_NUM
            /\ min_total_time' \in Nat
        BY <2>3 DEF Repeat, best, TypeOK
      <3>2. bestJITLevels' \in [Pos -> Int] /\ bestCurrentJITLevels' \in [Pos -> Int]
        BY <2>3 DEF Repeat, best, TypeOK
      <3>3. CASE FirstRepeat
        <4>1. currentExprJITLevels' \in [Pos -> Int]
          BY <3>3 DEF FirstRepeat, AllAt, TypeOK
        <4>2. /\ min_expr_time' \in Nat /\ Reserved2' \in 0 .. currentExprNum'
              /\ Reserved3' \in 0 .. 3
              /\ enableOPT3' \in BOOLEAN /\ useTheBest' \in BOOLEAN
          BY <3>1, <3>3 DEF FirstRepeat, search, TypeOK
        <4>3. currentStatementExecNum' \in 0 .. 2 /\ currentLevelsCount' \in Nat
          BY <3>3 DEF FirstRepeat, TypeOK
        <4> QED BY <2>1, <3>1, <3>2, <4>1, <4>2, <4>3 DEF TypeOK
      <3>4. CASE NextCombination
        <4>1. SweepPlan \/ Exhausted \/ VaryOPT3 \/ Vary
          BY <3>4 DEF NextCombination
        <4>2. currentStatementExecNum' \in 0 .. 2 /\ currentLevelsCount' \in Nat
          BY <3>4 DEF NextCombination
        <4> QED BY <2>1, <3>1, <3>2, <4>1, <4>2, CombinationType DEF TypeOK
      <3>5. CASE SameCombination
        <4>1. currentExprJITLevels' \in [Pos -> Int]
          BY <3>5 DEF SameCombination, TypeOK
        <4>2. /\ min_expr_time' \in Nat /\ Reserved2' \in 0 .. currentExprNum'
              /\ Reserved3' \in 0 .. 3
              /\ enableOPT3' \in BOOLEAN /\ useTheBest' \in BOOLEAN
          BY <3>1, <3>5 DEF SameCombination, search, TypeOK
        <4>3. currentStatementExecNum' \in 0 .. 2 /\ currentLevelsCount' \in Nat
          BY <3>5 DEF SameCombination, TypeOK
        <4> QED BY <2>1, <3>1, <3>2, <4>1, <4>2, <4>3 DEF TypeOK
      <3> QED BY <2>3, <3>3, <3>4, <3>5 DEF Repeat
    <2>4. CASE RepeatTest(s)
      <3>1. currentExprJITLevels' \in [Pos -> Int]
        <4>1. currentExprJITLevels' = Overlay(s, currentExprJITLevels)
          BY <2>4 DEF RepeatTest
        <4>2. currentExprJITLevels \in [Pos -> Int]
          BY DEF TypeOK
        <4> QED BY <1>1, <4>1, <4>2, OverlayType
      <3> QED BY <2>1, <2>4, <3>1 DEF RepeatTest, search, best, TypeOK
    <2>5. CASE Unmanaged
      BY <2>1, <2>5 DEF Unmanaged, search, best, TypeOK
    <2> QED BY <1>1, <2>2, <2>3, <2>4, <2>5 DEF Receive
  <1>2. CASE AddExpr
    <2>1. currentExprNum \in Pos /\ currentExprNum' \in 0 .. EXPR_MAX_NUM
      BY <1>2, ConstAssumption DEF AddExpr, TypeOK, Pos
    <2>2. currentExprJITLevels' \in [Pos -> Int]
      <3>1. /\ currentExprJITLevels \in [Pos -> Int]
            /\ \/ currentExprJITLevels' = currentExprJITLevels
               \/ currentExprJITLevels' = [currentExprJITLevels EXCEPT ![currentExprNum] = 0]
        BY <1>2 DEF AddExpr, TypeOK
      <3> QED BY <3>1
    <2>3. Reserved2' \in 0 .. currentExprNum'
      BY <1>2 DEF AddExpr, search, TypeOK
    <2> QED BY <1>2, <2>1, <2>2, <2>3 DEF AddExpr, search, best, TypeOK
  <1>3. ASSUME NEW t \in Times, ExplainOnePlan(t) PROVE TypeOK'
    <2>1. CASE conf.enableME
      <3>a. RecordTotal(t) /\ RecordPosition(t) /\ useTheBest' \in BOOLEAN
        BY <1>3, <2>1 DEF ExplainOnePlan
      <3>1. min_total_time' \in Nat /\ bestJITLevels' \in [Pos -> Int]
        BY <1>3, <3>a, ConstAssumption DEF RecordTotal, TypeOK
      <3>2. min_expr_time' \in Nat /\ bestCurrentJITLevels' \in [Pos -> Int]
        BY <1>3, <3>a, ConstAssumption DEF RecordPosition, TypeOK
      <3>3. /\ conf' = conf /\ planned' = planned /\ query' = None
            /\ currentStatement' = currentStatement /\ currentExprNum' = currentExprNum
            /\ currentExprJITLevels' = currentExprJITLevels
            /\ Reserved2' = Reserved2 /\ Reserved3' = Reserved3 /\ enableOPT3' = enableOPT3
            /\ currentStatementExecNum' = currentStatementExecNum
            /\ currentLevelsCount' = currentLevelsCount
        BY <1>3 DEF ExplainOnePlan
      <3> QED BY <3>a, <3>1, <3>2, <3>3 DEF TypeOK
    <2>2. CASE ~conf.enableME
      BY <1>3, <2>2 DEF ExplainOnePlan, best, TypeOK
    <2> QED BY <2>1, <2>2
  <1>4. CASE Complete
    BY <1>4 DEF Complete, session, search, best, TypeOK
  <1>5. CASE Abort
    BY <1>5 DEF Abort, session, search, best, TypeOK
  <1>6. CASE Reload
    BY <1>6 DEF Reload, session, search, best, TypeOK
  <1>7. CASE UNCHANGED vars
    BY <1>7 DEF vars, search, best, TypeOK
  <1> QED BY <1>1, <1>2, <1>3, <1>4, <1>5, <1>6, <1>7 DEF Next, Send, Measure

\* The initial values of the globals (globals.c) are well typed.
LEMMA InitType == Init => TypeOK
  <1> SUFFICES ASSUME Init PROVE TypeOK
    OBVIOUS
  <1>1. enableOPT3 \in BOOLEAN /\ useTheBest \in BOOLEAN
    BY DEF Init
  <1>2. 0 \in 0 .. EXPR_MAX_NUM
    BY ConstAssumption
  <1> QED BY <1>1, <1>2 DEF Init, TypeOK

\* The globals of exec_simple_query and ExplainOnePlan stay well typed; in
\* particular Reserved2 never exceeds the number of registered expressions,
\* so it is a valid index whenever the search uses it.
THEOREM TypeCorrect == Spec => []TypeOK
  BY InitType, TypeStep, PTL DEF Spec

----------------------------------------------------------------------------
(* The theorems on the passes.                                             *)

\* The backend starts with nothing recorded.
LEMMA PassInit ==
  ASSUME QuartetWorkload, Init
  PROVE  PassInv
  <1>1. TypeOK
    BY InitType
  <1>2. Subject
    BY DEF Init, Subject
  <1>3. Reg = {}
    BY DEF Init, Reg
  <1>4. Fresh
    BY <1>3 DEF Init, Fresh
  <1>5. Phase
    BY <1>4 DEF Init, Phase
  <1> QED BY <1>1, <1>2, <1>5 DEF PassInv

\* Every step of the workload preserves the invariant of the passes.
LEMMA PassStep ==
  ASSUME QuartetWorkload, PassInv, [NextRepeated]_vars
  PROVE  PassInv'
  <1>1. TypeOK'
    BY TypeStep DEF PassInv, NextRepeated, Next
  <1>2. CASE Send
    BY <1>1, <1>2, PassReceive DEF Send
  <1>3. CASE AddExpr
    BY <1>1, <1>3, PassAddExpr
  <1>4. CASE Measure
    BY <1>1, <1>4, PassMeasure DEF Measure
  <1>5. CASE UNCHANGED vars
    <2>1. Reg' = Reg
      BY <1>5, RegSame, SMTT(30) DEF vars
    <2>2. Phase'
      BY <1>5, <2>1, ZenonT(30) DEF PassInv, Phase, vars, search, best, Fresh, Sweeping, FirstPass,
         SecondPass, Between, Digit3, Done, UpTo2, UpTo3, Unmixed, ZeroBut, ZeroOr3
    <2>3. Subject'
      BY <1>5, <2>1 DEF PassInv, Subject, vars, best, UpTo3, Unmixed
    <2> QED BY <1>1, <2>2, <2>3 DEF PassInv
  <1> QED BY <1>2, <1>3, <1>4, <1>5 DEF NextRepeated

\* The invariant implies what the runs check.
LEMMA PassGood ==
  ASSUME QuartetWorkload, PassInv
  PROVE  LevelsDefined /\ NeverMixed /\ OneDigit
  <1>1. LevelsDefined
    BY PhaseGood DEF LevelsDefined, JITLevels, UpTo3, Reg
  <1>2. NeverMixed
    BY PhaseGood DEF NeverMixed, Unmixed, Reg
  <1>3. OneDigit
    <2> SUFFICES ASSUME query # None, Swept, ~useTheBest, currentLevelsCount = 0,
                        currentStatementExecNum = 2, Reserved2 < currentExprNum
                 PROVE  ZeroBut(currentExprJITLevels, Reserved2)
      BY SMTT(30) DEF OneDigit, ZeroBut, Reg
    <2>1. Reserved3 = 3
      BY DEF Swept, QuartetWorkload, PassInv, TypeOK
    <2>2. CASE enableOPT3
      <3>1. Between \/ Digit3
        BY <2>2 DEF PassInv, Phase, SecondPass
      <3>2. ~Between
        BY DEF Between
      <3> QED BY <3>1, <3>2 DEF Digit3
    <2>3. CASE ~enableOPT3
      BY <2>1, <2>3 DEF PassInv, Phase, FirstPass
    <2> QED BY <2>2, <2>3
  <1> QED BY <1>1, <1>2, <1>3

LEMMA PassAlways ==
  ASSUME QuartetWorkload
  PROVE  SpecRepeated => []PassInv
  BY PassInit, PassStep, PTL DEF SpecRepeated

\* For any number of texts, expressions, times and repetitions, the search of
\* the intended workload only puts levels 0 to 3 in force (exec_simple_query,
\* postgres.c 1285-1408, with ExplainOnePlan, explain.c 695-726).
THEOREM PassesDefined == ASSUME QuartetWorkload PROVE SpecRepeated => []LevelsDefined
  BY PassAlways, PassGood, PTL

\* In the intended workload exec_simple_query never puts level 3 in force
\* together with level 1 or 2, for any number of texts and expressions.
THEOREM PassesUnmixed == ASSUME QuartetWorkload PROVE SpecRepeated => []NeverMixed
  BY PassAlways, PassGood, PTL

\* In the passes over single positions exec_simple_query varies one position
\* at a time against the best combination, for any number of expressions.
THEOREM PassesOneDigit == ASSUME QuartetWorkload PROVE SpecRepeated => []OneDigit
  BY PassAlways, PassGood, PTL

\* For any number of texts, expressions, times and repetitions, every execution
\* that exec_simple_query (postgres.c 1301-1403) moves to another combination
\* uses up one of the combinations left, and no other step of the text changes
\* their number.
THEOREM PassesAdvance == ASSUME QuartetWorkload PROVE SpecRepeated => SearchAdvances
  <1>1. ASSUME PassInv, PassInv', [NextRepeated]_vars
        PROVE  [currentStatement' = currentStatement /\ currentExprNum' = currentExprNum =>
                  Remaining' = IF Due /\ Remaining # 0 THEN Remaining - 1 ELSE Remaining]_vars
    BY <1>1, StepAdvances DEF PassInv, Uses
  <1> QED BY <1>1, PassAlways, PTL DEF SpecRepeated, SearchAdvances

\* Once no combination is left, exec_simple_query puts the fastest combination
\* measured in force at the next execution, and it stays in force while the
\* text does, whatever ExplainOnePlan measures.
THEOREM PassesKeepBest == ASSUME QuartetWorkload PROVE SpecRepeated => BestStays
  <1>1. ASSUME PassInv, PassInv', [NextRepeated]_vars
        PROVE  [currentStatement' = currentStatement /\ Remaining = 0 /\ (Due \/ OnBest)
                  => OnBest']_vars
    BY <1>1, StepAdvances DEF PassInv, Keeps
  <1> QED BY <1>1, PassAlways, PTL DEF SpecRepeated, BestStays

----------------------------------------------------------------------------
(* The recorded best is the fastest combination measured.                  *)

\* BestIsFastest with what its induction needs: well-typed globals and
\* positive times in the history.
FastestInv ==
  /\ TypeOK
  /\ \A m \in measured : m[2] \in Nat \ {0}
  /\ BestIsFastest

\* A step that changes neither the history nor the recorded best.
LEMMA FastestUnchanged ==
  ASSUME FastestInv, TypeOK', UNCHANGED <<measured, min_total_time, bestJITLevels>>
  PROVE  FastestInv'
  BY DEF FastestInv, BestIsFastest

\* Every step of the backend keeps FastestInv.
LEMMA FastestStep == FastestInv /\ [HNext]_hvars => FastestInv'
  <1> SUFFICES ASSUME FastestInv, [HNext]_hvars PROVE FastestInv'
    OBVIOUS
  <1> USE ConstAssumption
  <1>0. TypeOK'
    <2>1. [Next]_vars
      BY DEF HNext, HSend, HMeasure, HOther, Next, Measure, hvars
    <2> QED BY <2>1, TypeStep DEF FastestInv
  <1>1. CASE HSend
    <2>1. PICK s \in Statements : Receive(s)
      BY <1>1 DEF HSend, Send
    <2>2. CASE NewStatement(s)
      <3>1. min_total_time' = 0 /\ measured' = {}
        BY <1>1, <2>2 DEF HSend, NewStatement, ResetSearch
      <3> QED BY <1>0, <3>1 DEF FastestInv, BestIsFastest
    <2>3. CASE ~NewStatement(s)
      <3>1. UNCHANGED <<currentStatement, min_total_time, bestJITLevels>>
        BY <2>1, <2>3 DEF Receive, Repeat, RepeatTest, Unmanaged, best
      <3>2. UNCHANGED measured
        BY <1>1, <3>1 DEF HSend
      <3> QED BY <1>0, <3>1, <3>2, FastestUnchanged
    <2> QED BY <2>2, <2>3
  <1>2. CASE HMeasure
    <2>1. PICK t \in Times :
            /\ ExplainOnePlan(t)
            /\ measured' = IF conf.enableME THEN measured \cup {<<Combination, t>>}
                           ELSE measured
      BY <1>2 DEF HMeasure
    <2>2. CASE ~conf.enableME
      <3>1. UNCHANGED <<measured, min_total_time, bestJITLevels>>
        BY <2>1, <2>2 DEF ExplainOnePlan, best
      <3> QED BY <1>0, <3>1, FastestUnchanged
    <2>3. CASE conf.enableME
      <3> DEFINE new == <<Combination, t>>
      <3>1. measured' = measured \cup {new} /\ RecordTotal(t) /\ t \in Nat \ {0}
        BY <2>1, <2>3 DEF ExplainOnePlan
      <3>2. new[1] = Combination /\ new[2] = t /\ new \in measured'
        BY <3>1
      <3>3. \A m \in measured' : m[2] \in Nat \ {0}
        BY <3>1, <3>2 DEF FastestInv
      <3> HIDE DEF new
      <3>4. CASE FasterThanAll(t)
        <4>1. /\ min_total_time' = t
              /\ \A i \in 0 .. currentExprNum - 1 :
                   bestJITLevels'[i] = currentExprJITLevels[i]
          BY <3>1, <3>4 DEF RecordTotal, FastestInv, TypeOK, Pos
        <4>2. \A i \in DOMAIN new[1] : bestJITLevels'[i] = new[1][i]
          BY <3>2, <4>1 DEF Combination
        <4>3. \A m \in measured' : min_total_time' <= m[2]
          BY <3>1, <3>2, <3>3, <3>4, <4>1 DEF FasterThanAll, FastestInv, BestIsFastest, TypeOK
        <4> QED BY <1>0, <3>1, <3>2, <3>3, <4>1, <4>2, <4>3 DEF FastestInv, BestIsFastest
      <3>5. CASE ~FasterThanAll(t)
        <4>1. UNCHANGED <<min_total_time, bestJITLevels>> /\ min_total_time # 0
              /\ min_total_time <= t
          BY <3>1, <3>5 DEF RecordTotal, FasterThanAll, FastestInv, TypeOK
        <4>2. \A m \in measured' : min_total_time' <= m[2]
          BY <3>1, <3>2, <4>1 DEF FastestInv, BestIsFastest
        <4>3. PICK m \in measured : /\ m[2] = min_total_time
                                    /\ \A i \in DOMAIN m[1] : bestJITLevels[i] = m[1][i]
          BY <4>1 DEF FastestInv, BestIsFastest
        <4>4. m \in measured' /\ m[2] = min_total_time'
              /\ \A i \in DOMAIN m[1] : bestJITLevels'[i] = m[1][i]
          BY <3>1, <4>1, <4>3
        <4> QED BY <1>0, <3>2, <3>3, <4>1, <4>2, <4>4 DEF FastestInv, BestIsFastest
      <3> QED BY <3>4, <3>5
    <2> QED BY <2>2, <2>3
  <1>3. CASE HOther
    <2>1. UNCHANGED <<measured, min_total_time, bestJITLevels>>
      BY <1>3 DEF HOther, AddExpr, Complete, Abort, Reload, session, best
    <2> QED BY <1>0, <2>1, FastestUnchanged
  <1>4. CASE UNCHANGED hvars
    BY <1>0, <1>4, FastestUnchanged DEF hvars, vars, best
  <1> QED BY <1>1, <1>2, <1>3, <1>4 DEF HNext

\* Whatever is cancelled, reloaded or replanned between the runs of a text,
\* bestJITLevels is the level combination of its fastest EXPLAIN run, and
\* min_total_time the time of that run.
THEOREM RecordedBestIsFastest == HSpec => []BestIsFastest
  <1>1. HInit => FastestInv
    <2> SUFFICES ASSUME HInit PROVE FastestInv
      OBVIOUS
    <2>1. TypeOK
      BY InitType DEF HInit
    <2> QED BY <2>1 DEF HInit, Init, FastestInv, BestIsFastest
  <1>2. FastestInv => BestIsFastest
    BY DEF FastestInv
  <1> QED BY <1>1, <1>2, FastestStep, PTL DEF HSpec
============================================================================
