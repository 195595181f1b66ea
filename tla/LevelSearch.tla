---------------------------- MODULE LevelSearch ----------------------------
(***************************************************************************)
(* The per-statement search for expression JIT levels of one backend.      *)
(*                                                                         *)
(* exec_simple_query (tcop/postgres.c) keeps, for the last statement text, *)
(* one JIT level per expression of its plan: 0 interpret, 1 compile, 2     *)
(* compile and inline, 3 compile, inline and optimise.  Each time the same *)
(* text arrives again it moves to the next combination of levels;          *)
(* ExplainOnePlan (commands/explain.c) feeds the measured time back.       *)
(*                                                                         *)
(* A query is three steps, because it can fail between them: the prologue  *)
(* of exec_simple_query (Receive), the registration of its expressions by  *)
(* jit_compile_expr (AddExpr), and its end (ExplainOnePlan for an EXPLAIN  *)
(* statement, Complete for any other, Abort for an error).  The globals    *)
(* are private to the backend process, so one session is the whole story.  *)
(***************************************************************************)
EXTENDS Integers

CONSTANTS
  EXPR_MAX_NUM,   \* length of the level arrays
  Statements,     \* statement texts, up to strcasecmp
  ExprStmts,      \* those whose first word sets containExpr
  ExplainStmts,   \* those that reach ExplainOnePlan
  PlanSizes,      \* [Statements -> set of lengths of the expression list]
  FileLevels,     \* [Statements -> what levelsFile assigns to positions]
  Configs,        \* the settings the configuration file may hold
  Times,          \* execution times ExplainOnePlan may measure
  Garbage,        \* what freshly malloc'ed memory may contain
  MaxLevel,       \* bound on a level that is only ever incremented
  None            \* no statement (a NULL currentStatement, an idle backend)

Pos == 0 .. EXPR_MAX_NUM - 1

JITLevels == 0 .. 3

\* One setting of the parameters the search reads.
Config == [enableME: BOOLEAN, testME: BOOLEAN, enableQuartet: BOOLEAN,
           Reserved1: Nat]

ASSUME ConstAssumption ==
  /\ EXPR_MAX_NUM \in Nat \ {0}
  /\ ExprStmts \subseteq Statements
  /\ ExplainStmts \subseteq Statements
  /\ None \notin Statements
  /\ PlanSizes \in [Statements -> SUBSET (0 .. EXPR_MAX_NUM)]
  /\ \A s \in Statements :
       /\ DOMAIN FileLevels[s] \subseteq Pos
       /\ \A i \in DOMAIN FileLevels[s] : FileLevels[s][i] \in JITLevels
  /\ Configs \subseteq Config
  /\ Times \subseteq Nat \ {0}
  /\ Garbage \subseteq Int
  /\ MaxLevel \in Nat /\ MaxLevel >= 3

VARIABLES
  conf,                 \* current values of the configuration parameters
  query,                \* the text being executed, None between queries
  planned,              \* length the expression list reaches in this run
  currentStatement, currentExprNum, currentExprJITLevels,
  bestJITLevels, bestCurrentJITLevels,
  min_total_time, min_expr_time,      \* 0: nothing measured yet
  Reserved2,            \* position whose level is being varied
  Reserved3,            \* progress of the sweep of whole-plan levels
  enableOPT3, useTheBest,
  currentStatementExecNum,  \* 0, 1, or 2 for more: only = 1 is ever tested
  currentLevelsCount

search == <<min_expr_time, Reserved2, Reserved3, enableOPT3, useTheBest>>
best   == <<bestJITLevels, bestCurrentJITLevels, min_total_time>>
vars   == <<conf, query, planned, currentStatement, currentExprNum,
            currentExprJITLevels, search, best, currentStatementExecNum,
            currentLevelsCount>>

Init ==
  /\ conf \in Configs
  /\ query = None
  /\ planned = 0
  /\ currentStatement = None
  /\ currentExprNum = 0
  /\ currentExprJITLevels = [i \in Pos |-> 0]
  /\ bestJITLevels = [i \in Pos |-> 0]
  /\ bestCurrentJITLevels = [i \in Pos |-> 0]
  /\ min_total_time = 0 /\ min_expr_time = 0
  /\ Reserved2 = 0 /\ Reserved3 = 0
  /\ enableOPT3 = FALSE /\ useTheBest = FALSE
  /\ currentStatementExecNum = 0 /\ currentLevelsCount = 0

----------------------------------------------------------------------------
(* The prologue of exec_simple_query.                                      *)

\* Every registered position at the same level; the others keep theirs.
AllAt(level) ==
  [i \in Pos |-> IF i < currentExprNum THEN level ELSE currentExprJITLevels[i]]

\* The levels in force after test mode has read levelsFile for s.
Overlay(s, levels) ==
  [i \in Pos |-> IF conf.testME /\ i \in DOMAIN FileLevels[s]
                 THEN FileLevels[s][i] ELSE levels[i]]

\* The tail of the search step: when useTheBest is set, the combination just
\* chosen is replaced by a recorded one.
Choose(levels, index, useBest, opt3) ==
  /\ Reserved2' = index
  /\ useTheBest' = useBest
  /\ enableOPT3' = (opt3 /\ ~(useBest /\ index >= currentExprNum))
  /\ currentExprJITLevels' =
       [i \in Pos |->
          IF ~useBest \/ i >= currentExprNum THEN levels[i]
          ELSE IF index >= currentExprNum /\ ~opt3 THEN bestJITLevels[i]
          ELSE bestCurrentJITLevels[i]]

\* Quartet: the whole plan at level 1, then 2, then 0.
SweepPlan ==
  /\ conf.enableQuartet /\ Reserved3 < 3
  /\ Reserved3' = Reserved3 + 1
  /\ Choose(AllAt((Reserved3 + 1) % 3), Reserved2, useTheBest, enableOPT3)
  /\ UNCHANGED min_expr_time

Swept == ~(conf.enableQuartet /\ Reserved3 < 3)

\* Seeded fault: the last combination tried is kept instead of the best.
ExhaustedKeep ==
  /\ Swept /\ Reserved2 >= currentExprNum
  /\ Choose(currentExprJITLevels, Reserved2, useTheBest, enableOPT3)
  /\ UNCHANGED <<min_expr_time, Reserved3>>

\* Every position has been varied: execute with the best combination.
Exhausted ==
  /\ Swept /\ Reserved2 >= currentExprNum
  /\ Choose(currentExprJITLevels, Reserved2, TRUE, enableOPT3)
  /\ UNCHANGED <<min_expr_time, Reserved3>>

\* Second pass: position Reserved2 at level 3, then the next position.
VaryOPT3 ==
  /\ Swept /\ Reserved2 < currentExprNum /\ enableOPT3
  /\ LET levels == IF Reserved2 = 0 /\ currentExprJITLevels[0] # 3
                   THEN AllAt(0) ELSE currentExprJITLevels
     IN \/ /\ levels[Reserved2] # 3
           /\ Choose([levels EXCEPT ![Reserved2] = 3], Reserved2, useTheBest, TRUE)
           /\ UNCHANGED min_expr_time
        \/ /\ levels[Reserved2] = 3 /\ Reserved2 + 1 < currentExprNum
           /\ Choose([levels EXCEPT ![Reserved2] = 0, ![Reserved2 + 1] = 3],
                     Reserved2 + 1, FALSE, TRUE)
           /\ min_expr_time' = 0
        \/ /\ levels[Reserved2] = 3 /\ Reserved2 + 1 >= currentExprNum
           /\ Choose([levels EXCEPT ![Reserved2] = 0], Reserved2 + 1, TRUE, TRUE)
           /\ min_expr_time' = 0
  /\ UNCHANGED Reserved3

\* Seeded fault: the finished position is not set back to 0.
CarryOnly == currentExprJITLevels

\* The position just finished goes back to the interpreter.
Carry == [currentExprJITLevels EXCEPT ![Reserved2] = 0]

\* First pass: position Reserved2 at level 1, at level 2, then the next one.
Vary ==
  /\ Swept /\ Reserved2 < currentExprNum /\ ~enableOPT3
  /\ LET level == currentExprJITLevels[Reserved2] + 1
     IN \/ /\ level # 3 /\ level <= MaxLevel
           /\ Choose([currentExprJITLevels EXCEPT ![Reserved2] = level],
                     Reserved2, useTheBest, FALSE)
           /\ UNCHANGED min_expr_time
        \/ /\ level = 3 /\ Reserved2 + 1 < currentExprNum
           /\ Choose([Carry EXCEPT ![Reserved2 + 1] = @ + 1],
                     Reserved2 + 1, FALSE, FALSE)
           /\ min_expr_time' = 0
        \/ /\ level = 3 /\ Reserved2 + 1 >= currentExprNum
           /\ Choose(Carry, 0, TRUE, TRUE)
           /\ min_expr_time' = 0
  /\ UNCHANGED Reserved3

\* Seeded faults: the position, or the fastest time, outlives its text.
ResetSearchNotPosition ==
  /\ min_total_time' = 0 /\ min_expr_time' = 0
  /\ Reserved3' = 0 /\ UNCHANGED Reserved2
  /\ enableOPT3' = FALSE /\ useTheBest' = FALSE
ResetSearchNotTime ==
  /\ min_expr_time' = 0 /\ UNCHANGED min_total_time
  /\ Reserved2' = 0 /\ Reserved3' = 0
  /\ enableOPT3' = FALSE /\ useTheBest' = FALSE

ResetSearch ==
  /\ min_total_time' = 0 /\ min_expr_time' = 0
  /\ Reserved2' = 0 /\ Reserved3' = 0
  /\ enableOPT3' = FALSE /\ useTheBest' = FALSE

\* Another text: forget the search and start from the interpreter.  The best
\* arrays are malloc'ed and not cleared.
NewStatement(s) ==
  /\ currentStatement # s
  /\ currentStatement' = s
  /\ currentExprNum' = 0
  /\ currentExprJITLevels' = Overlay(s, [i \in Pos |-> 0])
  /\ bestJITLevels' \in [Pos -> Garbage]
  /\ bestCurrentJITLevels' \in [Pos -> Garbage]
  /\ ResetSearch
  /\ currentStatementExecNum' = 0 /\ currentLevelsCount' = 0

\* The second execution of a text: everything interpreted.
FirstRepeat ==
  /\ currentStatementExecNum = 0
  /\ currentStatementExecNum' = 1
  /\ currentExprJITLevels' = AllAt(0)
  /\ currentLevelsCount' = currentLevelsCount + 1
  /\ UNCHANGED search

\* A later execution that moves to another combination.
NextCombination ==
  /\ currentStatementExecNum # 0
  /\ currentStatementExecNum' = 2
  /\ currentLevelsCount >= conf.Reserved1
  /\ SweepPlan \/ Exhausted \/ VaryOPT3 \/ Vary
  /\ currentLevelsCount' = 0

\* A later execution that repeats the combination, to average its time.
SameCombination ==
  /\ currentStatementExecNum # 0
  /\ currentStatementExecNum' = 2
  /\ currentLevelsCount < conf.Reserved1
  /\ currentLevelsCount' = currentLevelsCount + 1
  /\ UNCHANGED <<currentExprJITLevels, search>>

\* The same text again, search on.
Repeat(s) ==
  /\ currentStatement = s /\ ~conf.testME
  /\ FirstRepeat \/ NextCombination \/ SameCombination
  /\ UNCHANGED <<currentStatement, currentExprNum, best>>

\* The same text again in test mode: only levelsFile is read again.
RepeatTest(s) ==
  /\ currentStatement = s /\ conf.testME
  /\ currentExprJITLevels' = Overlay(s, currentExprJITLevels)
  /\ UNCHANGED <<currentStatement, currentExprNum, search, best,
                 currentStatementExecNum, currentLevelsCount>>

Unmanaged ==
  /\ ~conf.enableME
  /\ UNCHANGED <<currentStatement, currentExprNum, currentExprJITLevels,
                 search, best, currentStatementExecNum, currentLevelsCount>>

Receive(s) ==
  /\ query = None
  /\ query' = s
  /\ planned' \in PlanSizes[s]
  /\ \/ conf.enableME /\ (NewStatement(s) \/ Repeat(s) \/ RepeatTest(s))
     \/ Unmanaged
  /\ UNCHANGED conf

----------------------------------------------------------------------------
(* Execution.                                                              *)

\* jit_compile_expr meets an expression it has no entry for.
AddExpr ==
  /\ query \in ExprStmts /\ conf.enableME
  /\ currentExprNum < planned
  /\ currentExprNum' = currentExprNum + 1
  /\ currentExprJITLevels' =
       IF conf.testME THEN currentExprJITLevels
       ELSE [currentExprJITLevels EXCEPT ![currentExprNum] = 0]
  /\ UNCHANGED <<conf, query, planned, currentStatement, search, best,
                 currentStatementExecNum, currentLevelsCount>>

\* Every expression of the plan has been through jit_compile_expr.
Compiled == query \in ExprStmts /\ conf.enableME => currentExprNum >= planned

FasterThanAll(t) == min_total_time = 0 \/ min_total_time > t

\* The whole-plan best: the levels of the fastest run so far.
RecordTotal(t) ==
  IF FasterThanAll(t)
  THEN /\ min_total_time' = t
       /\ bestJITLevels' =
            [i \in Pos |-> IF i < currentExprNum THEN currentExprJITLevels[i]
                           ELSE bestJITLevels[i]]
  ELSE UNCHANGED <<min_total_time, bestJITLevels>>

\* Seeded fault: the sweep is never seen as finished.
FasterAfterSweep(t) ==
  /\ ~useTheBest /\ Reserved3 > 3
  /\ min_expr_time = 0 \/ min_expr_time > t

\* The run is the fastest so far for the position being varied.
FasterHere(t) ==
  /\ ~useTheBest /\ Reserved3 >= 3
  /\ min_expr_time = 0 \/ min_expr_time > t

\* Seeded fault: the second pass keeps what the first one recorded.
NothingStale(i) == FALSE

\* What the first pass recorded for another position has no place in the second.
Stale(i) ==
  /\ enableOPT3 /\ i < currentExprNum /\ i # Reserved2
  /\ bestCurrentJITLevels[i] \notin {0, 3}

\* The per-position best: the fastest level of the position being varied.
RecordPosition(t) ==
  IF FasterHere(t)
  THEN /\ min_expr_time' = t
       /\ bestCurrentJITLevels' =
            [i \in Pos |->
               IF i = Reserved2 /\ i < currentExprNum THEN currentExprJITLevels[i]
               ELSE IF Stale(i) THEN 0 ELSE bestCurrentJITLevels[i]]
  ELSE UNCHANGED <<min_expr_time, bestCurrentJITLevels>>

\* Seeded fault: the feedback does not end the use of the local best.
ExplainKeepsBest(t) ==
  /\ query \in ExplainStmts /\ Compiled
  /\ query' = None
  /\ IF conf.enableME
     THEN RecordTotal(t) /\ RecordPosition(t)
     ELSE UNCHANGED <<best, min_expr_time>>
  /\ UNCHANGED <<conf, planned, currentStatement, currentExprNum, useTheBest,
                 currentExprJITLevels, Reserved2, Reserved3, enableOPT3,
                 currentStatementExecNum, currentLevelsCount>>

ExplainOnePlan(t) ==
  /\ query \in ExplainStmts /\ Compiled
  /\ query' = None
  /\ IF conf.enableME
     THEN RecordTotal(t) /\ RecordPosition(t) /\ useTheBest' = FALSE
     ELSE UNCHANGED <<best, min_expr_time, useTheBest>>
  /\ UNCHANGED <<conf, planned, currentStatement, currentExprNum,
                 currentExprJITLevels, Reserved2, Reserved3, enableOPT3,
                 currentStatementExecNum, currentLevelsCount>>

session == <<currentStatement, currentExprNum, currentExprJITLevels, search,
             best, currentStatementExecNum, currentLevelsCount>>

\* A statement that is not an EXPLAIN ends: nothing is fed back.
Complete ==
  /\ query \in Statements \ ExplainStmts /\ Compiled
  /\ query' = None
  /\ UNCHANGED <<conf, planned, session>>

\* An error or a cancel: the long jump back to PostgresMain resets nothing.
Abort ==
  /\ query # None
  /\ query' = None
  /\ UNCHANGED <<conf, planned, session>>

\* A configuration reload, which PostgresMain processes between two queries.
Reload ==
  /\ query = None
  /\ conf' \in Configs \ {conf}
  /\ UNCHANGED <<query, planned, session>>

----------------------------------------------------------------------------
Send == \E s \in Statements : Receive(s)
Measure == \E t \in Times : ExplainOnePlan(t)

Next == Send \/ AddExpr \/ Measure \/ Complete \/ Abort \/ Reload

Spec == Init /\ [][Next]_vars

\* The published workloads: one EXPLAIN ANALYZE text sent over and over
\* (Workloads/Scripts, repeated_sql) and no query that fails.
NextRepeated == Send \/ AddExpr \/ Measure
SpecRepeated == Init /\ [][NextRepeated]_vars
FairRepeated == SpecRepeated /\ WF_vars(NextRepeated)

\* The same workload when a query may be cancelled once it executes, as long
\* as the client keeps sending and is not cancelled every time.
NextCancelled == NextRepeated \/ (Compiled /\ Abort)
FairCancelled == /\ Init /\ [][NextCancelled]_vars
                 /\ WF_vars(NextRepeated) /\ SF_vars(Measure)

\* One text that is not an EXPLAIN, sent over and over.
NextPlain == Send \/ AddExpr \/ Complete
FairPlain == Init /\ [][NextPlain]_vars /\ WF_vars(NextPlain)

----------------------------------------------------------------------------
(* Properties.                                                             *)

\* Type correctness.
TypeOK ==
  /\ conf \in Configs
  /\ query \in Statements \cup {None}
  /\ planned \in 0 .. EXPR_MAX_NUM
  /\ currentStatement \in Statements \cup {None}
  /\ currentExprNum \in 0 .. EXPR_MAX_NUM
  /\ currentExprJITLevels \in [Pos -> Int]
  /\ bestJITLevels \in [Pos -> Int]
  /\ bestCurrentJITLevels \in [Pos -> Int]
  /\ min_total_time \in Nat /\ min_expr_time \in Nat
  /\ Reserved2 \in 0 .. currentExprNum
  /\ Reserved3 \in 0 .. 3
  /\ enableOPT3 \in BOOLEAN /\ useTheBest \in BOOLEAN
  /\ currentStatementExecNum \in 0 .. 2
  /\ currentLevelsCount \in Nat

\* While the positions are varied one by one, the combination being tried is
\* zero everywhere else (the comment at postgres.c 1354).
OneDigit ==
  /\ query # None /\ Swept /\ ~useTheBest
  /\ currentStatementExecNum = 2 /\ currentLevelsCount = 0
  /\ Reserved2 < currentExprNum
  => \A i \in 0 .. currentExprNum - 1 \ {Reserved2} : currentExprJITLevels[i] = 0

\* In the first pass the digit at Reserved2 counts 0, 1, 2 and then carries
\* (the comment at postgres.c 1354).  It does not hold when testME is switched
\* off between two executions: the digit may be at 3 already.
DigitCarries ==
  /\ query # None /\ ~conf.testME /\ Swept /\ ~useTheBest /\ ~enableOPT3
  /\ currentStatementExecNum = 2 /\ currentLevelsCount = 0
  /\ Reserved2 < currentExprNum
  => currentExprJITLevels[Reserved2] \in 0 .. 2

\* Every level a registered expression is compiled with is one of the four.
LevelsDefined ==
  \A i \in 0 .. currentExprNum - 1 : currentExprJITLevels[i] \in JITLevels

\* No combination mixes level 3 with levels 1 and 2, although the two passes
\* share bestCurrentJITLevels (explain.c 716-725 clears the first pass away).
NeverMixed ==
  \A i, j \in 0 .. currentExprNum - 1 :
    ~(currentExprJITLevels[i] = 3 /\ currentExprJITLevels[j] \in {1, 2})

\* The search ends: from some point on every run uses bestJITLevels, the
\* fastest combination measured.
OnBest ==
  /\ min_total_time # 0
  /\ \A i \in 0 .. currentExprNum - 1 : currentExprJITLevels[i] = bestJITLevels[i]
Converges == <>[]OnBest

\* How many combinations are left until every position has been varied, with
\* enableQuartet: of the sweep, of the first pass (levels 1 and 2 of each
\* position), and of the second, which starts from the local best.
Remaining ==
  LET n == currentExprNum
      second == n + 1
      first(p, level) == 3 - level + 2 * (n - 1 - p) + second
  IN  IF Reserved3 < 3 THEN 3 - Reserved3 + (IF n = 0 THEN 0 ELSE first(0, 0))
      ELSE IF Reserved2 >= n THEN 0
      ELSE IF ~enableOPT3 THEN first(Reserved2, currentExprJITLevels[Reserved2])
      ELSE IF currentExprJITLevels[Reserved2] # 3 THEN second
      ELSE n - Reserved2

\* The next execution of the same text moves to another combination.
Due == query = None /\ currentStatementExecNum # 0 /\ currentLevelsCount >= conf.Reserved1

\* The search makes progress and never goes back: every such execution uses
\* up one combination, and nothing else that happens to the text (a repetition
\* of a combination, the feedback of a time) changes their number.
SearchAdvances ==
  [][currentStatement' = currentStatement /\ currentExprNum' = currentExprNum =>
       Remaining' = IF Due /\ Remaining # 0 THEN Remaining - 1 ELSE Remaining]_vars

\* When none is left, the next execution puts the fastest combination measured
\* in force, and nothing takes it away again while the text stays: a faster
\* run of it only confirms it.
BestStays ==
  [][currentStatement' = currentStatement /\ Remaining = 0 /\ (Due \/ OnBest) => OnBest']_vars

\* After the first pass the local best is executed once and then level 3 is
\* tried (the comment at postgres.c 1363).  It needs the feedback of an EXPLAIN:
\* under FairPlain it does not hold.
LevelThreeTried ==
  enableOPT3 ~> \E i \in 0 .. currentExprNum - 1 : currentExprJITLevels[i] = 3
============================================================================
