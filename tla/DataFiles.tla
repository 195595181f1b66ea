----------------------------- MODULE DataFiles -----------------------------
(***************************************************************************)
(* The files that the server writes for the analysis.  It appends to       *)
(* time.csv, jit.csv, operator.csv and report.csv, each at another place   *)
(* of an execution and none of them with a key that ties its line to those *)
(* of the others.                                                          *)
(*                                                                         *)
(* enableME, printExpr and printExprLevels are on, as in the shipped       *)
(* postgresql.conf, and one client runs at a time.  A write carries the    *)
(* number of its execution, which the real files do not hold: it serves    *)
(* the properties only.                                                    *)
(***************************************************************************)
EXTENDS Naturals, Sequences

CONSTANTS
  Script,          \* the texts that the client sends, in order
  Matched,         \* texts that getSqlStatementType classifies (1 to 4)
  Explained,       \* texts that run through ExplainOnePlan
  Compiles,        \* text -> what it compiles, in order: <<id, operator>>
  Reached,         \* text -> the operators that addPlanTree reaches
  Levels,
  Times,           \* execution times, positive
  LateErrors,      \* whether a statement may fail after it was compiled
  NoExec

ContainExpr(t) == t \in Matched

\* What an execution of t compiles.
ToCompile(t) == IF ContainExpr(t) THEN Compiles[t] ELSE <<>>

\* Compilation j of t finds the entry that compilation i has made.
SameEntry(t, i, j) ==
  ToCompile(t)[i] = ToCompile(t)[j] /\ ToCompile(t)[i][2] \in Reached[t]

\* The levels an execution of t may compile with: one entry has one level.
LevelsOf(t) ==
  {f \in [DOMAIN ToCompile(t) -> Levels] :
     \A i, j \in DOMAIN ToCompile(t) : SameEntry(t, i, j) => f[i] = f[j]}

Execution ==
  [n : Nat, text : STRING, level : UNION {LevelsOf(Script[i]) : i \in DOMAIN Script},
   compiled : Nat, time : Nat, step : {"run", "end"}]

\* What a classified text compiles is a sequence of pairs.  Operators are
\* numbered from 1 here; 0 stands for the T_Invalid of report.csv.
ASSUME InputsAssumption ==
  /\ Script \in Seq(STRING)
  /\ Times \subseteq Nat \ {0}
  /\ LateErrors \in BOOLEAN
  /\ \A t \in Matched : Compiles[t] \in Seq(Nat \X (Nat \ {0}))
  /\ NoExec \notin Execution

VARIABLES
  pos,             \* position in the script
  cur,             \* the execution at work, or NoExec
  done,            \* history: the executions that came to their end
  timeRows, timeOpen,   \* time.csv: its lines, and the line that has no end yet
  jitRows, jitOpen,     \* jit.csv: likewise
  operatorBlocks,       \* operator.csv: its blocks
  reportRows            \* report.csv: its lines

vars == <<pos, cur, done, timeRows, timeOpen, jitRows, jitOpen, operatorBlocks, reportRows>>

Init ==
  /\ pos = 1 /\ cur = NoExec /\ done = <<>>
  /\ timeRows = <<>> /\ timeOpen = <<>> /\ jitRows = <<>> /\ jitOpen = <<>>
  /\ operatorBlocks = <<>> /\ reportRows = <<>>

----------------------------------------------------------------------------
(* The server.                                                             *)

(***************************************************************************)
(* exec_simple_query, prologue: the text and the database go to time.csv   *)
(* without a line end.  The levels of the execution are the search's.      *)
(***************************************************************************)
Start(level) ==
  /\ cur = NoExec /\ pos <= Len(Script)
  /\ LET t == Script[pos] IN
       /\ cur' = [n |-> pos, text |-> t, level |-> level, compiled |-> 0,
                  time |-> 0, step |-> "run"]
       /\ timeOpen' = IF ContainExpr(t) THEN Append(timeOpen, pos) ELSE timeOpen
  /\ UNCHANGED <<pos, done, timeRows, jitRows, jitOpen, operatorBlocks, reportRows>>

\* jit_compile_expr: one fragment per call, without a line end
Compile ==
  /\ cur # NoExec /\ cur.step = "run" /\ cur.compiled < Len(ToCompile(cur.text))
  /\ LET i == cur.compiled + 1 IN
       jitOpen' = Append(jitOpen, [n |-> cur.n, expr |-> ToCompile(cur.text)[i],
                                   level |-> cur.level[i]])
  /\ cur' = [cur EXCEPT !.compiled = @ + 1]
  /\ UNCHANGED <<pos, done, timeRows, timeOpen, jitRows, operatorBlocks, reportRows>>

Compiled == cur # NoExec /\ cur.step = "run" /\ cur.compiled = Len(ToCompile(cur.text))

\* Seeded fault: the line of jit.csv is not ended.
ExplainNoLineEnd(t) ==
  /\ Compiled /\ cur.text \in Explained
  /\ cur' = [cur EXCEPT !.step = "end", !.time = t]
  /\ timeRows' = Append(timeRows, [n |-> cur.n, starts |-> timeOpen])
  /\ timeOpen' = <<>>
  /\ UNCHANGED <<pos, done, jitRows, jitOpen, operatorBlocks, reportRows>>

\* ExplainOnePlan: the times end the lines of time.csv and of jit.csv
Explain(t) ==
  /\ Compiled /\ cur.text \in Explained
  /\ cur' = [cur EXCEPT !.step = "end", !.time = t]
  /\ IF ContainExpr(cur.text)
     THEN /\ timeRows' = Append(timeRows, [n |-> cur.n, starts |-> timeOpen])
          /\ timeOpen' = <<>>
     ELSE UNCHANGED <<timeRows, timeOpen>>
  /\ jitRows' = Append(jitRows, [n |-> cur.n, exprs |-> jitOpen, time |-> t])
  /\ jitOpen' = <<>>
  /\ UNCHANGED <<pos, done, operatorBlocks, reportRows>>

\* Any other statement runs without a word to the files.
RunPlain(t) ==
  /\ Compiled /\ cur.text \notin Explained
  /\ cur' = [cur EXCEPT !.step = "end", !.time = t]
  /\ UNCHANGED <<pos, done, timeRows, timeOpen, jitRows, jitOpen, operatorBlocks, reportRows>>

(***************************************************************************)
(* currentSQLExprs, in order of arrival: every expression of a reached     *)
(* operator once.  An operator that is not in currentSQLOpts leaves NULL   *)
(* (printed as 0, T_Invalid), which no later compilation finds again.      *)
(***************************************************************************)
Entry(t, e) == IF e[2] \in Reached[t] THEN e ELSE <<e[1], 0>>

Reported(t) ==
  LET upTo[k \in 0 .. Len(ToCompile(t))] ==
        IF k = 0 THEN <<>>
        ELSE IF \E i \in 1 .. k - 1 : SameEntry(t, i, k) THEN upTo[k - 1]
        ELSE Append(upTo[k - 1], Entry(t, ToCompile(t)[k]))
  IN  upTo[Len(ToCompile(t))]

\* Seeded fault: the epilogue does not ask for containExpr.
FinishAlways ==
  /\ cur # NoExec /\ cur.step = "end"
  /\ operatorBlocks' = Append(operatorBlocks, cur.n)
  /\ reportRows' = Append(reportRows, [n |-> cur.n, text |-> cur.text,
                                       exprs |-> Reported(cur.text)])
  /\ done' = Append(done, cur)
  /\ cur' = NoExec /\ pos' = pos + 1
  /\ UNCHANGED <<timeRows, timeOpen, jitRows, jitOpen>>

\* Epilogue: a block of operator.csv and a line of report.csv
Finish ==
  /\ cur # NoExec /\ cur.step = "end"
  /\ IF ContainExpr(cur.text)
     THEN /\ operatorBlocks' = Append(operatorBlocks, cur.n)
          /\ reportRows' = Append(reportRows, [n |-> cur.n, text |-> cur.text,
                                               exprs |-> Reported(cur.text)])
     ELSE UNCHANGED <<operatorBlocks, reportRows>>
  /\ done' = IF ContainExpr(cur.text) THEN Append(done, cur) ELSE done
  /\ cur' = NoExec /\ pos' = pos + 1
  /\ UNCHANGED <<timeRows, timeOpen, jitRows, jitOpen>>

\* An error, in the parser or planner or while it executes; psql goes on.
Fail ==
  /\ cur # NoExec /\ cur.step = "run" /\ (cur.compiled = 0 \/ LateErrors)
  /\ cur' = NoExec /\ pos' = pos + 1
  /\ UNCHANGED <<done, timeRows, timeOpen, jitRows, jitOpen, operatorBlocks, reportRows>>

Next ==
  \/ pos <= Len(Script) /\ \E level \in LevelsOf(Script[pos]) : Start(level)
  \/ Compile
  \/ \E t \in Times : Explain(t) \/ RunPlain(t)
  \/ Finish
  \/ Fail

Spec == Init /\ [][Next]_vars

----------------------------------------------------------------------------
(* Properties.                                                             *)

\* Type correctness.
TypeOK ==
  /\ pos \in 1 .. Len(Script) + 1
  /\ cur = NoExec \/ (cur.n = pos /\ cur.text = Script[pos] /\ cur.step \in {"run", "end"})
  /\ \A i \in DOMAIN jitOpen : jitOpen[i].level \in Levels
  /\ \A i \in DOMAIN jitRows : jitRows[i].time \in Times
  /\ \A i \in DOMAIN done : done[i].text \in Matched

(***************************************************************************)
(* "report.csv: one line for one statement", "jit.csv: one line for one    *)
(* statement, including all the expression ids and their jit levels",      *)
(* operator.csv one block: between two statements the k-th line of each    *)
(* file is that of the k-th statement that came to its end, with the       *)
(* expressions of that execution and of no other (README.md).  A line of   *)
(* time.csv may begin with the texts of executions that failed, but the    *)
(* last text in it is the one the times belong to.                         *)
(***************************************************************************)
OneLineEach ==
  cur = NoExec =>
    /\ jitOpen = <<>>
    /\ Len(jitRows) = Len(done) /\ Len(reportRows) = Len(done)
    /\ Len(operatorBlocks) = Len(done) /\ Len(timeRows) = Len(done)
    /\ \A k \in DOMAIN done :
         /\ jitRows[k].n = done[k].n /\ reportRows[k].n = done[k].n
         /\ operatorBlocks[k] = done[k].n
         /\ timeRows[k].n = done[k].n
         /\ timeRows[k].starts[Len(timeRows[k].starts)] = done[k].n
         /\ Len(jitRows[k].exprs) = Len(Compiles[done[k].text])
         /\ \A i \in DOMAIN jitRows[k].exprs : jitRows[k].exprs[i].n = done[k].n
=============================================================================
