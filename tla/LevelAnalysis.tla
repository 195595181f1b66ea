--------------------------- MODULE LevelAnalysis ---------------------------
(***************************************************************************)
(* The programs around the server's data files: the workload scripts, which*)
(* repeat every query file a number of times (executeN.sh, executeAllN.sh),*)
(* and analyzeData_Opt+Expr(Level).py, which reads the files in parallel,  *)
(* line by line, and keeps for every statement and expression the level of *)
(* the fastest execution: the training data of the level model.            *)
(***************************************************************************)
EXTENDS DataFiles

\* executeN.sh: one query file, n times
Repeated(file, n) == [i \in 1 .. n * Len(file) |-> file[((i - 1) % Len(file)) + 1]]

Concatenated(parts) ==
  LET upTo[k \in 0 .. Len(parts)] == IF k = 0 THEN <<>> ELSE upTo[k - 1] \o parts[k]
  IN  upTo[Len(parts)]

\* executeAllN.sh: for every database analyze, and each of its files n times.
\* A text is read as the database and the statement.
DatabaseScript(files, n) ==
  <<"analyze">> \o Concatenated([f \in DOMAIN files |-> Repeated(files[f], n)])

RepeatedScript(databases, n) ==
  Concatenated([d \in DOMAIN databases |-> DatabaseScript(databases[d], n)])

(***************************************************************************)
(* What the analysis relies on for a statement t: its executions come in a *)
(* row, and no other classified statement compiles the same sequence of    *)
(* expressions.                                                            *)
(***************************************************************************)
InARow(script, t) ==
  \A i, j, k \in 1 .. Len(script) :
    i < j /\ j < k /\ script[i] = t /\ script[k] = t /\ script[j] \in Matched
      => script[j] = t

Told(script, t) ==
  \A i \in 1 .. Len(script) :
    script[i] \in Matched /\ Compiles[script[i]] = Compiles[t] => script[i] = t

----------------------------------------------------------------------------
(* analyzeData_Opt+Expr(Level).py                                          *)

\* The check on the number of lines.  A last line of jit.csv without an end
\* has an empty last field, which float() refuses.
Accepted ==
  /\ jitOpen = <<>>
  /\ Len(jitRows) = Len(operatorBlocks) /\ Len(reportRows) = Len(operatorBlocks)

\* Seeded fault: min_time is not reset for a new statement.
MinTimeKept(st, exprs) == st.min_time

MinTime(st, exprs) == IF exprs \in st.seen THEN st.min_time ELSE 0

(***************************************************************************)
(* best_level of the expressions of a line e of report.csv.  The k-th of   *)
(* them, if the line j of jit.csv holds it too, takes the k-th level of    *)
(* that line (current_level[j]), and of several with one id the last       *)
(* stays.  An id that no line of jit.csv matched has 0.                    *)
(***************************************************************************)
SetLevels(best, j, e) ==
  LET Key(k)  == <<e.text, e.exprs[k][1]>>
      hits(x) == {k \in DOMAIN e.exprs :
                    Key(k) = x /\ \E i \in DOMAIN j.exprs : j.exprs[i].expr = e.exprs[k]}
      last(x) == CHOOSE k \in hits(x) : \A l \in hits(x) : l <= k
  IN  [x \in DOMAIN best \cup {Key(k) : k \in DOMAIN e.exprs} |->
         IF hits(x) # {} THEN j.exprs[last(x)].level
         ELSE IF x \in DOMAIN best THEN best[x] ELSE 0]

\* One round of the loop over the lines.
LearnLine(st, j, e) ==
  LET exprs  == [i \in DOMAIN j.exprs |-> j.exprs[i].expr]
      min    == MinTime(st, exprs)
      update == min = 0 \/ j.time < min
  IN  [seen     |-> st.seen \cup {exprs},
       min_time |-> IF update THEN j.time ELSE min,
       best     |-> IF update THEN SetLevels(st.best, j, e) ELSE st.best]

NothingLearned == [seen |-> {}, min_time |-> 0, best |-> <<>>]

\* best_level of every statement and expression
Learned ==
  LET upTo[k \in 0 .. Len(jitRows)] ==
        IF k = 0 THEN NothingLearned ELSE LearnLine(upTo[k - 1], jitRows[k], reportRows[k])
  IN  upTo[Len(jitRows)].best

----------------------------------------------------------------------------
\* f is the first of the fastest executions of t among the first m.
IsFastest(t, m, f) ==
  /\ f \in 1 .. m /\ done[f].text = t
  /\ \A l \in 1 .. m : done[l].text = t =>
       done[f].time < done[l].time \/ (done[f].time = done[l].time /\ f <= l)

\* Entry i of the report is the last of its id at a reached operator,
LastOfId(t, i) ==
  /\ Reported(t)[i][2] # 0
  /\ \A l \in DOMAIN Reported(t) :
       Reported(t)[l][1] = Reported(t)[i][1] /\ Reported(t)[l][2] # 0 => l <= i

\* and the i-th compilation: none before it found its entry made.
Aligned(t, i) == Reported(t)[i] = Compiles[t][i]

\* No operator that evaluates the expression is reached.
Unreached(t, id) ==
  \A l \in DOMAIN Reported(t) : Reported(t)[l][1] = id => Reported(t)[l][2] = 0

(***************************************************************************)
(* What the analysis keeps for a statement whose executions come in a row  *)
(* and which is told from the others by what it compiles: for an           *)
(* expression the level that it had, at the last of its operators that     *)
(* addPlanTree reached, in the first of the fastest executions, and 0 for  *)
(* an expression of which it reached none; whatever statements come before *)
(* and after and whichever executions failed early.  Left out are the      *)
(* expressions behind one that is compiled twice, for which                *)
(* current_level[j] is the level of another compilation.                   *)
(***************************************************************************)
LearnsFastest ==
  (cur = NoExec /\ Accepted) =>
    \A k \in DOMAIN done :
      LET t == done[k].text IN
      (InARow(Script, t) /\ Told(Script, t)) =>
        \E f \in DOMAIN done :
          /\ IsFastest(t, Len(done), f)
          /\ \A i \in DOMAIN Reported(t) :
               LET x == <<t, Reported(t)[i][1]>> IN
               /\ x \in DOMAIN Learned
               /\ LastOfId(t, i) /\ Aligned(t, i) => Learned[x] = done[f].level[i]
               /\ Unreached(t, x[2]) => Learned[x] = 0
=============================================================================
