-------------------------- MODULE DataFilesProofs --------------------------
(***************************************************************************)
(* The data files stay aligned for a script of any length, any texts and   *)
(* any number of early failures, as long as every classified text of the   *)
(* script is an EXPLAIN and nothing fails after it was compiled.  Type     *)
(* correctness holds without these two conditions.  From aligned files the *)
(* analysis learns the levels of the fastest executions of the statements  *)
(* that are repeated in a row, as executeAllN.sh repeats them.             *)
(***************************************************************************)
EXTENDS LevelAnalysis, BoundedRecursion, SequenceTheorems, TLAPS

\* The workload for which the files are meant.
ExplainWorkload ==
  /\ \A i \in 1 .. Len(Script) : Script[i] \in Matched <=> Script[i] \in Explained
  /\ ~ LateErrors

IsSeq(s) == \E S : s \in Seq(S)

Files ==
  /\ IsSeq(done) /\ IsSeq(timeRows) /\ IsSeq(timeOpen) /\ IsSeq(jitRows)
  /\ IsSeq(jitOpen) /\ IsSeq(operatorBlocks) /\ IsSeq(reportRows)

CurOK ==
  /\ pos \in Nat \ {0}
  /\ cur # NoExec => /\ cur \in Execution
                     /\ cur.text \in Matched <=> cur.text \in Explained

\* Line k of jit.csv and of time.csv is that of execution n of text t.
LineOf(k, n, t) ==
  /\ jitRows[k].n = n
  /\ Len(jitRows[k].exprs) = Len(Compiles[t])
  /\ \A i \in DOMAIN jitRows[k].exprs : jitRows[k].exprs[i].n = n
  /\ timeRows[k].n = n
  /\ timeRows[k].starts[Len(timeRows[k].starts)] = n

DoneLines ==
  /\ Len(reportRows) = Len(done) /\ Len(operatorBlocks) = Len(done)
  /\ \A k \in 1 .. Len(done) :
       /\ LineOf(k, done[k].n, done[k].text)
       /\ reportRows[k].n = done[k].n /\ operatorBlocks[k] = done[k].n

\* Between ExplainOnePlan and the epilogue jit.csv and time.csv are one ahead.
Ahead == cur # NoExec /\ cur.step = "end" /\ cur.text \in Matched

Lengths ==
  IF Ahead
  THEN /\ Len(jitRows) = Len(done) + 1 /\ Len(timeRows) = Len(done) + 1
       /\ LineOf(Len(done) + 1, cur.n, cur.text)
  ELSE Len(jitRows) = Len(done) /\ Len(timeRows) = Len(done)

\* The lines without an end hold what the execution at work has written.
Open ==
  IF cur # NoExec /\ cur.step = "run"
  THEN /\ Len(jitOpen) = cur.compiled
       /\ cur.compiled <= Len(ToCompile(cur.text))
       /\ \A i \in 1 .. Len(jitOpen) : jitOpen[i].n = cur.n
       /\ cur.text \in Matched => timeOpen[Len(timeOpen)] = cur.n
  ELSE jitOpen = <<>>

FInv == Files /\ CurOK /\ DoneLines /\ Lengths /\ Open

----------------------------------------------------------------------------
\* Appending to a sequence of anything: what it keeps and what it adds.
LEMMA AppendIs ==
  ASSUME NEW s, IsSeq(s), NEW e
  PROVE  /\ IsSeq(Append(s, e))
         /\ Len(s) \in Nat /\ DOMAIN s = 1 .. Len(s)
         /\ Len(Append(s, e)) = Len(s) + 1
         /\ Append(s, e)[Len(s) + 1] = e
         /\ \A i \in 1 .. Len(s) : Append(s, e)[i] = s[i]
<1>1. PICK S : s \in Seq(S)
  BY DEF IsSeq
<1>2. s \in Seq(S \cup {e})
  BY <1>1
<1>3. Append(s, e) \in Seq(S \cup {e})
  BY <1>2
<1> QED
  BY <1>2, <1>3 DEF IsSeq

\* The empty file is a sequence.
LEMMA EmptyIs == IsSeq(<<>>) /\ Len(<<>>) = 0
<1>1. <<>> \in Seq({})
  OBVIOUS
<1> QED
  BY <1>1 DEF IsSeq

\* A sequence without elements is the empty one.
LEMMA NoElements ==
  ASSUME NEW s, IsSeq(s), Len(s) = 0
  PROVE  s = <<>>
BY DEF IsSeq

\* The files start empty.
LEMMA InitFInv == Init => FInv
BY EmptyIs DEF Init, FInv, Files, CurOK, DoneLines, Lengths, Ahead, Open

----------------------------------------------------------------------------
(* One lemma per action.                                                   *)

\* The prologue opens a line of time.csv.
LEMMA StartFInv ==
  ASSUME ExplainWorkload, FInv, pos <= Len(Script),
         NEW level \in LevelsOf(Script[pos]), Start(level)
  PROVE  FInv'
<1> DEFINE t == Script[pos]
<1>1. pos \in 1 .. Len(Script) /\ t \in STRING /\ (t \in Matched <=> t \in Explained)
  BY InputsAssumption DEF FInv, CurOK, ExplainWorkload
<1>2. cur' = [n |-> pos, text |-> t, level |-> level, compiled |-> 0,
              time |-> 0, step |-> "run"]
  BY DEF Start
<1>3. level \in UNION {LevelsOf(Script[i]) : i \in DOMAIN Script}
  BY <1>1, InputsAssumption
<1>4. cur' \in Execution /\ cur' # NoExec
  BY <1>1, <1>2, <1>3, InputsAssumption DEF Execution
<1>5. CurOK'
  BY <1>1, <1>2, <1>4 DEF FInv, CurOK, Start
<1>6. /\ IsSeq(timeOpen')
      /\ t \in Matched => timeOpen'[Len(timeOpen')] = pos
  BY AppendIs DEF FInv, Files, Start, ContainExpr
<1>7. Files'
  BY <1>6 DEF FInv, Files, Start
<1>8. DoneLines'
  BY DEF FInv, DoneLines, LineOf, Start
<1>9. Lengths'
  BY <1>2 DEF FInv, Lengths, Ahead, LineOf, Start
<1>10. ToCompile(t) \in Seq(Nat \X (Nat \ {0}))
  BY InputsAssumption DEF ToCompile, ContainExpr
<1>11. Open'
  BY <1>2, <1>4, <1>6, <1>10, EmptyIs DEF FInv, Open, Start
<1> QED
  BY <1>5, <1>7, <1>8, <1>9, <1>11 DEF FInv

\* A compilation adds a fragment of its own execution.
LEMMA CompileFInv ==
  ASSUME FInv, Compile
  PROVE  FInv'
<1> DEFINE c == cur.compiled + 1
           f == [n |-> cur.n, expr |-> ToCompile(cur.text)[c], level |-> cur.level[c]]
<1>1. cur \in Execution /\ cur # NoExec /\ cur.step = "run"
      /\ cur.compiled < Len(ToCompile(cur.text))
  BY DEF FInv, CurOK, Compile
<1>2. cur' = [cur EXCEPT !.compiled = @ + 1]
  BY DEF Compile
<1>3. /\ cur' \in Execution /\ cur' # NoExec
      /\ cur'.n = cur.n /\ cur'.text = cur.text /\ cur'.step = "run"
      /\ cur'.compiled = cur.compiled + 1
  BY <1>1, <1>2, InputsAssumption DEF Execution
<1>4. jitOpen' = Append(jitOpen, f) /\ f.n = cur.n
  BY DEF Compile
<1> HIDE DEF f
<1>5. /\ IsSeq(jitOpen') /\ Len(jitOpen) \in Nat /\ Len(jitOpen') = Len(jitOpen) + 1
      /\ jitOpen'[Len(jitOpen) + 1] = f
      /\ \A i \in 1 .. Len(jitOpen) : jitOpen'[i] = jitOpen[i]
  BY <1>4, AppendIs DEF FInv, Files
<1>6. Files'
  BY <1>5 DEF FInv, Files, Compile
<1>7. CurOK'
  BY <1>1, <1>3 DEF FInv, CurOK, Compile
<1>8. DoneLines'
  BY DEF FInv, DoneLines, LineOf, Compile
<1>9. Lengths'
  BY <1>1, <1>3 DEF FInv, Lengths, Ahead, LineOf, Compile
<1>10. ToCompile(cur.text) \in Seq(Nat \X (Nat \ {0}))
  BY InputsAssumption DEF ToCompile, ContainExpr
<1>11. Len(ToCompile(cur.text)) \in Nat /\ cur.compiled \in Nat
  BY <1>1, <1>10 DEF Execution
<1>12. timeOpen' = timeOpen
  BY DEF Compile
<1>13. Open'
  BY <1>1, <1>3, <1>4, <1>5, <1>11, <1>12 DEF FInv, Open
<1> QED
  BY <1>6, <1>7, <1>8, <1>9, <1>13 DEF FInv

\* ExplainOnePlan ends both lines with the execution that opened them.
LEMMA ExplainFInv ==
  ASSUME FInv, NEW t \in Times, Explain(t)
  PROVE  FInv'
<1> DEFINE j == [n |-> cur.n, exprs |-> jitOpen, time |-> t]
           r == [n |-> cur.n, starts |-> timeOpen]
<1>1. cur \in Execution /\ cur # NoExec /\ cur.step = "run"
      /\ cur.compiled = Len(ToCompile(cur.text)) /\ cur.text \in Matched
  BY DEF FInv, CurOK, Explain, Compiled
<1>2. cur' = [cur EXCEPT !.step = "end", !.time = t] /\ t \in Nat
  BY InputsAssumption DEF Explain
<1>3. /\ cur' \in Execution /\ cur' # NoExec
      /\ cur'.n = cur.n /\ cur'.text = cur.text /\ cur'.step = "end"
  BY <1>1, <1>2, InputsAssumption DEF Execution
<1>4. /\ jitRows' = Append(jitRows, j) /\ timeRows' = Append(timeRows, r)
      /\ jitOpen' = <<>> /\ timeOpen' = <<>>
      /\ j.n = cur.n /\ j.exprs = jitOpen /\ r.n = cur.n /\ r.starts = timeOpen
  BY <1>1 DEF Explain, ContainExpr
<1> HIDE DEF j, r
<1>5. /\ IsSeq(jitRows') /\ Len(jitRows) \in Nat /\ Len(jitRows') = Len(jitRows) + 1
      /\ jitRows'[Len(jitRows) + 1] = j
      /\ \A i \in 1 .. Len(jitRows) : jitRows'[i] = jitRows[i]
  BY <1>4, AppendIs DEF FInv, Files
<1>6. /\ IsSeq(timeRows') /\ Len(timeRows') = Len(timeRows) + 1
      /\ timeRows'[Len(timeRows) + 1] = r
      /\ \A i \in 1 .. Len(timeRows) : timeRows'[i] = timeRows[i]
  BY <1>4, AppendIs DEF FInv, Files
<1>7. Files'
  BY <1>4, <1>5, <1>6, EmptyIs DEF FInv, Files, Explain
<1>8. CurOK'
  BY <1>1, <1>3 DEF FInv, CurOK, Explain
<1>9. Len(jitRows) = Len(done) /\ Len(timeRows) = Len(done)
  BY <1>1 DEF FInv, Lengths, Ahead
<1>10. DoneLines'
  BY <1>5, <1>6, <1>9 DEF FInv, DoneLines, LineOf, Explain
<1>11. DOMAIN jitOpen = 1 .. Len(jitOpen)
  BY AppendIs DEF FInv, Files
<1>12. /\ Len(jitOpen) = Len(Compiles[cur.text])
       /\ \A i \in DOMAIN jitOpen : jitOpen[i].n = cur.n
       /\ timeOpen[Len(timeOpen)] = cur.n
  BY <1>1, <1>11 DEF FInv, Open, ToCompile, ContainExpr
<1>13. LineOf(Len(done) + 1, cur.n, cur.text)'
  BY <1>3, <1>4, <1>5, <1>6, <1>9, <1>12 DEF LineOf, Explain
<1>14. Lengths'
  BY <1>1, <1>3, <1>5, <1>6, <1>9, <1>13 DEF Lengths, Ahead, Explain
<1>15. Open'
  BY <1>3, <1>4 DEF Open
<1> QED
  BY <1>7, <1>8, <1>10, <1>14, <1>15 DEF FInv

\* A statement without EXPLAIN is not classified, and wrote nothing.
LEMMA RunPlainFInv ==
  ASSUME FInv, NEW t \in Times, RunPlain(t)
  PROVE  FInv'
<1>1. cur \in Execution /\ cur # NoExec /\ cur.step = "run"
      /\ cur.compiled = Len(ToCompile(cur.text)) /\ cur.text \notin Matched
  BY DEF FInv, CurOK, RunPlain, Compiled
<1>2. cur' = [cur EXCEPT !.step = "end", !.time = t] /\ t \in Nat
  BY InputsAssumption DEF RunPlain
<1>3. /\ cur' \in Execution /\ cur' # NoExec
      /\ cur'.n = cur.n /\ cur'.text = cur.text /\ cur'.step = "end"
  BY <1>1, <1>2, InputsAssumption DEF Execution
<1>4. jitOpen = <<>>
  BY <1>1, EmptyIs, NoElements DEF FInv, Files, Open, ToCompile, ContainExpr
<1>5. Files' /\ CurOK'
  BY <1>1, <1>3 DEF FInv, Files, CurOK, RunPlain
<1>6. DoneLines'
  BY DEF FInv, DoneLines, LineOf, RunPlain
<1>7. Lengths'
  BY <1>1, <1>3 DEF FInv, Lengths, Ahead, RunPlain
<1>8. Open'
  BY <1>3, <1>4 DEF Open, RunPlain
<1> QED
  BY <1>5, <1>6, <1>7, <1>8 DEF FInv

\* The epilogue catches up with jit.csv and time.csv.
LEMMA FinishFInv ==
  ASSUME FInv, Finish
  PROVE  FInv'
<1>1. cur # NoExec /\ cur.step = "end" /\ cur' = NoExec /\ pos' = pos + 1
  BY DEF Finish
<1>2. CurOK' /\ Open'
  BY <1>1 DEF FInv, CurOK, Open, Finish
<1>3. CASE cur.text \notin Matched
  <2>1. UNCHANGED <<done, timeRows, timeOpen, jitRows, jitOpen, operatorBlocks, reportRows>>
    BY <1>3 DEF Finish, ContainExpr
  <2>2. Files' /\ DoneLines'
    BY <2>1 DEF FInv, Files, DoneLines, LineOf
  <2>3. Lengths'
    BY <1>1, <1>3, <2>1 DEF FInv, Lengths, Ahead
  <2> QED
    BY <1>2, <2>2, <2>3 DEF FInv
<1>4. CASE cur.text \in Matched
  <2> DEFINE x == [n |-> cur.n, text |-> cur.text, exprs |-> Reported(cur.text)]
  <2>1. /\ operatorBlocks' = Append(operatorBlocks, cur.n)
        /\ reportRows' = Append(reportRows, x) /\ x.n = cur.n
        /\ done' = Append(done, cur)
        /\ UNCHANGED <<timeRows, timeOpen, jitRows, jitOpen>>
    BY <1>4 DEF Finish, ContainExpr
  <2> HIDE DEF x
  <2>2. /\ IsSeq(done') /\ Len(done) \in Nat /\ Len(done') = Len(done) + 1
        /\ done'[Len(done) + 1] = cur
        /\ \A i \in 1 .. Len(done) : done'[i] = done[i]
    BY <2>1, AppendIs DEF FInv, Files
  <2>3. /\ IsSeq(reportRows') /\ Len(reportRows') = Len(reportRows) + 1
        /\ reportRows'[Len(reportRows) + 1] = x
        /\ \A i \in 1 .. Len(reportRows) : reportRows'[i] = reportRows[i]
    BY <2>1, AppendIs DEF FInv, Files
  <2>4. /\ IsSeq(operatorBlocks') /\ Len(operatorBlocks') = Len(operatorBlocks) + 1
        /\ operatorBlocks'[Len(operatorBlocks) + 1] = cur.n
        /\ \A i \in 1 .. Len(operatorBlocks) : operatorBlocks'[i] = operatorBlocks[i]
    BY <2>1, AppendIs DEF FInv, Files
  <2>5. Files'
    BY <2>1, <2>2, <2>3, <2>4 DEF FInv, Files
  <2>6. /\ Len(jitRows) = Len(done) + 1 /\ Len(timeRows) = Len(done) + 1
        /\ LineOf(Len(done) + 1, cur.n, cur.text)
        /\ Len(reportRows) = Len(done) /\ Len(operatorBlocks) = Len(done)
    BY <1>1, <1>4 DEF FInv, Lengths, Ahead, DoneLines
  <2>7. ASSUME NEW k \in 1 .. Len(done')
        PROVE  /\ LineOf(k, done'[k].n, done'[k].text)
               /\ reportRows'[k].n = done'[k].n /\ operatorBlocks'[k] = done'[k].n
    <3>1. CASE k = Len(done) + 1
      BY <3>1, <2>1, <2>2, <2>3, <2>4, <2>6
    <3>2. CASE k \in 1 .. Len(done)
      BY <3>2, <2>2, <2>3, <2>4, <2>6 DEF FInv, DoneLines
    <3> QED
      BY <2>2, <3>1, <3>2
  <2>8. DoneLines'
    BY <2>1, <2>2, <2>3, <2>4, <2>6, <2>7 DEF DoneLines, LineOf
  <2>9. Lengths'
    BY <1>1, <2>1, <2>2, <2>6 DEF Lengths, Ahead
  <2> QED
    BY <1>2, <2>5, <2>8, <2>9 DEF FInv
<1> QED
  BY <1>3, <1>4

\* An early failure leaves no fragment behind.
LEMMA FailFInv ==
  ASSUME ExplainWorkload, FInv, Fail
  PROVE  FInv'
<1>1. cur # NoExec /\ cur.step = "run" /\ cur.compiled = 0
      /\ cur' = NoExec /\ pos' = pos + 1
  BY DEF Fail, ExplainWorkload
<1>2. jitOpen = <<>>
  BY <1>1, NoElements DEF FInv, Files, Open
<1>3. Files' /\ CurOK' /\ Open'
  BY <1>1, <1>2 DEF FInv, Files, CurOK, Open, Fail
<1>4. DoneLines'
  BY DEF FInv, DoneLines, LineOf, Fail
<1>5. Lengths'
  BY <1>1 DEF FInv, Lengths, Ahead, Fail
<1> QED
  BY <1>3, <1>4, <1>5 DEF FInv

\* Every step of the workload preserves the invariant.
LEMMA NextFInv ==
  ASSUME ExplainWorkload, FInv, [Next]_vars
  PROVE  FInv'
<1>1. CASE pos <= Len(Script) /\ \E level \in LevelsOf(Script[pos]) : Start(level)
  BY <1>1, StartFInv
<1>2. CASE Compile
  BY <1>2, CompileFInv
<1>3. CASE \E t \in Times : Explain(t) \/ RunPlain(t)
  BY <1>3, ExplainFInv, RunPlainFInv
<1>4. CASE Finish
  BY <1>4, FinishFInv
<1>5. CASE Fail
  BY <1>5, FailFInv
<1>6. CASE UNCHANGED vars
  BY <1>6 DEF vars, FInv, Files, CurOK, DoneLines, LineOf, Lengths, Ahead, Open
<1> QED
  BY <1>1, <1>2, <1>3, <1>4, <1>5, <1>6 DEF Next

\* Between two statements the invariant says that the files are aligned.
LEMMA FInvAligned == FInv => OneLineEach
<1> SUFFICES ASSUME FInv, cur = NoExec
             PROVE  OneLineEach
  BY DEF OneLineEach
<1>1. DOMAIN done = 1 .. Len(done)
  BY AppendIs DEF FInv, Files
<1>2. jitOpen = <<>> /\ Len(jitRows) = Len(done) /\ Len(timeRows) = Len(done)
  BY DEF FInv, Open, Lengths, Ahead
<1> QED
  BY <1>1, <1>2 DEF FInv, DoneLines, LineOf, OneLineEach

(***************************************************************************)
(* The lines of jit.csv, report.csv and time.csv and the blocks of         *)
(* operator.csv belong together, one each for every execution that came to *)
(* its end (exec_simple_query, jit_compile_expr, ExplainOnePlan), in any   *)
(* workload of EXPLAINs without late errors.                               *)
(***************************************************************************)
THEOREM LinesAligned ==
  ASSUME ExplainWorkload
  PROVE  Spec => []OneLineEach
<1>1. FInv /\ [Next]_vars => FInv'
  BY NextFInv
<1> QED
  BY <1>1, InitFInv, FInvAligned, PTL DEF Spec

----------------------------------------------------------------------------
(* Type correctness, for any script and with late errors.                  *)

CurTyped ==
  cur # NoExec =>
    cur \in Execution /\ cur.level \in LevelsOf(cur.text) /\ pos <= Len(Script)

TInv == TypeOK /\ Files /\ CurTyped

\* Appending to a file keeps what holds of every line, if the new one has it.
LEMMA AppendLines ==
  ASSUME NEW s, IsSeq(s), NEW e
  PROVE  /\ IsSeq(Append(s, e))
         /\ \A i \in DOMAIN Append(s, e) :
              Append(s, e)[i] = e \/ (i \in DOMAIN s /\ Append(s, e)[i] = s[i])
<1>1. DOMAIN Append(s, e) = 1 .. Len(s) + 1
  BY AppendIs
<1> QED
  BY <1>1, AppendIs

\* A compiled fragment carries a level of its execution.
LEMMA CompileTInv ==
  ASSUME TInv, Compile
  PROVE  TInv'
<1> DEFINE c == cur.compiled + 1
           f == [n |-> cur.n, expr |-> ToCompile(cur.text)[c], level |-> cur.level[c]]
<1>1. cur \in Execution /\ cur # NoExec /\ cur.level \in LevelsOf(cur.text)
      /\ cur.step = "run" /\ cur.compiled < Len(ToCompile(cur.text))
  BY DEF TInv, CurTyped, Compile
<1>2. ToCompile(cur.text) \in Seq(Nat \X (Nat \ {0}))
  BY InputsAssumption DEF ToCompile, ContainExpr
<1>3. c \in DOMAIN ToCompile(cur.text)
  BY <1>1, <1>2 DEF Execution
<1>4. cur.level[c] \in Levels
  BY <1>1, <1>3 DEF LevelsOf
<1>5. cur' = [cur EXCEPT !.compiled = @ + 1]
  BY DEF Compile
<1>6. /\ cur' \in Execution /\ cur' # NoExec
      /\ cur'.n = cur.n /\ cur'.text = cur.text /\ cur'.step = "run" /\ cur'.level = cur.level
  BY <1>1, <1>5, InputsAssumption DEF Execution
<1>7. jitOpen' = Append(jitOpen, f) /\ f.level \in Levels
  BY <1>4 DEF Compile
<1> HIDE DEF f
<1>8. IsSeq(jitOpen') /\ \A i \in DOMAIN jitOpen' : jitOpen'[i].level \in Levels
  BY <1>7, AppendLines DEF TInv, TypeOK, Files
<1>9. TypeOK'
  BY <1>1, <1>6, <1>8 DEF TInv, TypeOK, Compile
<1>10. Files'
  BY <1>8 DEF TInv, Files, Compile
<1> QED
  BY <1>1, <1>6, <1>9, <1>10 DEF TInv, CurTyped, Compile

\* An execution comes to its end with a time of Times.
LEMMA EndTInv ==
  ASSUME TInv, NEW t \in Times, Explain(t) \/ RunPlain(t)
  PROVE  TInv'
<1> DEFINE j == [n |-> cur.n, exprs |-> jitOpen, time |-> t]
           r == [n |-> cur.n, starts |-> timeOpen]
<1>1. cur \in Execution /\ cur # NoExec /\ cur.level \in LevelsOf(cur.text)
  BY DEF TInv, CurTyped, Explain, RunPlain, Compiled
<1>2. cur' = [cur EXCEPT !.step = "end", !.time = t] /\ t \in Nat
  BY InputsAssumption DEF Explain, RunPlain
<1>3. /\ cur' \in Execution /\ cur' # NoExec
      /\ cur'.n = cur.n /\ cur'.text = cur.text /\ cur'.step = "end" /\ cur'.level = cur.level
  BY <1>1, <1>2, InputsAssumption DEF Execution
<1>4. /\ UNCHANGED <<pos, done, operatorBlocks, reportRows>>
      /\ timeRows' \in {timeRows, Append(timeRows, r)} /\ timeOpen' \in {timeOpen, <<>>}
      /\ jitRows' \in {jitRows, Append(jitRows, j)} /\ jitOpen' \in {jitOpen, <<>>}
      /\ j.time = t
  BY DEF Explain, RunPlain
<1> HIDE DEF j, r
<1>5. IsSeq(jitRows') /\ \A i \in DOMAIN jitRows' : jitRows'[i].time \in Times
  <2>1. CASE jitRows' = jitRows
    BY <2>1 DEF TInv, TypeOK, Files
  <2>2. CASE jitRows' = Append(jitRows, j)
    BY <2>2, <1>4, AppendLines DEF TInv, TypeOK, Files
  <2> QED
    BY <2>1, <2>2, <1>4
<1>6. Files'
  BY <1>4, <1>5, AppendLines, EmptyIs DEF TInv, Files
<1>7. \A i \in DOMAIN jitOpen' : jitOpen'[i].level \in Levels
  BY <1>4 DEF TInv, TypeOK
<1>8. TypeOK'
  BY <1>1, <1>3, <1>4, <1>5, <1>7 DEF TInv, TypeOK
<1> QED
  BY <1>1, <1>3, <1>4, <1>6, <1>8 DEF TInv, CurTyped

\* The first state has the types.
LEMMA InitTInv == Init => TInv
BY EmptyIs, InputsAssumption DEF Init, TInv, TypeOK, Files, CurTyped

\* Every step keeps them.
LEMMA NextTInv ==
  ASSUME TInv, [Next]_vars
  PROVE  TInv'
<1>1. Len(Script) \in Nat /\ pos \in 1 .. Len(Script) + 1
  BY InputsAssumption DEF TInv, TypeOK
<1>2. ASSUME pos <= Len(Script), NEW level \in LevelsOf(Script[pos]), Start(level)
      PROVE  TInv'
  <2> DEFINE t == Script[pos]
  <2>1. pos \in 1 .. Len(Script) /\ t \in STRING
    BY <1>1, <1>2, InputsAssumption
  <2>2. cur' = [n |-> pos, text |-> t, level |-> level, compiled |-> 0,
                time |-> 0, step |-> "run"]
    BY <1>2 DEF Start
  <2>3. level \in UNION {LevelsOf(Script[i]) : i \in DOMAIN Script}
    BY <1>2, <2>1, InputsAssumption
  <2>4. cur' \in Execution /\ cur'.level \in LevelsOf(cur'.text)
    BY <2>1, <2>2, <2>3 DEF Execution
  <2>5. IsSeq(timeOpen')
    BY <1>2, AppendLines DEF TInv, Files, Start
  <2>6. Files'
    BY <1>2, <2>5 DEF TInv, Files, Start
  <2>7. TypeOK'
    BY <1>2, <2>2 DEF TInv, TypeOK, Start
  <2> QED
    BY <1>2, <2>4, <2>6, <2>7 DEF TInv, CurTyped, Start
<1>3. CASE Compile
  BY <1>3, CompileTInv
<1>4. CASE \E t \in Times : Explain(t) \/ RunPlain(t)
  BY <1>4, EndTInv
<1>5. CASE Finish
  <2>1. /\ cur # NoExec /\ cur \in Execution /\ cur' = NoExec
        /\ pos' = pos + 1 /\ pos <= Len(Script)
    BY <1>5 DEF Finish, TInv, CurTyped
  <2>2. pos' \in 1 .. Len(Script) + 1
    BY <1>1, <2>1
  <2>3. UNCHANGED <<timeRows, timeOpen, jitRows, jitOpen>>
    BY <1>5 DEF Finish
  <2>4. IsSeq(operatorBlocks') /\ IsSeq(reportRows')
    <3>1. CASE UNCHANGED <<operatorBlocks, reportRows>>
      BY <3>1 DEF TInv, Files
    <3>2. ASSUME NEW r, NEW b, operatorBlocks' = Append(operatorBlocks, b),
                 reportRows' = Append(reportRows, r)
          PROVE  IsSeq(operatorBlocks') /\ IsSeq(reportRows')
      BY <3>2, AppendLines DEF TInv, Files
    <3> QED
      BY <1>5, <3>1, <3>2 DEF Finish
  <2>5. IsSeq(done') /\ \A i \in DOMAIN done' : done'[i].text \in Matched
    <3>1. CASE done' = done
      BY <3>1 DEF TInv, TypeOK, Files
    <3>2. CASE done' = Append(done, cur) /\ cur.text \in Matched
      BY <3>2, AppendLines DEF TInv, TypeOK, Files
    <3> QED
      BY <1>5, <3>1, <3>2 DEF Finish, ContainExpr
  <2>6. TypeOK'
    BY <2>1, <2>2, <2>3, <2>5 DEF TInv, TypeOK
  <2> QED
    BY <2>1, <2>3, <2>4, <2>5, <2>6 DEF TInv, Files, CurTyped
<1>6. CASE Fail
  <2>1. /\ cur # NoExec /\ cur' = NoExec /\ pos' = pos + 1 /\ pos <= Len(Script)
        /\ UNCHANGED <<done, timeRows, timeOpen, jitRows, jitOpen, operatorBlocks, reportRows>>
    BY <1>6 DEF Fail, TInv, CurTyped
  <2>2. pos' \in 1 .. Len(Script) + 1
    BY <1>1, <2>1
  <2> QED
    BY <2>1, <2>2 DEF TInv, TypeOK, Files, CurTyped
<1>7. CASE UNCHANGED vars
  BY <1>7 DEF vars, TInv, TypeOK, Files, CurTyped
<1> QED
  BY <1>2, <1>3, <1>4, <1>5, <1>6, <1>7 DEF Next

(***************************************************************************)
(* For any script, with statements that are not explained and with late    *)
(* errors: the execution at work is the statement of the script that is    *)
(* due, its fragments carry levels and its lines times, and only           *)
(* classified statements count as done (exec_simple_query).                *)
(***************************************************************************)
THEOREM FilesTyped == Spec => []TypeOK
<1>1. TInv /\ [Next]_vars => TInv'
  BY NextTInv
<1>2. TInv => TypeOK
  BY DEF TInv
<1> QED
  BY <1>1, <1>2, InitTInv, PTL DEF Spec

----------------------------------------------------------------------------
(* What the lines hold, and what the analysis makes of them.               *)

\* Line j of jit.csv is what execution x has written.
Row(j, x) ==
  /\ j.time = x.time
  /\ DOMAIN j.exprs = DOMAIN Compiles[x.text]
  /\ \A i \in DOMAIN Compiles[x.text] :
       /\ j.exprs[i].expr = Compiles[x.text][i]
       /\ j.exprs[i].level = x.level[i]

\* x is an execution that came to its end before position p of the script.
Finished(x, p) ==
  /\ x.n \in 1 .. Len(Script) /\ x.n < p /\ x.text = Script[x.n] /\ x.text \in Matched
  /\ x.level \in LevelsOf(x.text) /\ x.time \in Times

Kept ==
  \A k \in 1 .. Len(done) :
    /\ Finished(done[k], pos) /\ Row(jitRows[k], done[k])
    /\ reportRows[k].text = done[k].text /\ reportRows[k].exprs = Reported(done[k].text)

InOrder == \A k, l \in 1 .. Len(done) : k < l => done[k].n < done[l].n

Pending == Ahead => Row(jitRows[Len(done) + 1], cur) /\ cur.time \in Times

Written ==
  cur # NoExec /\ cur.step = "run" =>
    \A i \in 1 .. Len(jitOpen) :
      /\ jitOpen[i].expr = ToCompile(cur.text)[i]
      /\ jitOpen[i].level = cur.level[i]

\* The lines hold what their executions compiled, with which levels and times.
AInv == Kept /\ InOrder /\ Pending /\ Written

\* An execution that starts has no line yet.
LEMMA StartAInv ==
  ASSUME FInv, TInv, AInv, pos <= Len(Script),
         NEW level \in LevelsOf(Script[pos]), Start(level), FInv', TInv'
  PROVE  AInv'
<1>1. /\ cur = NoExec /\ cur' # NoExec /\ cur'.step = "run" /\ cur'.compiled = 0
      /\ UNCHANGED <<pos, done, jitRows, jitOpen, reportRows>>
  <2>1. cur' = [n |-> pos, text |-> Script[pos], level |-> level, compiled |-> 0,
                time |-> 0, step |-> "run"]
    BY DEF Start
  <2>2. cur' # NoExec
    <3>1. pos \in 1 .. Len(Script) /\ Script[pos] \in STRING
          /\ level \in UNION {LevelsOf(Script[i]) : i \in DOMAIN Script}
      BY InputsAssumption DEF TInv, TypeOK
    <3>2. cur' \in Execution
      BY <2>1, <3>1 DEF Execution
    <3> QED
      BY <3>2, InputsAssumption
  <2> QED
    BY <2>1, <2>2 DEF Start
<1>2. Len(jitOpen') = 0
  BY <1>1 DEF FInv, Open
<1>3. Kept' /\ InOrder'
  BY <1>1 DEF AInv, Kept, InOrder, Finished, Row
<1>4. Pending' /\ Written'
  BY <1>1, <1>2 DEF Pending, Written, Ahead
<1> QED
  BY <1>3, <1>4 DEF AInv

\* A fragment holds the expression that is due, with its level.
LEMMA CompileAInv ==
  ASSUME FInv, TInv, AInv, Compile
  PROVE  AInv'
<1> DEFINE c == cur.compiled + 1
           e == ToCompile(cur.text)[c]
           f == [n |-> cur.n, expr |-> e, level |-> cur.level[c]]
<1>1. /\ cur \in Execution /\ cur # NoExec /\ cur.step = "run"
      /\ Len(jitOpen) = cur.compiled /\ UNCHANGED <<pos, done, jitRows, reportRows>>
      /\ cur' = [cur EXCEPT !.compiled = @ + 1]
  BY DEF FInv, CurOK, Open, Compile
<1>2. cur'.text = cur.text /\ cur'.level = cur.level /\ cur'.step = "run"
  BY <1>1 DEF Execution
<1>3. jitOpen' = Append(jitOpen, f) /\ f.expr = e /\ f.level = cur.level[c]
  BY DEF Compile
<1> HIDE DEF f
<1>4. /\ Len(jitOpen) \in Nat /\ Len(jitOpen') = Len(jitOpen) + 1
      /\ jitOpen'[Len(jitOpen) + 1] = f
      /\ \A i \in 1 .. Len(jitOpen) : jitOpen'[i] = jitOpen[i]
  BY <1>3, AppendIs DEF FInv, Files
<1>5. ASSUME NEW i \in 1 .. Len(jitOpen')
      PROVE  /\ jitOpen'[i].expr = ToCompile(cur.text)[i]
             /\ jitOpen'[i].level = cur.level[i]
  <2>1. CASE i = Len(jitOpen) + 1
    BY <1>1, <1>3, <1>4, <2>1
  <2>2. CASE i \in 1 .. Len(jitOpen)
    BY <1>1, <1>4, <2>2, Zenon DEF AInv, Written
  <2> QED
    BY <1>4, <2>1, <2>2
<1>6. Written'
  BY <1>2, <1>5 DEF Written
<1>7. Kept' /\ InOrder'
  BY <1>1 DEF AInv, Kept, InOrder, Finished, Row
<1>8. Pending'
  BY <1>2 DEF Pending, Ahead
<1> QED
  BY <1>6, <1>7, <1>8 DEF AInv

\* ExplainOnePlan makes a line of the fragments and the time.
LEMMA ExplainAInv ==
  ASSUME FInv, TInv, AInv, NEW t \in Times, Explain(t)
  PROVE  AInv'
<1> DEFINE j == [n |-> cur.n, exprs |-> jitOpen, time |-> t]
<1>1. /\ cur \in Execution /\ cur # NoExec /\ cur.step = "run" /\ cur.text \in Matched
      /\ cur.compiled = Len(ToCompile(cur.text)) /\ Len(jitOpen) = cur.compiled
      /\ cur' = [cur EXCEPT !.step = "end", !.time = t]
      /\ UNCHANGED <<pos, done, reportRows>> /\ jitRows' = Append(jitRows, j)
  BY DEF FInv, CurOK, Open, Explain, Compiled
<1>2. /\ cur'.text = cur.text /\ cur'.level = cur.level /\ cur'.step = "end" /\ cur'.time = t
  BY <1>1 DEF Execution
<1>3. j.exprs = jitOpen /\ j.time = t
  OBVIOUS
<1> HIDE DEF j
<1>4. /\ Len(jitRows') = Len(jitRows) + 1 /\ jitRows'[Len(jitRows) + 1] = j
      /\ \A i \in 1 .. Len(jitRows) : jitRows'[i] = jitRows[i]
  BY <1>1, AppendIs DEF FInv, Files
<1>5. Len(jitRows) = Len(done)
  BY <1>1 DEF FInv, Lengths, Ahead
<1>6. ToCompile(cur.text) = Compiles[cur.text] /\ Compiles[cur.text] \in Seq(Nat \X (Nat \ {0}))
  BY <1>1, InputsAssumption DEF ToCompile, ContainExpr
<1>7. DOMAIN jitOpen = 1 .. Len(jitOpen) /\ DOMAIN jitOpen = DOMAIN Compiles[cur.text]
  BY <1>1, <1>6, AppendIs DEF FInv, Files
<1>8. Row(j, cur')
  BY <1>1, <1>2, <1>3, <1>6, <1>7 DEF AInv, Written, Row
<1>9. Pending'
  BY <1>1, <1>2, <1>4, <1>5, <1>8 DEF Pending, Row
<1>10. Kept' /\ InOrder'
  BY <1>1, <1>4, <1>5 DEF AInv, Kept, InOrder, Finished, Row
<1>11. Written'
  BY <1>2 DEF Written
<1> QED
  BY <1>9, <1>10, <1>11 DEF AInv

\* The epilogue adds the execution and its line of report.csv.
LEMMA FinishAInv ==
  ASSUME FInv, TInv, AInv, Finish
  PROVE  AInv'
<1>1. /\ cur \in Execution /\ cur # NoExec /\ cur.step = "end" /\ cur' = NoExec
      /\ pos \in Nat /\ pos' = pos + 1 /\ cur.n = pos /\ cur.text = Script[pos]
      /\ pos \in 1 .. Len(Script) /\ cur.level \in LevelsOf(cur.text) /\ jitRows' = jitRows
  BY InputsAssumption DEF FInv, CurOK, TInv, CurTyped, TypeOK, Finish
<1>2. Pending' /\ Written'
  BY <1>1 DEF Pending, Written, Ahead
<1>3. \A x : Finished(x, pos) => Finished(x, pos')
  BY <1>1 DEF Finished
<1>4. CASE cur.text \notin Matched
  <2>1. UNCHANGED <<done, reportRows>>
    BY <1>4 DEF Finish, ContainExpr
  <2>2. InOrder'
    BY <2>1 DEF AInv, InOrder
  <2>3. Kept'
    BY <1>1, <1>3, <2>1 DEF AInv, Kept
  <2> QED
    BY <1>2, <2>2, <2>3 DEF AInv
<1>5. CASE cur.text \in Matched
  <2> DEFINE x == [n |-> cur.n, text |-> cur.text, exprs |-> Reported(cur.text)]
  <2>1. /\ reportRows' = Append(reportRows, x) /\ done' = Append(done, cur)
        /\ x.text = cur.text /\ x.exprs = Reported(cur.text)
    BY <1>5 DEF Finish, ContainExpr
  <2> HIDE DEF x
  <2>2. /\ Len(done) \in Nat /\ Len(done') = Len(done) + 1
        /\ done'[Len(done) + 1] = cur
        /\ \A i \in 1 .. Len(done) : done'[i] = done[i]
    BY <2>1, AppendIs DEF FInv, Files
  <2>3. /\ Len(reportRows) = Len(done) /\ reportRows'[Len(done) + 1] = x
        /\ \A i \in 1 .. Len(done) : reportRows'[i] = reportRows[i]
    BY <2>1, AppendIs DEF FInv, Files, DoneLines
  <2>4. Row(jitRows[Len(done) + 1], cur) /\ cur.time \in Times
    BY <1>1, <1>5 DEF AInv, Pending, Ahead
  <2>5. Finished(cur, pos')
    BY <1>1, <1>5, <2>4 DEF Finished
  <2>6. ASSUME NEW k \in 1 .. Len(done')
        PROVE  /\ Finished(done'[k], pos') /\ Row(jitRows'[k], done'[k])
               /\ reportRows'[k].text = done'[k].text
               /\ reportRows'[k].exprs = Reported(done'[k].text)
    <3>1. CASE k = Len(done) + 1
      BY <1>1, <2>1, <2>2, <2>3, <2>4, <2>5, <3>1
    <3>2. CASE k \in 1 .. Len(done)
      BY <1>1, <1>3, <2>2, <2>3, <3>2 DEF AInv, Kept
    <3> QED
      BY <2>2, <3>1, <3>2
  <2>7. Kept'
    BY <2>6 DEF Kept
  <2>8. ASSUME NEW k \in 1 .. Len(done'), NEW l \in 1 .. Len(done'), k < l
        PROVE  done'[k].n < done'[l].n
    <3>1. k \in 1 .. Len(done) /\ done'[k] = done[k] /\ done[k].n < pos
      BY <2>2, <2>8 DEF AInv, Kept, Finished
    <3>2. CASE l = Len(done) + 1
      BY <1>1, <2>2, <3>1, <3>2
    <3>3. CASE l \in 1 .. Len(done)
      BY <2>2, <2>8, <3>1, <3>3 DEF AInv, InOrder
    <3> QED
      BY <2>2, <3>2, <3>3
  <2>9. InOrder'
    BY <2>8 DEF InOrder
  <2> QED
    BY <1>2, <2>7, <2>9 DEF AInv
<1> QED
  BY <1>4, <1>5

\* Every step of the workload preserves what the lines hold.
LEMMA NextAInv ==
  ASSUME ExplainWorkload, FInv, TInv, AInv, [Next]_vars, FInv', TInv'
  PROVE  AInv'
<1>1. CASE pos <= Len(Script) /\ \E level \in LevelsOf(Script[pos]) : Start(level)
  BY <1>1, StartAInv
<1>2. CASE Compile
  BY <1>2, CompileAInv
<1>3. ASSUME NEW t \in Times, Explain(t)
      PROVE  AInv'
  BY <1>3, ExplainAInv
<1>4. ASSUME NEW t \in Times, RunPlain(t)
      PROVE  AInv'
  <2>1. /\ cur \in Execution /\ cur # NoExec /\ cur.text \notin Matched
        /\ cur' = [cur EXCEPT !.step = "end", !.time = t]
        /\ UNCHANGED <<pos, done, jitRows, jitOpen, reportRows>>
    BY <1>4 DEF FInv, CurOK, RunPlain, Compiled
  <2>2. cur'.text = cur.text /\ cur'.step = "end"
    BY <2>1 DEF Execution
  <2>3. Pending' /\ Written'
    BY <2>1, <2>2 DEF Pending, Written, Ahead
  <2> QED
    BY <2>1, <2>3 DEF AInv, Kept, InOrder
<1>5. CASE Finish
  BY <1>5, FinishAInv
<1>6. CASE Fail
  <2>1. /\ cur' = NoExec /\ pos \in Nat /\ pos' = pos + 1
        /\ UNCHANGED <<done, jitRows, jitOpen, reportRows>>
    BY <1>6 DEF FInv, CurOK, Fail
  <2>2. \A x : Finished(x, pos) => Finished(x, pos')
    BY <2>1 DEF Finished
  <2>3. Kept' /\ InOrder'
    BY <2>1, <2>2 DEF AInv, Kept, InOrder
  <2> QED
    BY <2>1, <2>3 DEF AInv, Pending, Written, Ahead
<1>7. CASE UNCHANGED vars
  BY <1>7 DEF vars, AInv, Kept, InOrder, Pending, Ahead, Written
<1> QED
  BY <1>1, <1>2, <1>3, <1>4, <1>5, <1>6, <1>7 DEF Next

----------------------------------------------------------------------------
(* What a line of report.csv holds.                                        *)

\* A function on 1 .. m is a sequence of m elements.
LEMMA FunSeq ==
  ASSUME NEW S, NEW m \in Nat, NEW f \in [1 .. m -> S]
  PROVE  f \in Seq(S) /\ Len(f) = m
<1>1. f \in Seq(S)
  BY SeqDef
<1>2. Len(f) \in Nat /\ 1 .. Len(f) = 1 .. m
  BY <1>1, LenProperties
<1> QED
  BY <1>1, <1>2

\* Every entry of r with an operator is one of C, and there are at most k.
EntriesOf(r, C, k) ==
  /\ Len(r) <= k
  /\ \A a \in DOMAIN r : r[a][2] # 0 => \E i \in DOMAIN C : C[i] = r[a]

\* The next compilation adds an entry of its own or none.
LEMMA NextEntry ==
  ASSUME NEW t \in Matched, NEW k \in 1 .. Len(ToCompile(t)), NEW r \in Seq(Nat \X Nat)
  PROVE  /\ Append(r, Entry(t, ToCompile(t)[k])) \in Seq(Nat \X Nat)
         /\ EntriesOf(r, ToCompile(t), k - 1) =>
              /\ EntriesOf(r, ToCompile(t), k)
              /\ EntriesOf(Append(r, Entry(t, ToCompile(t)[k])), ToCompile(t), k)
<1> DEFINE C == ToCompile(t)
           e == Entry(t, C[k])
           a == Append(r, e)
<1>1. C \in Seq(Nat \X (Nat \ {0})) /\ k \in DOMAIN C
  BY InputsAssumption DEF ToCompile, ContainExpr
<1>2. C[k] \in Nat \X (Nat \ {0})
  BY <1>1
<1>3. e \in Nat \X Nat /\ (e[2] # 0 => C[k] = e)
  BY <1>2 DEF Entry
<1> HIDE DEF e, C
<1>4. /\ a \in Seq(Nat \X Nat) /\ Len(r) \in Nat /\ Len(a) = Len(r) + 1
      /\ DOMAIN r = 1 .. Len(r) /\ DOMAIN a = 1 .. Len(r) + 1
      /\ a[Len(r) + 1] = e /\ \A i \in 1 .. Len(r) : a[i] = r[i]
  BY <1>3
<1> HIDE DEF a
<1>5. k \in Nat
  BY <1>1
<1>6. ASSUME EntriesOf(r, C, k - 1)
      PROVE  EntriesOf(r, C, k) /\ EntriesOf(a, C, k)
  <2>1. Len(r) <= k /\ Len(a) <= k
    BY <1>4, <1>5, <1>6 DEF EntriesOf
  <2>2. ASSUME NEW i \in DOMAIN a, a[i][2] # 0
        PROVE  \E l \in DOMAIN C : C[l] = a[i]
    <3>1. CASE i = Len(r) + 1
      BY <1>1, <1>3, <1>4, <2>2, <3>1, Zenon
    <3>2. CASE i \in 1 .. Len(r)
      BY <1>4, <1>6, <2>2, <3>2, Zenon DEF EntriesOf
    <3> QED
      BY <1>4, <3>1, <3>2
  <2> QED
    BY <1>6, <2>1, <2>2 DEF EntriesOf
<1> QED
  BY <1>4, <1>6 DEF a, e, C

(***************************************************************************)
(* The report of a statement is no longer than what it compiles, and each  *)
(* entry with an operator was compiled.                                    *)
(***************************************************************************)
LEMMA ReportedIs ==
  ASSUME NEW t \in Matched
  PROVE  /\ Compiles[t] \in Seq(Nat \X (Nat \ {0})) /\ Reported(t) \in Seq(Nat \X Nat)
         /\ EntriesOf(Reported(t), Compiles[t], Len(Compiles[t]))
<1> DEFINE C == ToCompile(t)
           n == Len(C)
           Add(r, k) == IF \E i \in 1 .. k - 1 : SameEntry(t, i, k) THEN r
                        ELSE Append(r, Entry(t, ToCompile(t)[k]))
           H == CHOOSE h : h = [k \in 0 .. n |-> IF k = 0 THEN <<>> ELSE Add(h[k - 1], k)]
           Lists == Seq(Nat \X Nat)
           step == [k \in 1 .. n |-> [r \in Lists |-> Add(r, k)]]
<1>1. Reported(t) = H[n]
  BY Zenon DEF Reported
<1>2. C = Compiles[t] /\ C \in Seq(Nat \X (Nat \ {0})) /\ n \in Nat
  BY InputsAssumption, LenProperties DEF ToCompile, ContainExpr
<1>3. <<>> \in Lists /\ Len(<<>>) = 0 /\ DOMAIN <<>> = {}
  BY EmptySeq
<1>4. ASSUME NEW k \in 1 .. n, NEW r \in Lists
      PROVE  Add(r, k) \in Lists /\ (EntriesOf(r, C, k - 1) => EntriesOf(Add(r, k), C, k))
  BY NextEntry, Zenon
<1> HIDE DEF n, C, Add, Lists
<1>5. step \in Steps(n, Lists)
  BY <1>4 DEF Steps
<1>6. PICK f \in [0 .. n -> Lists] : Iterates(f, n, <<>>, step)
  <2> HIDE DEF step
  <2> QED
    BY <1>2, <1>3, <1>5, RecursionExists, Zenon
<1>7. f = [k \in 0 .. n |-> IF k = 0 THEN <<>> ELSE Add(f[k - 1], k)]
  <2>1. ASSUME NEW k \in 0 .. n
        PROVE  f[k] = IF k = 0 THEN <<>> ELSE Add(f[k - 1], k)
    <3>1. f[k] = IF k = 0 THEN <<>> ELSE step[k][f[k - 1]]
      BY <1>6, Zenon DEF Iterates
    <3>2. CASE k = 0
      BY <3>1, <3>2
    <3>3. CASE k # 0
      <4>1. k \in 1 .. n /\ f[k - 1] \in Lists
        BY <1>2, <3>3
      <4>2. step[k][f[k - 1]] = Add(f[k - 1], k)
        BY <4>1, Zenon
      <4> QED
        BY <3>1, <3>3, <4>2, Zenon
    <3> QED
      BY <3>2, <3>3
  <2>2. f = [k \in 0 .. n |-> f[k]]
    OBVIOUS
  <2> QED
    BY <2>1, <2>2, Zenon
<1>8. H = [k \in 0 .. n |-> IF k = 0 THEN <<>> ELSE Add(H[k - 1], k)]
  BY <1>7, Zenon
<1> DEFINE T == {k \in 0 .. n : H[k] \in Lists /\ EntriesOf(H[k], C, k)}
<1> HIDE DEF H
<1>9. 0 \in T
  <2>1. H[0] = <<>> /\ 0 \in 0 .. n
    BY <1>2, <1>8
  <2>2. EntriesOf(<<>>, C, 0)
    BY <1>3 DEF EntriesOf
  <2> QED
    BY <1>3, <2>1, <2>2, Zenon
<1>10. ASSUME NEW k \in 1 .. n, k - 1 \in T
       PROVE  k \in T
  <2>1. k \in 0 .. n /\ k # 0 /\ H[k - 1] \in Lists /\ EntriesOf(H[k - 1], C, k - 1)
    BY <1>2, <1>10
  <2>2. H[k] = Add(H[k - 1], k)
    BY <1>8, <2>1, Zenon
  <2> QED
    BY <1>4, <2>1, <2>2, Zenon
<1>11. T \in SUBSET Nat
  BY <1>2
<1> HIDE DEF T
<1>12. \A k \in 0 .. n : k \in T
  BY <1>2, <1>9, <1>10, <1>11, BoundedInd
<1>13. n \in T
  BY <1>2, <1>12
<1> QED
  BY <1>1, <1>2, <1>13, Zenon DEF T, Lists, n

----------------------------------------------------------------------------
(* One round of the analysis.                                              *)

\* A set of numbers up to n has a greatest one.
LEMMA GreatestMember ==
  ASSUME NEW n \in Nat, NEW P \in SUBSET (1 .. n), P # {}
  PROVE  \E m \in P : \A k \in P : k <= m
<1> DEFINE Q == {n - k : k \in P}
<1>0. \A k \in P : k \in Nat /\ n - k \in Nat
  OBVIOUS
<1>1. Q \in SUBSET Nat /\ Q # {}
  BY <1>0
<1>2. PICK q \in Q : \A k \in Q : q <= k
  <2> HIDE DEF Q
  <2> QED
    BY <1>1, LeastMember
<1>3. PICK m \in P : q = n - m
  OBVIOUS
<1>4. \A k \in P : n - m <= n - k
  BY <1>2, <1>3
<1> QED
  BY <1>4

(***************************************************************************)
(* s is best with what the line of x teaches: for an expression the level  *)
(* of its last entry with an operator, and nothing new for an expression   *)
(* without one.                                                            *)
(***************************************************************************)
Teaches(s, best, x) ==
  LET t    == x.text
      R    == Reported(t)
      keys == {<<t, R[k][1]>> : k \in DOMAIN R}
  IN  /\ s = [y \in DOMAIN best \cup keys |-> s[y]]
      /\ \A y \in DOMAIN best : y \notin keys => s[y] = best[y]
      /\ \A y \in keys : s[y] \in Levels \cup {0} \/ (y \in DOMAIN best /\ s[y] = best[y])
      /\ \A k \in DOMAIN R : LastOfId(t, k) => s[<<t, R[k][1]>>] = x.level[k]
      /\ \A k \in DOMAIN R : Unreached(t, R[k][1]) =>
           LET y == <<t, R[k][1]>> IN s[y] = IF y \in DOMAIN best THEN best[y] ELSE 0

LEMMA SetLevelsIs ==
  ASSUME NEW best, NEW j, NEW e, NEW x, x.text \in Matched, x.level \in LevelsOf(x.text),
         Row(j, x), e.text = x.text, e.exprs = Reported(x.text)
  PROVE  Teaches(SetLevels(best, j, e), best, x)
<1> DEFINE t       == x.text
           C       == Compiles[t]
           R       == Reported(t)
           Key(k)  == <<e.text, e.exprs[k][1]>>
           hits(y) == {k \in DOMAIN e.exprs :
                         Key(k) = y /\ \E i \in DOMAIN j.exprs : j.exprs[i].expr = e.exprs[k]}
           last(y) == CHOOSE k \in hits(y) : \A l \in hits(y) : l <= k
           keys    == {<<t, R[k][1]>> : k \in DOMAIN R}
           s       == SetLevels(best, j, e)
<1>1. s = [y \in DOMAIN best \cup {Key(k) : k \in DOMAIN e.exprs} |->
             IF hits(y) # {} THEN j.exprs[last(y)].level
             ELSE IF y \in DOMAIN best THEN best[y] ELSE 0]
  BY Zenon DEF SetLevels
<1>2. /\ C \in Seq(Nat \X (Nat \ {0})) /\ R \in Seq(Nat \X Nat) /\ EntriesOf(R, C, Len(C))
  BY ReportedIs, Zenon
<1>r. /\ DOMAIN j.exprs = DOMAIN C
      /\ \A i \in DOMAIN C : j.exprs[i].expr = C[i] /\ j.exprs[i].level = x.level[i]
  BY Zenon DEF Row
<1>k. \A k : Key(k) = <<t, R[k][1]>>
  OBVIOUS
<1>l. x.level \in [DOMAIN C -> Levels]
  BY Zenon DEF LevelsOf, ToCompile, ContainExpr
<1>e. e.exprs = R
  OBVIOUS
<1> HIDE DEF C, R, Key, s
<1>3. /\ DOMAIN R = 1 .. Len(R) /\ DOMAIN C = 1 .. Len(C) /\ Len(R) \in Nat
      /\ \A k \in DOMAIN R : k \in DOMAIN C
  BY <1>2 DEF EntriesOf
<1>4. ASSUME NEW k \in DOMAIN R
      PROVE  (\E i \in DOMAIN j.exprs : j.exprs[i].expr = R[k]) <=> R[k][2] # 0
  <2>1. \A i \in DOMAIN C : C[i][2] # 0
    BY <1>2
  <2>2. R[k][2] # 0 => \E i \in DOMAIN C : C[i] = R[k]
    BY <1>2, Zenon DEF EntriesOf
  <2>3. R[k][2] # 0 => \E i \in DOMAIN j.exprs : j.exprs[i].expr = R[k]
    BY <1>r, <2>2
  <2>4. ASSUME NEW i \in DOMAIN j.exprs, j.exprs[i].expr = R[k]
        PROVE  R[k][2] # 0
    <3>1. C[i] = R[k]
      BY <1>r, <2>4
    <3> QED
      BY <1>r, <2>1, <3>1
  <2> QED
    BY <2>3, <2>4
<1>5. \A y, k : k \in hits(y) <=> k \in DOMAIN R /\ Key(k) = y /\ R[k][2] # 0
  BY <1>4, <1>e, Zenon
<1> HIDE DEF hits
<1>6. ASSUME NEW y, hits(y) # {}
      PROVE  last(y) \in hits(y) /\ \A l \in hits(y) : l <= last(y)
  <2>1. hits(y) \in SUBSET (1 .. Len(R))
    BY <1>3, <1>5
  <2>2. \E m \in hits(y) : \A k \in hits(y) : k <= m
    BY <1>3, <1>6, <2>1, GreatestMember
  <2> QED
    BY <2>2, Zenon
<1> HIDE DEF last
<1>7. \A k \in DOMAIN R : j.exprs[k].level = x.level[k] /\ x.level[k] \in Levels
  BY <1>3, <1>l, <1>r
<1>8. s = [y \in DOMAIN best \cup keys |->
             IF hits(y) # {} THEN j.exprs[last(y)].level
             ELSE IF y \in DOMAIN best THEN best[y] ELSE 0]
  <2>1. {Key(k) : k \in DOMAIN e.exprs} = keys
    BY <1>e, <1>k, Zenon
  <2> QED
    BY <1>1, <2>1, Zenon
<1>9. \A k \in DOMAIN R : Key(k) \in keys
  BY <1>k
<1>10. s = [y \in DOMAIN best \cup keys |-> s[y]]
  BY <1>8
<1>11. ASSUME NEW y \in DOMAIN best, y \notin keys
       PROVE  s[y] = best[y]
  <2>1. hits(y) = {}
    BY <1>5, <1>9, <1>11, Zenon
  <2> QED
    BY <1>8, <2>1, Zenon
<1>12. ASSUME NEW y \in keys
       PROVE  s[y] \in Levels \cup {0} \/ (y \in DOMAIN best /\ s[y] = best[y])
  <2>1. CASE hits(y) # {}
    <3>1. s[y] = j.exprs[last(y)].level
      BY <1>8, <2>1, Zenon
    <3>2. last(y) \in DOMAIN R
      BY <1>5, <1>6, <2>1, Zenon
    <3> QED
      BY <1>7, <3>1, <3>2
  <2>2. CASE hits(y) = {}
    <3>1. s[y] = IF y \in DOMAIN best THEN best[y] ELSE 0
      BY <1>8, <2>2, Zenon
    <3> QED
      BY <3>1
  <2> QED
    BY <2>1, <2>2
<1>13. ASSUME NEW k \in DOMAIN R, LastOfId(t, k)
       PROVE  s[Key(k)] = x.level[k]
  <2>1. /\ R[k][2] # 0
        /\ \A l \in DOMAIN R : R[l][1] = R[k][1] /\ R[l][2] # 0 => l <= k
    BY <1>13 DEF LastOfId, R
  <2>2. k \in hits(Key(k)) /\ hits(Key(k)) # {}
    BY <1>5, <2>1, Zenon
  <2>3. last(Key(k)) \in DOMAIN R /\ Key(last(Key(k))) = Key(k) /\ R[last(Key(k))][2] # 0
        /\ k <= last(Key(k))
    BY <1>5, <1>6, <2>2, Zenon
  <2>4. R[last(Key(k))][1] = R[k][1]
    BY <1>k, <2>3
  <2>5. last(Key(k)) = k
    BY <1>3, <2>1, <2>3, <2>4
  <2>6. s[Key(k)] = j.exprs[last(Key(k))].level
    BY <1>8, <1>9, <2>2, Zenon
  <2> QED
    BY <1>7, <2>5, <2>6
<1>14. ASSUME NEW k \in DOMAIN R, Unreached(t, R[k][1])
       PROVE  s[Key(k)] = IF Key(k) \in DOMAIN best THEN best[Key(k)] ELSE 0
  <2>1. \A l \in DOMAIN R : R[l][1] = R[k][1] => R[l][2] = 0
    BY <1>14 DEF Unreached, R
  <2>2. \A l : Key(l) = Key(k) => R[l][1] = R[k][1]
    BY <1>k
  <2>3. hits(Key(k)) = {}
    BY <1>5, <2>1, <2>2, Zenon
  <2> QED
    BY <1>8, <1>9, <2>3, Zenon
<1>15. /\ \A k \in DOMAIN R : LastOfId(t, k) => s[<<t, R[k][1]>>] = x.level[k]
       /\ \A k \in DOMAIN R : Unreached(t, R[k][1]) =>
            LET y == <<t, R[k][1]>> IN s[y] = IF y \in DOMAIN best THEN best[y] ELSE 0
  BY <1>13, <1>14, <1>k, Zenon
<1> HIDE DEF keys
<1> QED
  BY <1>10, <1>11, <1>12, <1>15, Zenon DEF s, keys, Teaches, R

(***************************************************************************)
(* The states of the analysis.                                             *)
(***************************************************************************)
Bests == UNION {[D -> Levels \cup {0}] : D \in SUBSET (STRING \X Nat)}

Analysis == [seen : SUBSET Seq(Nat \X (Nat \ {0})), min_time : Nat, best : Bests]

LEMMA NothingTyped == NothingLearned \in Analysis
<1>1. <<>> \in [{} -> Levels \cup {0}]
  OBVIOUS
<1>2. <<>> \in Bests
  BY <1>1 DEF Bests
<1> QED
  BY <1>2 DEF NothingLearned, Analysis

\* What the analysis holds for the expressions of x.
Holds(best, x) ==
  \A i \in DOMAIN Reported(x.text) :
    LET y == <<x.text, Reported(x.text)[i][1]>> IN
    y \in DOMAIN best /\ (LastOfId(x.text, i) => best[y] = x.level[i])

\* Where it has learned nothing of an expression of t.
Zeros(best, t) == \A y \in DOMAIN best : y[1] = t /\ Unreached(t, y[2]) => best[y] = 0

\* Round k: line k is that of execution x.
LEMMA RoundIs ==
  ASSUME AInv, NEW k \in 1 .. Len(done), NEW st \in Analysis
  PROVE  LET x == done[k]
             C == Compiles[x.text]
             min == IF C \in st.seen THEN st.min_time ELSE 0
             update == min = 0 \/ x.time < min
             new == LearnLine(st, jitRows[k], reportRows[k])
         IN  /\ new \in Analysis
             /\ new.seen = st.seen \cup {C}
             /\ new.min_time = IF update THEN x.time ELSE min
             /\ ~ update => new.best = st.best
             /\ update => Holds(new.best, x)
             /\ \A y \in DOMAIN st.best :
                  y \in DOMAIN new.best /\ (y[1] # x.text => new.best[y] = st.best[y])
             /\ \A t : Zeros(st.best, t) => Zeros(new.best, t)
<1> DEFINE x == done[k]
           C == Compiles[x.text]
           R == Reported(x.text)
           j == jitRows[k]
           e == reportRows[k]
           min == IF C \in st.seen THEN st.min_time ELSE 0
           update == min = 0 \/ x.time < min
           new == LearnLine(st, j, e)
           s == SetLevels(st.best, j, e)
<1>1. /\ Finished(x, pos) /\ Row(j, x) /\ e.text = x.text /\ e.exprs = Reported(x.text)
  BY DEF AInv, Kept
<1>c. C = Compiles[x.text] /\ R = Reported(x.text)
  OBVIOUS
<1> HIDE DEF x, j, e
<1>2. x.text \in Matched /\ x.text \in STRING /\ x.time \in Nat /\ x.level \in LevelsOf(x.text)
  <2>1. \A n \in 1 .. Len(Script) : Script[n] \in STRING
    BY InputsAssumption, ElementOfSeq
  <2>2. \A t \in Times : t \in Nat
    BY InputsAssumption
  <2> QED
    BY <1>1, <2>1, <2>2, Zenon DEF Finished
<1>3. C \in Seq(Nat \X (Nat \ {0})) /\ R \in Seq(Nat \X Nat)
  BY <1>2, ReportedIs, Zenon
<1> HIDE DEF C, R
<1>5. [i \in DOMAIN j.exprs |-> j.exprs[i].expr] = C /\ j.time = x.time
  <2>1. C = [i \in DOMAIN C |-> C[i]]
    BY <1>3, LenProperties
  <2>2. DOMAIN j.exprs = DOMAIN C /\ \A i \in DOMAIN C : j.exprs[i].expr = C[i]
    BY <1>1, <1>c, Zenon DEF Row
  <2>3. j.time = x.time
    BY <1>1 DEF Row
  <2> QED
    BY <2>1, <2>2, <2>3
<1>6. new = [seen     |-> st.seen \cup {C},
             min_time |-> IF update THEN x.time ELSE min,
             best     |-> IF update THEN s ELSE st.best]
  BY <1>5 DEF LearnLine, MinTime
<1>7. st.seen \in SUBSET Seq(Nat \X (Nat \ {0})) /\ st.min_time \in Nat /\ st.best \in Bests
  BY DEF Analysis
<1> DEFINE keys == {<<x.text, R[i][1]>> : i \in DOMAIN R}
<1> HIDE DEF s
<1>8. /\ s = [y \in DOMAIN st.best \cup keys |-> s[y]]
      /\ \A y \in DOMAIN st.best : y \notin keys => s[y] = st.best[y]
      /\ \A y \in keys : s[y] \in Levels \cup {0} \/ (y \in DOMAIN st.best /\ s[y] = st.best[y])
      /\ \A i \in DOMAIN R : LastOfId(x.text, i) => s[<<x.text, R[i][1]>>] = x.level[i]
      /\ \A i \in DOMAIN R : Unreached(x.text, R[i][1]) =>
           LET y == <<x.text, R[i][1]>> IN s[y] = IF y \in DOMAIN st.best THEN st.best[y] ELSE 0
  <2>1. Teaches(s, st.best, x)
    BY <1>1, <1>2, SetLevelsIs, Zenon DEF s
  <2> QED
    BY <2>1, Zenon DEF Teaches, R
<1>9. \A i \in DOMAIN R : R[i] \in Nat \X Nat
  BY <1>3
<1>d. DOMAIN s = DOMAIN st.best \cup keys
  BY <1>8
<1>10. PICK D \in SUBSET (STRING \X Nat) : st.best \in [D -> Levels \cup {0}]
  BY <1>7 DEF Bests
<1>11. D \cup keys \in SUBSET (STRING \X Nat) /\ DOMAIN st.best = D
  BY <1>2, <1>9, <1>10
<1>k. \A y \in keys : y[1] = x.text
  OBVIOUS
<1>z. ASSUME NEW y \in keys, Unreached(x.text, y[2])
      PROVE  s[y] = IF y \in DOMAIN st.best THEN st.best[y] ELSE 0
  <2>1. PICK i \in DOMAIN R : y = <<x.text, R[i][1]>>
    OBVIOUS
  <2>2. Unreached(x.text, R[i][1])
    BY <1>z, <2>1
  <2> QED
    BY <1>8, <2>1, <2>2, Zenon
<1>15. Holds(s, x)
  <2>1. \A i \in DOMAIN R : <<x.text, R[i][1]>> \in DOMAIN s
    BY <1>d
  <2> QED
    BY <1>8, <2>1, Zenon DEF Holds, R
<1> HIDE DEF keys
<1>12. ASSUME NEW y \in D \cup keys
       PROVE  s[y] \in Levels \cup {0}
  <2>1. s[y] \in Levels \cup {0} \/ (y \in D /\ s[y] = st.best[y])
    BY <1>8, <1>11, Zenon
  <2> QED
    BY <1>10, <2>1
<1>13. s \in Bests
  <2>1. s \in [D \cup keys -> Levels \cup {0}]
    BY <1>8, <1>11, <1>12
  <2> QED
    BY <1>11, <2>1, Zenon DEF Bests
<1>14. new \in Analysis
  BY <1>2, <1>3, <1>6, <1>7, <1>13 DEF Analysis
<1>16. \A y \in DOMAIN st.best : y \in DOMAIN s /\ (y[1] # x.text => s[y] = st.best[y])
  BY <1>8, <1>d, <1>k, Zenon
<1>17. ASSUME NEW t, Zeros(st.best, t)
       PROVE  Zeros(s, t)
  <2> SUFFICES ASSUME NEW y \in DOMAIN s, y[1] = t, Unreached(t, y[2])
               PROVE  s[y] = 0
    BY DEF Zeros
  <2>1. y \in DOMAIN st.best => st.best[y] = 0
    BY <1>17 DEF Zeros
  <2>2. CASE y \in keys
    <3>1. s[y] = IF y \in DOMAIN st.best THEN st.best[y] ELSE 0
      BY <1>k, <1>z, <2>2
    <3> QED
      BY <2>1, <3>1
  <2>3. CASE y \notin keys
    BY <1>8, <1>d, <2>1, <2>3
  <2> QED
    BY <2>2, <2>3
<1> HIDE DEF update, min
<1>18. /\ new.seen = st.seen \cup {C}
       /\ new.min_time = IF update THEN x.time ELSE min
       /\ new.best = IF update THEN s ELSE st.best
  BY <1>6
<1> HIDE DEF new
<1>19. /\ ~ update => new.best = st.best
       /\ update => Holds(new.best, x)
       /\ \A y \in DOMAIN st.best :
            y \in DOMAIN new.best /\ (y[1] # x.text => new.best[y] = st.best[y])
       /\ \A t : Zeros(st.best, t) => Zeros(new.best, t)
  BY <1>15, <1>16, <1>17, <1>18, Zenon
<1> QED
  BY <1>14, <1>18, <1>19, Zenon DEF new, update, min, x, C, j, e

----------------------------------------------------------------------------
(* The loop over the lines.                                                *)

\* L holds the states of the analysis before and after every round.
Rounds(L, n) ==
  /\ L \in [0 .. n -> Analysis] /\ L[0] = NothingLearned
  /\ \A k \in 1 .. n : L[k] = LearnLine(L[k - 1], jitRows[k], reportRows[k])

LEMMA LearnedRounds ==
  ASSUME AInv, Len(jitRows) = Len(done), Len(done) \in Nat
  PROVE  \E L : Rounds(L, Len(done)) /\ Learned = L[Len(done)].best
<1> DEFINE n == Len(jitRows)
           Round(st, k) == LearnLine(st, jitRows[k], reportRows[k])
           H == CHOOSE h : h = [k \in 0 .. n |->
                  IF k = 0 THEN NothingLearned ELSE Round(h[k - 1], k)]
           step == [k \in 1 .. n |-> [st \in Analysis |-> Round(st, k)]]
<1>1. Learned = H[n].best
  BY Zenon DEF Learned
<1>2. n \in Nat /\ n = Len(done)
  OBVIOUS
<1>3. \A k \in 1 .. n, st \in Analysis : Round(st, k) \in Analysis
  BY RoundIs, Zenon
<1> HIDE DEF n, Round
<1>4. step \in Steps(n, Analysis)
  BY <1>3 DEF Steps
<1>5. PICK f \in [0 .. n -> Analysis] : Iterates(f, n, NothingLearned, step)
  <2> HIDE DEF step
  <2> QED
    BY <1>2, <1>4, NothingTyped, RecursionExists, Zenon
<1>6. f = [k \in 0 .. n |-> IF k = 0 THEN NothingLearned ELSE Round(f[k - 1], k)]
  <2>1. ASSUME NEW k \in 0 .. n
        PROVE  f[k] = IF k = 0 THEN NothingLearned ELSE Round(f[k - 1], k)
    <3>1. f[k] = IF k = 0 THEN NothingLearned ELSE step[k][f[k - 1]]
      BY <1>5, Zenon DEF Iterates
    <3>2. CASE k = 0
      BY <3>1, <3>2
    <3>3. CASE k # 0
      <4>1. k \in 1 .. n /\ f[k - 1] \in Analysis
        BY <1>2, <3>3
      <4>2. step[k][f[k - 1]] = Round(f[k - 1], k)
        BY <4>1, Zenon
      <4> QED
        BY <3>1, <3>3, <4>2, Zenon
    <3> QED
      BY <3>2, <3>3
  <2>2. f = [k \in 0 .. n |-> f[k]]
    OBVIOUS
  <2> QED
    BY <2>1, <2>2, Zenon
<1>7. H = [k \in 0 .. n |-> IF k = 0 THEN NothingLearned ELSE Round(H[k - 1], k)]
  BY <1>6, Zenon
<1> HIDE DEF H
<1>8. H[0] = NothingLearned /\ H = [k \in 0 .. n |-> H[k]]
  BY <1>2, <1>7
<1>9. ASSUME NEW k \in 1 .. n
      PROVE  H[k] = Round(H[k - 1], k)
  <2>1. k \in 0 .. n /\ k # 0
    BY <1>2
  <2> QED
    BY <1>7, <2>1, Zenon
<1>10. Unfolds(H, n, Analysis, NothingLearned, step)
  <2>1. ASSUME NEW k \in 1 .. n, H[k - 1] \in Analysis
        PROVE  H[k] = step[k][H[k - 1]]
    BY <1>9, <2>1, Zenon
  <2> QED
    BY <1>8, <2>1, Zenon DEF Unfolds
<1>11. H \in [0 .. n -> Analysis]
  <2> HIDE DEF step
  <2> QED
    BY <1>2, <1>4, <1>10, NothingTyped, RecursionTyped, Zenon
<1>12. Rounds(H, n)
  BY <1>8, <1>9, <1>11, Zenon DEF Rounds, Round
<1> QED
  BY <1>1, <1>2, <1>12

(***************************************************************************)
(* After k lines the analysis, if t is among them, holds the levels of the *)
(* first of its fastest executions, and if t is the last of them, min_time *)
(* is the time of that.                                                    *)
(***************************************************************************)
After(st, k, t) ==
  /\ Compiles[t] \in st.seen <=> \E l \in 1 .. k : done[l].text = t
  /\ Zeros(st.best, t)
  /\ (\E l \in 1 .. k : done[l].text = t) =>
       \E f \in 1 .. k : /\ IsFastest(t, k, f) /\ Holds(st.best, done[f])
                         /\ done[k].text = t => st.min_time = done[f].time

\* What the analysis relies on, for a classified statement.
Learnable(t) == t \in Matched /\ InARow(Script, t) /\ Told(Script, t)

\* What the loop needs to know of the executions.
LEMMA DoneFacts ==
  ASSUME NEW t, Learnable(t), AInv, Len(done) \in Nat
  PROVE  /\ \A k \in 1 .. Len(done) : done[k].time \in Nat \ {0}
         /\ \A k \in 1 .. Len(done) : Compiles[done[k].text] = Compiles[t] => done[k].text = t
         /\ \A i, j, k \in 1 .. Len(done) :
              i < j /\ j < k /\ done[i].text = t /\ done[k].text = t => done[j].text = t
<1>1. ASSUME NEW k \in 1 .. Len(done)
      PROVE  /\ done[k].time \in Nat \ {0} /\ done[k].n \in 1 .. Len(Script)
             /\ done[k].text = Script[done[k].n] /\ Script[done[k].n] \in Matched
  <2>1. Finished(done[k], pos)
    BY DEF AInv, Kept
  <2>2. \A m \in Times : m \in Nat \ {0}
    BY InputsAssumption
  <2> QED
    BY <2>1, <2>2, Zenon DEF Finished
<1>2. \A k, l \in 1 .. Len(done) : k < l => done[k].n < done[l].n
  BY DEF AInv, InOrder
<1>3. ASSUME NEW k \in 1 .. Len(done), Compiles[done[k].text] = Compiles[t]
      PROVE  done[k].text = t
  <2>1. Compiles[Script[done[k].n]] = Compiles[t]
    BY <1>1, <1>3
  <2>2. Script[done[k].n] = t
    BY <1>1, <2>1, Zenon DEF Learnable, Told
  <2> QED
    BY <1>1, <2>2
<1>4. ASSUME NEW i \in 1 .. Len(done), NEW j \in 1 .. Len(done), NEW k \in 1 .. Len(done),
             i < j, j < k, done[i].text = t, done[k].text = t
      PROVE  done[j].text = t
  <2>1. done[i].n < done[j].n /\ done[j].n < done[k].n
    BY <1>2, <1>4
  <2>2. Script[done[i].n] = t /\ Script[done[k].n] = t
    BY <1>1, <1>4
  <2>3. /\ done[i].n \in 1 .. Len(Script) /\ done[j].n \in 1 .. Len(Script)
        /\ done[k].n \in 1 .. Len(Script) /\ Script[done[j].n] \in Matched
        /\ done[j].text = Script[done[j].n]
    BY <1>1
  <2>4. Script[done[j].n] = t
    BY <2>1, <2>2, <2>3, Zenon DEF Learnable, InARow
  <2> QED
    BY <2>3, <2>4
<1> QED
  BY <1>1, <1>3, <1>4

\* The fastest among k lines, when line k is of another statement than t.
LEMMA FastestElsewhere ==
  ASSUME NEW k \in Nat \ {0}, NEW t, NEW f \in 1 .. k - 1, IsFastest(t, k - 1, f), done[k].text # t
  PROVE  f \in 1 .. k /\ IsFastest(t, k, f)
<1>1. f \in 1 .. k /\ \A l \in 1 .. k : l = k \/ l \in 1 .. k - 1
  OBVIOUS
<1> QED
  BY <1>1, Zenon DEF IsFastest

\* One round.
LEMMA AfterRound ==
  ASSUME NEW t, Learnable(t), AInv, Len(done) \in Nat, NEW k \in 1 .. Len(done),
         NEW st \in Analysis, After(st, k - 1, t)
  PROVE  After(LearnLine(st, jitRows[k], reportRows[k]), k, t)
<1> DEFINE C == Compiles[done[k].text]
           min == IF C \in st.seen THEN st.min_time ELSE 0
           update == min = 0 \/ done[k].time < min
           new == LearnLine(st, jitRows[k], reportRows[k])
<1>1. /\ new.seen = st.seen \cup {C}
      /\ new.min_time = IF update THEN done[k].time ELSE min
      /\ ~ update => new.best = st.best
      /\ update => Holds(new.best, done[k])
      /\ \A y \in DOMAIN st.best :
           y \in DOMAIN new.best /\ (y[1] # done[k].text => new.best[y] = st.best[y])
      /\ Zeros(st.best, t) => Zeros(new.best, t)
  BY RoundIs, ZenonT(30)
<1> HIDE DEF new
<1>2. k \in Nat \ {0} /\ k \in 1 .. k /\ k - 1 \in Nat
      /\ (\A l \in 1 .. k : l = k \/ l \in 1 .. k - 1)
      /\ (\A l \in 1 .. k - 1 : l \in 1 .. k /\ l \in 1 .. Len(done) /\ l # k)
  OBVIOUS
<1>3. Zeros(new.best, t)
  BY <1>1, Zenon DEF After
<1>4. Compiles[t] \in st.seen <=> \E l \in 1 .. k - 1 : done[l].text = t
  BY Zenon DEF After
<1>5. C = Compiles[t] <=> done[k].text = t
  BY DoneFacts
<1>6. Compiles[t] \in new.seen <=> \E l \in 1 .. k : done[l].text = t
  BY <1>1, <1>2, <1>4, <1>5
\* A line of t.
<1>7. CASE done[k].text = t
  <2>0. C = Compiles[t]
    BY <1>5, <1>7
  <2> SUFFICES \E f \in 1 .. k : IsFastest(t, k, f) /\ new.min_time = done[f].time
                                 /\ Holds(new.best, done[f])
    BY <1>3, <1>6, Zenon DEF After, new
  <2>1. CASE C \notin st.seen
    <3>1. \A l \in 1 .. k : done[l].text = t => l = k
      BY <1>2, <1>4, <2>0, <2>1
    <3>2. IsFastest(t, k, k)
      BY <1>2, <1>7, <3>1 DEF IsFastest
    <3>3. update
      BY <2>1
    <3> QED
      BY <1>1, <1>2, <3>2, <3>3, Zenon
  <2>2. CASE C \in st.seen
    <3>1. PICK l \in 1 .. k - 1 : done[l].text = t
      BY <1>4, <2>0, <2>2
    <3>2. k - 1 \in 1 .. k - 1 /\ k - 1 # 0 /\ k - 1 < k /\ (l = k - 1 \/ l < k - 1)
      BY <1>2
    <3>3. done[k - 1].text = t
      BY <1>2, <1>7, <3>1, <3>2, DoneFacts
    <3>4. PICK f \in 1 .. k - 1 : IsFastest(t, k - 1, f) /\ Holds(st.best, done[f])
                                  /\ st.min_time = done[f].time
      BY <3>1, <3>3, Zenon DEF After
    <3>6. f \in 1 .. Len(done) /\ done[f].time \in Nat \ {0} /\ done[k].time \in Nat \ {0}
      BY <1>2, DoneFacts
    <3>8. min = done[f].time /\ min # 0
      BY <2>2, <3>4, <3>6
    <3>9. CASE done[k].time < done[f].time
      <4>1. \A i \in 1 .. k - 1 : done[i].text = t => done[k].time < done[i].time
        <5> SUFFICES ASSUME NEW i \in 1 .. k - 1, done[i].text = t
                     PROVE  done[k].time < done[i].time
          OBVIOUS
        <5>1. done[i].time \in Nat
          BY <1>2, DoneFacts
        <5> QED
          BY <3>4, <3>6, <3>9, <5>1 DEF IsFastest
      <4>2. IsFastest(t, k, k)
        BY <1>2, <1>7, <4>1 DEF IsFastest
      <4>3. update
        BY <3>8, <3>9
      <4> QED
        BY <1>1, <1>2, <4>2, <4>3, Zenon
    <3>10. CASE ~ (done[k].time < done[f].time)
      <4>1. done[f].time < done[k].time \/ (done[f].time = done[k].time /\ f <= k)
        BY <3>6, <3>10
      <4>2. f \in 1 .. k /\ IsFastest(t, k, f)
        BY <1>2, <3>4, <4>1, Zenon DEF IsFastest
      <4>3. ~ update
        BY <3>8, <3>10
      <4> QED
        BY <1>1, <3>4, <3>8, <4>2, <4>3, Zenon
    <3> QED
      BY <3>9, <3>10
  <2> QED
    BY <2>1, <2>2
\* A line of another statement: t keeps what it has.
<1>8. CASE done[k].text # t
  <2>1. ASSUME NEW l \in 1 .. k, done[l].text = t
        PROVE  \E f \in 1 .. k : IsFastest(t, k, f) /\ Holds(new.best, done[f])
    <3>1. l \in 1 .. k - 1
      BY <1>2, <1>8, <2>1
    <3>2. PICK f \in 1 .. k - 1 : IsFastest(t, k - 1, f) /\ Holds(st.best, done[f])
      BY <2>1, <3>1, Zenon DEF After
    <3>3. f \in 1 .. k /\ IsFastest(t, k, f)
      BY <1>2, <1>8, <3>2, FastestElsewhere, Zenon
    <3>4. done[f].text # done[k].text
      BY <1>8, <3>2, Zenon DEF IsFastest
    <3>5. Holds(new.best, done[f])
      BY <1>1, <3>2, <3>4 DEF Holds
    <3> QED
      BY <3>3, <3>5
  <2> QED
    BY <1>3, <1>6, <1>8, <2>1, Zenon DEF After, new
<1> QED
  BY <1>7, <1>8

\* After the last line the analysis has what it should have.
LEMMA AnalysisLearns ==
  ASSUME FInv, AInv
  PROVE  LearnsFastest
<1> SUFFICES ASSUME cur = NoExec, NEW k \in DOMAIN done,
                    InARow(Script, done[k].text), Told(Script, done[k].text)
             PROVE  LET t == done[k].text IN
                    \E f \in DOMAIN done :
                      /\ IsFastest(t, Len(done), f)
                      /\ \A i \in DOMAIN Reported(t) :
                           LET x == <<t, Reported(t)[i][1]>> IN
                           /\ x \in DOMAIN Learned
                           /\ LastOfId(t, i) /\ Aligned(t, i) => Learned[x] = done[f].level[i]
                           /\ Unreached(t, x[2]) => Learned[x] = 0
  BY Zenon DEF LearnsFastest
<1> DEFINE n == Len(done)
           t == done[k].text
<1>1. DOMAIN done = 1 .. n /\ n \in Nat
  BY AppendIs DEF FInv, Files
<1>2. Len(jitRows) = n
  BY DEF FInv, Lengths, Ahead
<1>l. Learnable(t)
  BY <1>1 DEF Learnable, AInv, Kept, Finished
<1>3. PICK L : Rounds(L, n) /\ Learned = L[n].best
  BY <1>1, <1>2, LearnedRounds, Zenon
<1> HIDE DEF n, t
<1> DEFINE T == {m \in 0 .. n : After(L[m], m, t)}
<1>4. 0 \in T
  <2>1. L[0].seen = {} /\ 0 \in 0 .. n /\ DOMAIN L[0].best = {}
    BY <1>1, <1>3 DEF Rounds, NothingLearned
  <2>2. 1 .. 0 = {}
    OBVIOUS
  <2>3. After(L[0], 0, t)
    BY <2>1, <2>2, Zenon DEF After, Zeros
  <2> QED
    BY <2>1, <2>3
<1>5. ASSUME NEW m \in 1 .. n, m - 1 \in T
      PROVE  m \in T
  <2>1. m \in 0 .. n /\ m - 1 \in 0 .. n /\ After(L[m - 1], m - 1, t)
    BY <1>1, <1>5
  <2>2. L[m - 1] \in Analysis /\ L[m] = LearnLine(L[m - 1], jitRows[m], reportRows[m])
    BY <1>3, <2>1 DEF Rounds
  <2>3. After(L[m], m, t)
    BY <1>1, <1>l, <2>1, <2>2, AfterRound DEF n
  <2> QED
    BY <2>1, <2>3
<1>6. T \in SUBSET Nat
  BY <1>1
<1> HIDE DEF T
<1>7. \A m \in 0 .. n : m \in T
  BY <1>1, <1>4, <1>5, <1>6, BoundedInd
<1>8. After(L[n], n, t)
  BY <1>1, <1>7 DEF T
<1>9. PICK f \in 1 .. n : IsFastest(t, n, f) /\ Holds(Learned, done[f])
  BY <1>1, <1>3, <1>8, Zenon DEF After, t
<1>10. done[f].text = t
  BY <1>9, Zenon DEF IsFastest
<1>11. ASSUME NEW i \in DOMAIN Reported(t)
       PROVE  LET x == <<t, Reported(t)[i][1]>> IN
              /\ x \in DOMAIN Learned
              /\ LastOfId(t, i) /\ Aligned(t, i) => Learned[x] = done[f].level[i]
              /\ Unreached(t, x[2]) => Learned[x] = 0
  <2> DEFINE x == <<t, Reported(t)[i][1]>>
  <2>1. x \in DOMAIN Learned /\ (LastOfId(t, i) => Learned[x] = done[f].level[i])
    BY <1>9, <1>10, <1>11, Zenon DEF Holds
  <2>2. x[1] = t
    OBVIOUS
  <2>3. Unreached(t, x[2]) => Learned[x] = 0
    BY <1>3, <1>8, <2>1, <2>2, Zenon DEF After, Zeros
  <2> QED
    BY <2>1, <2>3, Zenon
<1> QED
  BY <1>1, <1>9, <1>11, Zenon DEF n, t

(***************************************************************************)
(* What the training data of the level model hold.  The analysis           *)
(* (analyzeData_Opt+Expr(Level).py) joins the files by line number and     *)
(* keeps one running min_time.  For any script of EXPLAINs, any number of  *)
(* executions and any early failures among them, it learns of a statement  *)
(* that is repeated in a row and told from the others by what it compiles: *)
(* the level of an expression in the first of the fastest executions, at   *)
(* the last operator that addPlanTree reached, if nothing before it is     *)
(* compiled twice, and 0 for an expression at unreached operators only.    *)
(***************************************************************************)
THEOREM FastestLearned ==
  ASSUME ExplainWorkload
  PROVE  Spec => []LearnsFastest
<1> DEFINE I == FInv /\ TInv /\ AInv
<1>1. Init => I
  <2> SUFFICES ASSUME Init PROVE I
    OBVIOUS
  <2>1. FInv
    BY InitFInv
  <2>2. TInv
    BY InitTInv
  <2>3. AInv
    BY EmptyIs DEF Init, AInv, Kept, InOrder, Pending, Ahead, Written
  <2> QED
    BY <2>1, <2>2, <2>3
<1>2. I /\ [Next]_vars => I'
  BY NextFInv, NextTInv, NextAInv
<1>3. I => LearnsFastest
  BY AnalysisLearns
<1> QED
  BY <1>1, <1>2, <1>3, PTL DEF Spec

----------------------------------------------------------------------------
(* The scripts of executeAllN.sh.                                          *)

Texts(s) == {s[i] : i \in DOMAIN s}

\* The executions of every classified statement come in a row.
AllInARow(s) == \A t \in Matched : InARow(s, t)

\* The repetitions of a file hold nothing else.
LEMMA RepeatedIs ==
  ASSUME NEW file \in Seq(STRING), NEW n \in Nat
  PROVE  /\ Repeated(file, n) \in Seq(STRING)
         /\ Texts(Repeated(file, n)) \subseteq Texts(file)
<1> DEFINE m == Len(file)
           at(i) == ((i - 1) % m) + 1
           r == Repeated(file, n)
<1>1. m \in Nat /\ DOMAIN file = 1 .. m
  BY LenProperties
<1>2. n * m \in Nat /\ (m = 0 => n * m = 0)
  BY <1>1
<1>3. r = [i \in 1 .. n * m |-> file[at(i)]]
  BY DEF Repeated
<1>4. ASSUME NEW i \in 1 .. n * m
      PROVE  at(i) \in DOMAIN file /\ file[at(i)] \in STRING
  <2>1. m > 0 /\ i - 1 \in Nat
    BY <1>1, <1>2
  <2>2. (i - 1) % m \in 0 .. m - 1
    BY <1>1, <2>1
  <2>3. at(i) \in 1 .. m
    BY <1>1, <2>2
  <2> QED
    BY <1>1, <2>3, ElementOfSeq
<1> HIDE DEF r, at, m
<1>5. r \in [1 .. n * m -> STRING]
  BY <1>3, <1>4
<1>6. r \in Seq(STRING) /\ Len(r) = n * m
  BY <1>2, <1>5, FunSeq, Zenon
<1>7. \A i \in 1 .. n * m : \E j \in DOMAIN file : r[i] = file[j]
  BY <1>3, <1>4, Zenon
<1>8. DOMAIN r = 1 .. n * m
  BY <1>3
<1>9. Texts(r) \subseteq Texts(file)
  BY <1>7, <1>8 DEF Texts
<1> QED
  BY <1>6, <1>9, Zenon DEF r

\* One script after another that has no classified statement of it.
LEMMA OneAfterAnother ==
  ASSUME NEW a \in Seq(STRING), NEW b \in Seq(STRING), AllInARow(a), AllInARow(b),
         \A t \in Matched : t \in Texts(a) => t \notin Texts(b)
  PROVE  /\ a \o b \in Seq(STRING) /\ AllInARow(a \o b)
         /\ Texts(a \o b) \subseteq Texts(a) \cup Texts(b)
<1> DEFINE c == a \o b
           m == Len(a)
<1>1. /\ c \in Seq(STRING) /\ m \in Nat /\ Len(b) \in Nat /\ Len(c) = m + Len(b)
      /\ \A i \in 1 .. Len(c) : c[i] = IF i <= m THEN a[i] ELSE b[i - m]
      /\ DOMAIN a = 1 .. m /\ DOMAIN b = 1 .. Len(b) /\ DOMAIN c = 1 .. Len(c)
  BY ConcatProperties, LenProperties
<1> HIDE DEF c, m
<1>2. ASSUME NEW i \in 1 .. Len(c), i <= m
      PROVE  i \in 1 .. m /\ c[i] = a[i]
  BY <1>1, <1>2
<1>3. ASSUME NEW i \in 1 .. Len(c), ~ (i <= m)
      PROVE  i - m \in 1 .. Len(b) /\ c[i] = b[i - m]
  BY <1>1, <1>3
<1>4. Texts(c) \subseteq Texts(a) \cup Texts(b)
  <2> SUFFICES ASSUME NEW i \in 1 .. Len(c) PROVE c[i] \in Texts(a) \cup Texts(b)
    BY <1>1 DEF Texts
  <2> QED
    BY <1>1, <1>2, <1>3 DEF Texts
<1>5. ASSUME NEW t \in Matched, NEW i \in 1 .. Len(c), NEW j \in 1 .. Len(c), NEW k \in 1 .. Len(c),
             i < j, j < k, c[i] = t, c[k] = t, c[j] \in Matched
      PROVE  c[j] = t
  <2>1. CASE k <= m
    <3>1. i <= m /\ j <= m
      BY <1>1, <1>5, <2>1
    <3>2. /\ i \in 1 .. m /\ j \in 1 .. m /\ k \in 1 .. m
          /\ c[i] = a[i] /\ c[j] = a[j] /\ c[k] = a[k]
      BY <1>2, <2>1, <3>1
    <3>3. InARow(a, t)
      BY DEF AllInARow
    <3> QED
      BY <1>5, <3>2, <3>3, Zenon DEF InARow, m
  <2>2. CASE ~ (k <= m)
    <3>1. k - m \in 1 .. Len(b) /\ b[k - m] = t
      BY <1>3, <1>5, <2>2
    <3>2. ~ (i <= m)
      <4> SUFFICES ASSUME i <= m PROVE FALSE
        OBVIOUS
      <4>1. i \in 1 .. m /\ a[i] = t
        BY <1>2, <1>5
      <4> QED
        BY <1>1, <3>1, <4>1 DEF Texts
    <3>3. ~ (j <= m)
      BY <1>1, <1>5, <3>2
    <3>4. /\ i - m \in 1 .. Len(b) /\ b[i - m] = t
          /\ j - m \in 1 .. Len(b) /\ c[j] = b[j - m]
      BY <1>3, <1>5, <3>2, <3>3
    <3>5. i - m < j - m /\ j - m < k - m
      BY <1>1, <1>5
    <3>6. InARow(b, t)
      BY DEF AllInARow
    <3> QED
      BY <1>5, <3>1, <3>4, <3>5, <3>6, Zenon DEF InARow
  <2> QED
    BY <2>1, <2>2
<1>6. AllInARow(c)
  BY <1>5, Zenon DEF AllInARow, InARow
<1> QED
  BY <1>1, <1>4, <1>6 DEF c, m

\* No two parts have a classified statement in common.
Apart(parts) ==
  \A f, g \in DOMAIN parts : f # g =>
    \A t \in Matched : t \in Texts(parts[f]) => t \notin Texts(parts[g])

\* s is a script of the first f parts.
ScriptOf(s, parts, f) ==
  /\ \A t \in Texts(s) : \E g \in 1 .. f : t \in Texts(parts[g])
  /\ AllInARow(s)

\* The next part goes after them.
LEMMA NextPart ==
  ASSUME NEW parts \in Seq(Seq(STRING)), Apart(parts), NEW f \in 1 .. Len(parts),
         AllInARow(parts[f]), NEW s \in Seq(STRING), ScriptOf(s, parts, f - 1)
  PROVE  ScriptOf(s \o parts[f], parts, f)
<1> DEFINE r == parts[f]
           c == s \o r
<1>1. DOMAIN parts = 1 .. Len(parts) /\ Len(parts) \in Nat /\ r \in Seq(STRING)
  BY LenProperties
<1>2. /\ \A g \in 1 .. f - 1 : g \in DOMAIN parts /\ g # f /\ g \in 1 .. f
      /\ f \in DOMAIN parts /\ f \in 1 .. f
  BY <1>1
<1>3. /\ \A t \in Texts(s) : \E g \in 1 .. f - 1 : t \in Texts(parts[g])
      /\ AllInARow(s)
  BY DEF ScriptOf
<1>4. ASSUME NEW t \in Matched, t \in Texts(s)
      PROVE  t \notin Texts(r)
  <2>1. PICK g \in 1 .. f - 1 : t \in Texts(parts[g])
    BY <1>3, <1>4
  <2> QED
    BY <1>2, <2>1, Zenon DEF Apart
<1>5. AllInARow(c) /\ Texts(c) \subseteq Texts(s) \cup Texts(r)
  <2>1. AllInARow(r)
    OBVIOUS
  <2> HIDE DEF r
  <2> QED
    BY <1>1, <1>3, <1>4, <2>1, OneAfterAnother
<1> HIDE DEF c
<1>6. ASSUME NEW t \in Texts(c)
      PROVE  \E g \in 1 .. f : t \in Texts(parts[g])
  <2>1. CASE t \in Texts(s)
    BY <1>2, <1>3, <2>1
  <2>2. CASE t \in Texts(r)
    BY <1>2, <2>2
  <2> QED
    BY <1>5, <2>1, <2>2
<1> QED
  BY <1>5, <1>6 DEF ScriptOf, c

\* Scripts that are apart go after one another.
LEMMA ConcatenatedIs ==
  ASSUME NEW parts \in Seq(Seq(STRING)), Apart(parts), \A f \in DOMAIN parts : AllInARow(parts[f])
  PROVE  /\ Concatenated(parts) \in Seq(STRING)
         /\ ScriptOf(Concatenated(parts), parts, Len(parts))
<1> DEFINE m == Len(parts)
           Add(s, f) == s \o parts[f]
           H == CHOOSE h : h = [f \in 0 .. m |-> IF f = 0 THEN <<>> ELSE Add(h[f - 1], f)]
           Scripts == Seq(STRING)
           step == [f \in 1 .. m |-> [s \in Scripts |-> Add(s, f)]]
<1>1. Concatenated(parts) = H[m]
  BY Zenon DEF Concatenated
<1>2. m \in Nat /\ \A f \in 1 .. m : parts[f] \in Seq(STRING) /\ AllInARow(parts[f])
  BY LenProperties
<1>3. <<>> \in Scripts /\ Len(<<>>) = 0
  BY EmptySeq
<1>4. \A f \in 1 .. m, s \in Scripts : Add(s, f) \in Scripts
  BY <1>2, ConcatProperties
<1>5. ASSUME NEW f \in 1 .. m, NEW s \in Scripts, ScriptOf(s, parts, f - 1)
      PROVE  ScriptOf(Add(s, f), parts, f)
  BY <1>2, <1>5, NextPart
<1> HIDE DEF m, Add, Scripts
<1>6. step \in Steps(m, Scripts)
  BY <1>4 DEF Steps
<1>7. PICK h \in [0 .. m -> Scripts] : Iterates(h, m, <<>>, step)
  <2> HIDE DEF step
  <2> QED
    BY <1>2, <1>3, <1>6, RecursionExists, Zenon
<1>8. h = [f \in 0 .. m |-> IF f = 0 THEN <<>> ELSE Add(h[f - 1], f)]
  <2>1. ASSUME NEW f \in 0 .. m
        PROVE  h[f] = IF f = 0 THEN <<>> ELSE Add(h[f - 1], f)
    <3>1. h[f] = IF f = 0 THEN <<>> ELSE step[f][h[f - 1]]
      BY <1>7, Zenon DEF Iterates
    <3>2. CASE f = 0
      BY <3>1, <3>2
    <3>3. CASE f # 0
      <4>1. f \in 1 .. m /\ h[f - 1] \in Scripts
        BY <1>2, <3>3
      <4>2. step[f][h[f - 1]] = Add(h[f - 1], f)
        BY <4>1, Zenon
      <4> QED
        BY <3>1, <3>3, <4>2, Zenon
    <3> QED
      BY <3>2, <3>3
  <2>2. h = [f \in 0 .. m |-> h[f]]
    OBVIOUS
  <2> QED
    BY <2>1, <2>2, Zenon
<1>9. H = [f \in 0 .. m |-> IF f = 0 THEN <<>> ELSE Add(H[f - 1], f)]
  BY <1>8, Zenon
<1> DEFINE T == {f \in 0 .. m : H[f] \in Scripts /\ ScriptOf(H[f], parts, f)}
<1> HIDE DEF H
<1>10. 0 \in T
  <2>1. H[0] = <<>> /\ 0 \in 0 .. m
    BY <1>2, <1>9
  <2>2. 1 .. Len(<<>>) = {} /\ Texts(<<>>) = {}
    BY <1>3 DEF Texts
  <2>3. ScriptOf(<<>>, parts, 0)
    BY <2>2, Zenon DEF ScriptOf, AllInARow, InARow
  <2> QED
    BY <1>3, <2>1, <2>3, Zenon
<1>11. ASSUME NEW f \in 1 .. m, f - 1 \in T
       PROVE  f \in T
  <2>1. f \in 0 .. m /\ f # 0 /\ H[f - 1] \in Scripts /\ ScriptOf(H[f - 1], parts, f - 1)
    BY <1>2, <1>11
  <2>2. H[f] = Add(H[f - 1], f)
    BY <1>9, <2>1, Zenon
  <2> QED
    BY <1>4, <1>5, <2>1, <2>2, Zenon
<1>12. T \in SUBSET Nat
  BY <1>2
<1> HIDE DEF T
<1>13. \A f \in 0 .. m : f \in T
  BY <1>2, <1>10, <1>11, <1>12, BoundedInd
<1>14. m \in T
  BY <1>2, <1>13
<1> QED
  BY <1>1, <1>14, Zenon DEF T, Scripts, m

\* A query file has one classified statement, which no other file has.
QueryFiles(files) ==
  \A f, g \in DOMAIN files : \A t, u \in Matched :
    t \in Texts(files[f]) /\ u \in Texts(files[g]) => (t = u <=> f = g)

\* The classified statements of a database: a text is read as the database
\* and the statement.
Queries(files) == {t \in Matched : \E f \in DOMAIN files : t \in Texts(files[f])}

\* The part of one database.
LEMMA DatabaseScriptIs ==
  ASSUME NEW files \in Seq(Seq(STRING)), QueryFiles(files), "analyze" \in STRING \ Matched, NEW n \in Nat
  PROVE  /\ DatabaseScript(files, n) \in Seq(STRING) /\ AllInARow(DatabaseScript(files, n))
         /\ \A t \in Matched : t \in Texts(DatabaseScript(files, n)) => t \in Queries(files)
<1> DEFINE parts == [f \in DOMAIN files |-> Repeated(files[f], n)]
           c == Concatenated(parts)
           a == <<"analyze">>
<1>1. /\ DOMAIN files = 1 .. Len(files) /\ Len(files) \in Nat
      /\ \A f \in DOMAIN files : files[f] \in Seq(STRING)
  BY LenProperties
<1>2. /\ DOMAIN parts = DOMAIN files
      /\ \A f \in DOMAIN files : parts[f] \in Seq(STRING) /\ Texts(parts[f]) \subseteq Texts(files[f])
  BY <1>1, RepeatedIs
<1>3. parts \in [1 .. Len(files) -> Seq(STRING)]
  <2>1. parts = [f \in 1 .. Len(files) |-> parts[f]]
    BY <1>1
  <2> HIDE DEF parts
  <2> QED
    BY <1>1, <1>2, <2>1
<1>d. DatabaseScript(files, n) = a \o c
  BY DEF DatabaseScript
<1> HIDE DEF parts, c, a
<1>4. parts \in Seq(Seq(STRING)) /\ Len(parts) = Len(files)
  BY <1>1, <1>3, FunSeq, Zenon
<1>5. Apart(parts)
  BY <1>2 DEF Apart, QueryFiles
<1>6. ASSUME NEW f \in DOMAIN parts
      PROVE  AllInARow(parts[f])
  <2>1. \A t, u \in Matched : t \in Texts(parts[f]) /\ u \in Texts(parts[f]) => t = u
    BY <1>2 DEF QueryFiles
  <2>2. \A i \in 1 .. Len(parts[f]) : parts[f][i] \in Texts(parts[f])
    BY <1>2 DEF Texts
  <2> QED
    BY <2>1, <2>2 DEF AllInARow, InARow
<1>7. c \in Seq(STRING) /\ ScriptOf(c, parts, Len(parts))
  BY <1>4, <1>5, <1>6, ConcatenatedIs DEF c
<1>8. AllInARow(c)
  BY <1>7 DEF ScriptOf
<1>9. \A t \in Matched : t \in Texts(c) => t \in Queries(files)
  <2> SUFFICES ASSUME NEW t \in Matched, t \in Texts(c) PROVE t \in Queries(files)
    OBVIOUS
  <2>1. PICK f \in 1 .. Len(parts) : t \in Texts(parts[f])
    BY <1>7 DEF ScriptOf
  <2>2. f \in DOMAIN files /\ t \in Texts(files[f])
    BY <1>1, <1>2, <1>4, <2>1
  <2> QED
    BY <2>2 DEF Queries
<1>10. a \in Seq(STRING) /\ Texts(a) = {"analyze"}
  <2>1. \A S : \A x \in S : <<x>> \in Seq(S) /\ Len(<<x>>) = 1 /\ <<x>>[1] = x
    OBVIOUS
  <2>2. a \in Seq(STRING) /\ Len(a) = 1 /\ a[1] = "analyze"
    BY <2>1, Zenon DEF a
  <2>3. DOMAIN a = {1}
    BY <2>2, LenProperties
  <2> QED
    BY <2>2, <2>3 DEF Texts
<1>11. AllInARow(a)
  <2>1. \A i \in 1 .. Len(a) : a[i] \notin Matched
    BY DEF a
  <2> QED
    BY <2>1, Zenon DEF AllInARow, InARow
<1>12. \A t \in Matched : t \notin Texts(a)
  BY <1>10
<1>13. /\ a \o c \in Seq(STRING) /\ AllInARow(a \o c)
       /\ Texts(a \o c) \subseteq Texts(a) \cup Texts(c)
  BY <1>7, <1>8, <1>10, <1>11, <1>12, OneAfterAnother
<1> QED
  BY <1>d, <1>9, <1>12, <1>13

(***************************************************************************)
(* executeAllN.sh, which for every database runs each query file n times   *)
(* before the next (the loops over the databases, the files and the        *)
(* rounds), makes a script in which the executions of every statement come *)
(* in a row, as the analysis needs them: for any databases, any files with *)
(* one classified statement each and any n.                                *)
(***************************************************************************)
THEOREM RepetitionsInARow ==
  ASSUME NEW databases \in Seq(Seq(Seq(STRING))), "analyze" \in STRING \ Matched, NEW n \in Nat,
         \A d \in DOMAIN databases : QueryFiles(databases[d]),
         \A d, e \in DOMAIN databases :
           d # e => \A t \in Queries(databases[d]) : t \notin Queries(databases[e])
  PROVE  /\ RepeatedScript(databases, n) \in Seq(STRING)
         /\ \A t \in Matched : InARow(RepeatedScript(databases, n), t)
<1> DEFINE parts == [d \in DOMAIN databases |-> DatabaseScript(databases[d], n)]
<1>1. /\ DOMAIN databases = 1 .. Len(databases) /\ Len(databases) \in Nat
      /\ \A d \in DOMAIN databases : databases[d] \in Seq(Seq(STRING))
  BY LenProperties
<1>2. /\ DOMAIN parts = DOMAIN databases
      /\ \A d \in DOMAIN databases :
           /\ parts[d] \in Seq(STRING) /\ AllInARow(parts[d])
           /\ \A t \in Matched : t \in Texts(parts[d]) => t \in Queries(databases[d])
  BY <1>1, DatabaseScriptIs
<1>3. parts \in [1 .. Len(databases) -> Seq(STRING)]
  <2>1. parts = [d \in 1 .. Len(databases) |-> parts[d]]
    BY <1>1
  <2> HIDE DEF parts
  <2> QED
    BY <1>1, <1>2, <2>1
<1>d. RepeatedScript(databases, n) = Concatenated(parts)
  BY DEF RepeatedScript
<1> HIDE DEF parts
<1>4. parts \in Seq(Seq(STRING))
  BY <1>1, <1>3, FunSeq, Zenon
<1>5. Apart(parts)
  BY <1>2 DEF Apart
<1>6. Concatenated(parts) \in Seq(STRING) /\ ScriptOf(Concatenated(parts), parts, Len(parts))
  BY <1>2, <1>4, <1>5, ConcatenatedIs
<1> QED
  BY <1>d, <1>6, Zenon DEF ScriptOf, AllInARow
=============================================================================
