------------------------- MODULE LevelSearchHistory -------------------------
(***************************************************************************)
(* LevelSearch with a history variable: every measurement of the current   *)
(* text, as a pair of the level combination and the time.  The history     *)
(* constrains nothing; it lets the recorded best be compared with all that *)
(* was measured.                                                           *)
(***************************************************************************)
EXTENDS LevelSearch, FiniteSets

CONSTANT MaxMeasured    \* bound on the size of the history

VARIABLE measured

hvars == <<vars, measured>>

\* The registered positions of the level array.
Combination == [i \in 0 .. currentExprNum - 1 |-> currentExprJITLevels[i]]

HInit == Init /\ measured = {}

HSend ==
  /\ Send
  /\ measured' = IF currentStatement' = currentStatement THEN measured ELSE {}

HMeasure ==
  \E t \in Times :
    /\ ExplainOnePlan(t)
    /\ measured' = IF conf.enableME THEN measured \cup {<<Combination, t>>}
                   ELSE measured
    /\ Cardinality(measured') <= MaxMeasured

HOther ==
  /\ AddExpr \/ Complete \/ Abort \/ Reload
  /\ UNCHANGED measured

HNext == HSend \/ HMeasure \/ HOther

HSpec == HInit /\ [][HNext]_hvars

\* bestJITLevels is the fastest combination measured for this text: some run
\* took min_total_time, none was faster, and on every position that run had,
\* bestJITLevels holds its level (ExplainOnePlan, explain.c 695-703).  It
\* survives cancelled queries, reloads and plans that grow.
BestIsFastest ==
  /\ min_total_time = 0 <=> measured = {}
  /\ \A m \in measured : min_total_time <= m[2]
  /\ measured # {} =>
       \E m \in measured : /\ m[2] = min_total_time
                           /\ \A i \in DOMAIN m[1] : bestJITLevels[i] = m[1][i]
============================================================================
