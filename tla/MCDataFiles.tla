---------------------------- MODULE MCDataFiles ----------------------------
(* DataFiles for small workloads.                                          *)
EXTENDS LevelAnalysis

\* Two databases, with queries as EXPLAIN ANALYZE.
MCScript ==
  RepeatedScript(<< << <<"join">> >>, << <<"agg">> >> >>, 2)

\* As shipped: pg15.sql makes a view, selects from it without EXPLAIN
\* and drops the view.
MCShippedScript ==
  RepeatedScript(<< << <<"scan">>, <<"create_view", "q15", "drop_view">> >> >>, 2)

MCMatched == {"join", "scan", "agg", "q15"}
MCExplained == {"join", "scan", "agg"}

\* A hash join compiles an expression at two operators, and another one below
\* an Append; agg compiles one twice and then another.
MCCompiles ==
  [t \in MCMatched |-> CASE t = "join" -> << <<1, 1>>, <<1, 2>>, <<2, 4>> >>
                         [] t = "scan" -> << <<1, 1>> >>
                         [] t = "agg"  -> << <<1, 1>>, <<1, 1>>, <<3, 2>> >>
                         [] t = "q15"  -> << <<4, 1>> >>]
MCReached == [t \in MCMatched |-> 1 .. 3]

\* The report and the compilations of join and agg differ, and every query is
\* one for the analysis.
ASSUME MCLists ==
  /\ Reported("join") = << <<1, 1>>, <<1, 2>>, <<2, 0>> >>
  /\ Reported("agg") = << <<1, 1>>, <<3, 2>> >>
  /\ \A t \in MCExplained : InARow(MCScript, t) /\ Told(MCScript, t)
=============================================================================
