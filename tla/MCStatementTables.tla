------------------------- MODULE MCStatementTables -------------------------
(* A small instance of StatementTables.                                    *)
EXTENDS StatementTables, TLC

CONSTANTS select, append, utility, a1, a2, c1, d1, d2, d3, d4, e1, n1, n2, f

Expr(shape, sig) == [shape |-> shape, sig |-> sig]

\* Two plans of select, of different size; f is evaluated at two operators.
Short == [ops |-> <<a1>>, exprs |-> <<Expr(f, a1)>>]
Long  == [ops |-> <<c1, a2>>, exprs |-> <<Expr(f, a2), Expr(f, c1)>>]

\* Two plans of append: addPlanTree does not reach the operator e1 of the first,
\* and has no room for the second.
Below == [ops |-> <<d1>>, exprs |-> <<Expr(f, e1)>>]
Wide  == [ops |-> <<d1, d2, d3, d4>>, exprs |-> <<Expr(f, d1)>>]

MCPlans ==
  [t \in Texts |-> CASE t = select  -> {Short, Long}
                     [] t = append  -> {Below, Wide}
                     [] t = utility -> {}]

ASSUME MCRoom == HasRoom(select) /\ ~HasRoom(append)

\* Queries inside functions: two with the same expression, and one with two
\* operators, for which there is room after Short and not after Long.
MCNested ==
  {[ops |-> <<n>>, exprs |-> <<Expr(f, n)>>] : n \in {n1, n2}}
    \cup {[ops |-> x, exprs |-> <<>>] : x \in {<<n1, n2>>, <<n2, n1>>}}

Conf(me, test, count) == [enableME |-> me, testME |-> test, enableExprCount |-> count]
MCConfigs == {Conf(TRUE, FALSE, TRUE), Conf(TRUE, TRUE, TRUE), Conf(FALSE, FALSE, TRUE)}

Alike == Permutations(Blocks) \cup Permutations({n1, n2})
=============================================================================
