--------------------------- MODULE MCLevelSearch ---------------------------
(* Instances of LevelSearch and LevelSearchHistory for TLC.                *)
EXTENDS LevelSearch, TLC

CONSTANTS explained, plain, utility    \* statement texts

\* Plans whose expression list is always the same, or differs between runs.
StablePlans  == [s \in Statements |-> IF s \in ExprStmts THEN {EXPR_MAX_NUM} ELSE {0}]
ChangingPlans == [s \in Statements |-> IF s \in ExprStmts THEN 1 .. EXPR_MAX_NUM ELSE {0}]

\* No levelsFile line for any statement, and one for each.
NoFile    == [s \in Statements |-> <<>>]
FileUpTo2 == [s \in Statements |-> [i \in Pos |-> IF s = explained THEN 2 - i ELSE 1]]
FileWith3 == [s \in Statements |-> 0 :> 3]

Conf(me, test, quartet, r1) ==
  [enableME |-> me, testME |-> test, enableQuartet |-> quartet, Reserved1 |-> r1]
QuartetConfs == {Conf(TRUE, FALSE, TRUE, r1) : r1 \in 0 .. 1}
PlainConfs   == {Conf(TRUE, FALSE, FALSE, r1) : r1 \in 0 .. 1}
ReloadConfs  == {Conf(TRUE, FALSE, FALSE, 0), Conf(TRUE, TRUE, FALSE, 0),
                 Conf(FALSE, FALSE, FALSE, 0)}
TestConfs    == {Conf(TRUE, FALSE, FALSE, 0), Conf(TRUE, TRUE, FALSE, 0)}
============================================================================
