---------------------------- MODULE MCLevelsFile ----------------------------
(* LevelsFile with two interchangeable databases.                          *)
EXTENDS LevelsFile, TLC

CONSTANTS d1, d2

MCDatabases == {d1, d2}

Alike == Permutations(MCDatabases)
=============================================================================
