------------------------ MODULE MCLevelSearchHistory ------------------------
(* LevelSearchHistory on the instances of MCLevelSearch.                   *)
EXTENDS LevelSearchHistory, MCLevelSearch
=============================================================================
