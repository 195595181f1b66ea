--------------------------- MODULE MCExprRegistry ---------------------------
(***************************************************************************)
(* A table of four slots and six distinguishable expressions: two start at *)
(* the last slot, so that a probe wraps, two at slot 0, one at each other  *)
(* slot, and <<0, 3>> and <<1, 0>> collide in hash and length.             *)
(***************************************************************************)
EXTENDS ExprRegistry, TLC

MCExprs == {<<0>>, <<1>>, <<2>>, <<3>>, <<4>>, <<0, 3>>, <<1, 0>>}

MCStepsFile == <<<<4>>, <<0, 3>>>>

(***************************************************************************)
(* With one step more the hash passes HASH_LIMIT, as it does in the code   *)
(* for some expressions of 36 to 40 steps.                                 *)
(***************************************************************************)
MCLongExprs == {<<0>>, <<2>>, <<0, 3>>, <<0, 3, 61>>}

MCShortFile == <<<<2>>>>

Alike == Permutations(Backends)
=============================================================================
