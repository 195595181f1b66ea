--------------------------- MODULE ExprNumbering ---------------------------
(***************************************************************************)
(* What the expression registry promises, without a hash table: every      *)
(* process holds a numbering, a set of <<key, number>> pairs, to which it  *)
(* only adds a key that has no number, under a number that no key has.  A  *)
(* backend starts with its postmaster's numbering; processes forget theirs *)
(* when they end.                                                          *)
(***************************************************************************)
EXTENDS Naturals

CONSTANTS Procs, Postmaster, Keys

VARIABLE numbering

NumberingInit == numbering = [p \in Procs |-> {}]

(***************************************************************************)
(* p gives k a number.  The number is named through the pair that the step *)
(* adds, which keeps the action evaluable although any number will do.     *)
(***************************************************************************)
Assign(p, k) ==
  \E new \in numbering'[p] :
    /\ new[1] = k /\ new[2] \in Nat \ {0}
    /\ \A old \in numbering[p] : old[1] # k /\ old[2] # new[2]
    /\ numbering' = [numbering EXCEPT ![p] = @ \cup {new}]

Inherit(p) == numbering' = [numbering EXCEPT ![p] = numbering[Postmaster]]

Forget(P) == numbering' = [p \in Procs |-> IF p \in P THEN {} ELSE numbering[p]]

NumberingNext ==
  \/ \E p \in Procs, k \in Keys : Assign(p, k)
  \/ \E p \in Procs : Inherit(p)
  \/ \E P \in SUBSET Procs : Forget(P)

NumberingSpec == NumberingInit /\ [][NumberingNext]_numbering
=============================================================================
