-------------------------- MODULE MCDecentralized --------------------------
(***************************************************************************)
(* Decentralized with values for TLC: two paths whose first workers differ. *)
(* The coordinator of p2 is the first owner of the module; that of p1 is    *)
(* not.                                                                     *)
(***************************************************************************)
EXTENDS Decentralized

CONSTANTS o1, o2, o3, w1, w2, p1, p2

MCOwner == {o1, o2, o3}
MCWorker == {w1, w2}
MCPath == {p1, p2}
MCOwnerRank == [p \in MCPath |-> IF p = p1 THEN <<o1, o2, o3>> ELSE <<o3, o2, o1>>]
MCModuleRank == <<o3, o1, o2>>
MCWorkerRank ==
  [p \in MCPath |-> [g \in 0 .. 3 |-> IF (g % 2 = 0) = (p = p1) THEN <<w1, w2>> ELSE <<w2, w1>>]]
MCTarget == [p \in MCPath |-> 1]
=============================================================================
