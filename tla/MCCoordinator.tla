--------------------------- MODULE MCCoordinator ---------------------------
(***************************************************************************)
(* Coordinator on a small instance: two paths that share one module and    *)
(* one of which has a shared module of its own (the first level of a grid  *)
(* has one expert, the second two, of which only one is given a name).     *)
(***************************************************************************)
EXTENDS Coordinator, TLC

CONSTANTS stem, leafA

TwoPaths == (0 :> {stem, leafA}) @@ (1 :> {stem})

\* One path alone, so that it comes to its second turn with few leases.
OnePath == 0 :> {stem}

\* The workers are interchangeable: nothing orders or tells them apart.
Workers == Permutations(Worker)
=============================================================================
