-------------------------- MODULE GenerationLedger --------------------------
(***************************************************************************)
(* What AsyncScheduler.run_generation promises of one generation after the *)
(* other: every path of the topology starts open; it ends either done (one *)
(* contribution enters the outer step) or dropped; a late success may      *)
(* still turn a dropped path into a done one, a done path stays done, and  *)
(* the outer step is taken, and the next generation opened, only when no   *)
(* path is open.                                                           *)
(***************************************************************************)
CONSTANT Path

VARIABLE outcome        \* path -> "open" | "done" | "dropped"

Init == outcome = [p \in Path |-> "open"]

Finish(p) ==
  /\ outcome[p] \in {"open", "dropped"}
  /\ outcome' = [outcome EXCEPT ![p] = "done"]

\* One reclaim sweep may give up on several paths at once.
GiveUp(S) ==
  /\ \A p \in S : outcome[p] = "open"
  /\ outcome' = [p \in Path |-> IF p \in S THEN "dropped" ELSE outcome[p]]

NextGeneration ==
  /\ \A p \in Path : outcome[p] # "open"
  /\ outcome' = [p \in Path |-> "open"]

Next ==
  \/ \E p \in Path : Finish(p)
  \/ \E S \in SUBSET Path : GiveUp(S)
  \/ NextGeneration

Spec == Init /\ [][Next]_outcome
=============================================================================
