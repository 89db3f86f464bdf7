------------------------------ MODULE MCHosts ------------------------------
(***************************************************************************)
(* Hosts, each of its two jobs checked with the other at rest: the state      *)
(* space is the sum of the two.                                               *)
(*                                                                           *)
(* Training: eight paths over two levels on four ranks, two paths a rank: no *)
(* module is shared by all ranks.  One path has no data, and losses fall then *)
(* rise.  Shards: two workers on one host, two paths, six rows of which one   *)
(* is empty.  The runs ship bytes or specs; a sampled router differs from the *)
(* full fit, and a worker's environment fits three documents differently.     *)
(***************************************************************************)
EXTENDS Hosts

TwoLevels ==
  <<[role |-> "embed", experts |-> 1, sharing |-> "private"],
    [role |-> "body", experts |-> 2, sharing |-> "shared"],
    [role |-> "body", experts |-> 4, sharing |-> "shared"]>>

Sizes == [p \in GridPath |-> IF p = <<0, 1>> THEN 0 ELSE 1 + p[1]]

Losses == [p \in GridPath |-> [g \in 1..Rounds |-> IF g = 2 THEN p[1] ELSE 1]]

SixRows == <<2, 0, 4, 1, 3, 2>>

Fits == [n \in 0..6 |-> [row \in 1..6 |-> IF n > 3 THEN row % 2 ELSE (row \div 2) % 2]]

HostFits == [Fits EXCEPT ![3] = Fits[4]]

Runs ==
  {[budget |-> 6, routing |-> "kmeans", ship |-> "spec", sample |-> 2, pack |-> "pack"],
   [budget |-> 6, routing |-> "kmeans", ship |-> "spec", sample |-> 3, pack |-> "pack"],
   [budget |-> 5, routing |-> "kmeans", ship |-> "spec", sample |-> 0, pack |-> "document"],
   [budget |-> 5, routing |-> "round_robin", ship |-> "bytes", sample |-> 0, pack |-> "pack"],
   [budget |-> 6, routing |-> "round_robin", ship |-> "spec", sample |-> 0, pack |-> "pack"]}

ASSUME SourceAgrees

\* What a job at rest starts with is of no interest.
RestInit ==
  /\ EitherInit
  /\ job = "train" => role = "worker" /\ cfg.routing = "kmeans" /\ cfg.sample = 0

MCSpec == RestInit /\ [][EitherNext]_all /\ EitherFairness
=============================================================================
