----------------------------- MODULE MCTransports -----------------------------
(***************************************************************************)
(* Transports, each checked with the other at rest: the state space is the *)
(* sum of the two.                                                         *)
(***************************************************************************)
EXTENDS Transports, TLC

CONSTANTS p, r1, r2  \* a server behind two relays

TwoRelays == (p :> <<r1, r2>>)

\* What a transport at rest starts with is of no interest.
RestInit ==
  /\ EitherInit
  /\ \/ kind = "tcp" /\ enrolled
     \/ kind = "libp2p" /\ max_connections = Min(Caps)

MCSpec == RestInit /\ [][EitherNext]_all /\ EitherFairness
=============================================================================
