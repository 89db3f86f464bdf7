---------------------------- MODULE MCMembership ----------------------------
(***************************************************************************)
(* Membership with values for TLC.                                         *)
(***************************************************************************)
EXTENDS Membership, TLC

CONSTANTS p1, p2

MCPeer == {p1, p2}
MCSymmetry == Permutations(MCPeer)
=============================================================================
