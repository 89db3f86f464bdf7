--------------------------- MODULE MCReplication ---------------------------
(***************************************************************************)
(* Replication on a small instance: an owner loses the key and gets it back. *)
(***************************************************************************)
EXTENDS Replication

FirstComesAndGoes == {{1, 2}, {2}}
=============================================================================
