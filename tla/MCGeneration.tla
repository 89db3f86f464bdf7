---------------------------- MODULE MCGeneration ----------------------------
(***************************************************************************)
(* Generation for TLC: the constants are in the .cfg files.  Paths and     *)
(* workers are interchangeable, but the liveness properties rule a         *)
(* symmetry set out.                                                       *)
(***************************************************************************)
EXTENDS Generation
=============================================================================
