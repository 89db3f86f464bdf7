----------------------------- MODULE MCSharded -----------------------------
(***************************************************************************)
(* Sharded on small instances.                                             *)
(***************************************************************************)
EXTENDS Sharded, TLC

CONSTANTS a, b, s, u  \* two paths, two keys

TwoPaths == (a :> {s, u} @@ b :> {s})
OneModule == (a :> {s})
BothHold == (s :> <<1, 2>>)
OneEach == (s :> <<1>> @@ u :> <<2>>)
OwnDirectories == [o \in Owner |-> o]
OneDirectory == [o \in Owner |-> 1]
=============================================================================
