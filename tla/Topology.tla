------------------------------ MODULE Topology ------------------------------
(***************************************************************************)
(* Paths and the modules they share (topology.py).  A model is a sequence  *)
(* of segments: a routing level has several experts of which a path picks   *)
(* one, any other segment is one module, shared by all paths or private to  *)
(* each.  A path is the tuple of its choices over the routing levels; a     *)
(* module key is the segment and the copy of it.                            *)
(***************************************************************************)
EXTENDS Integers, Sequences, FiniteSets, SequencesExt

CONSTANT Segments   \* sequence of [role, experts, sharing]

ASSUME SegmentsAssumption ==
  Segments \in Seq([role : {"embed", "body", "head"}, experts : Nat \ {0},
                    sharing : {"shared", "private"}])

\* The elements of a sequence that are in S, in their order.
Among(seq, S) ==
  FlattenSeq([i \in DOMAIN seq |-> IF seq[i] \in S THEN <<seq[i]>> ELSE <<>>])

IsRouting(i) == Segments[i].experts > 1

\* The routing segments in order, and how many experts each has.
RoutingIndices ==
  Among([i \in DOMAIN Segments |-> i], {i \in DOMAIN Segments : IsRouting(i)})

\* Which routing level a routing segment is.
LevelOf(i) == CHOOSE j \in DOMAIN RoutingIndices : RoutingIndices[j] = i

LevelSizes == [j \in DOMAIN RoutingIndices |-> Segments[RoutingIndices[j]].experts]

\* In how many ways a choice on the first j levels can be completed.
Completions[j \in 0 .. Len(LevelSizes)] ==
  IF j = Len(LevelSizes) THEN 1 ELSE LevelSizes[j + 1] * Completions[j + 1]

NumPaths == Completions[0]

\* A path's place in the order of paths(), and back: digits in the mixed radix
\* of the level sizes, the first level the most significant.
PathIndex(path) ==
  LET index[j \in 0 .. Len(LevelSizes)] ==
        IF j = 0 THEN 0 ELSE index[j - 1] * LevelSizes[j] + path[j]
  IN  index[Len(LevelSizes)]

PathFromIndex(index) ==
  [j \in DOMAIN LevelSizes |-> (index \div Completions[j]) % LevelSizes[j]]

Paths == [i \in 1..NumPaths |-> PathFromIndex(i - 1)]

GridPath == ToSet(Paths)

IsPrivate(key) == ~IsRouting(key[1]) /\ Segments[key[1]].sharing = "private"

\* The module a path uses in segment i: its expert, its own copy, or the one there is.
SegmentKey(i, path) ==
  <<i, IF IsRouting(i) THEN path[LevelOf(i)]
       ELSE IF IsPrivate(<<i>>) THEN PathIndex(path)
       ELSE 0>>

PathModuleKeys == [path \in GridPath |-> [i \in DOMAIN Segments |-> SegmentKey(i, path)]]

Copies(i) ==
  IF IsRouting(i) THEN Segments[i].experts ELSE IF IsPrivate(<<i>>) THEN NumPaths ELSE 1

\* Every key, in the one order all ranks walk them in.
ModuleKeys == FlattenSeq([i \in DOMAIN Segments |-> [c \in 1..Copies(i) |-> <<i, c - 1>>]])

Key == ToSet(ModuleKeys)

PathsThrough(key) ==
  IF IsPrivate(key) THEN {PathFromIndex(key[2])}
  ELSE IF IsRouting(key[1])
  THEN {p \in GridPath : p[LevelOf(key[1])] = key[2]}
  ELSE GridPath

SharingCount(key) ==
  IF IsPrivate(key) THEN 1
  ELSE IF IsRouting(key[1]) THEN NumPaths \div Segments[key[1]].experts
  ELSE NumPaths
=============================================================================
