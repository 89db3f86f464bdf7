------------------------- MODULE ReplicationProofs -------------------------
(***************************************************************************)
(* What holds of Replication for every number of owners, replicas, epochs, *)
(* grants, crashes and checkpoints.                                        *)
(***************************************************************************)
EXTENDS Replication, FiniteSetTheorems, FunctionTheorems, SequenceTheorems, TLAPS

-----------------------------------------------------------------------------
\* Ranks.

Below(S, o) == {q \in S : q < o}

LEMMA OwnersFinite ==
  /\ Owner \subseteq Nat
  /\ \A S \in SUBSET Owner : IsFiniteSet(S) /\ Cardinality(S) \in Nat
<1>1. IsFiniteSet(Owner) /\ Owner \subseteq Nat
  BY ConstantAssumption, FS_Interval DEF Owner
<1>. QED  BY <1>1, FS_Subset, FS_CardinalityType

\* In a set of owners some owner has each rank: the ranks are as many as the
\* owners, and no two owners have the same.
LEMMA RankExists ==
  ASSUME NEW S \in SUBSET Owner, NEW k \in 0 .. Cardinality(S) - 1
  PROVE  \E o \in S : Cardinality(Below(S, o)) = k
<1>. DEFINE n == Cardinality(S)
            rank == [o \in S |-> Cardinality(Below(S, o))]
            Ranks == 0 .. n - 1
<1>1. IsFiniteSet(S) /\ n \in Nat /\ S \subseteq Nat
  BY OwnersFinite
<1>2. \A o \in S : /\ IsFiniteSet(Below(S, o)) /\ Below(S, o) \in SUBSET S
                   /\ Cardinality(Below(S, o)) \in Ranks
  <2>. SUFFICES ASSUME NEW o \in S
                PROVE  /\ IsFiniteSet(Below(S, o)) /\ Below(S, o) \in SUBSET S
                       /\ Cardinality(Below(S, o)) \in Ranks
    OBVIOUS
  <2>1. Below(S, o) \in SUBSET S /\ o \notin Below(S, o)
    BY <1>1 DEF Below
  <2>2. /\ IsFiniteSet(Below(S, o)) /\ Cardinality(Below(S, o)) <= n
        /\ Cardinality(Below(S, o)) # n
    BY <1>1, <2>1, FS_Subset
  <2>3. Cardinality(Below(S, o)) \in Nat
    BY <2>2, FS_CardinalityType
  <2>. QED  BY <1>1, <2>1, <2>2, <2>3
<1>3. rank \in Injection(S, Ranks)
  <2>1. ASSUME NEW o \in S, NEW q \in S, o < q
        PROVE  rank[o] # rank[q]
    <3>1. Below(S, o) \in SUBSET Below(S, q) /\ o \in Below(S, q) /\ o \notin Below(S, o)
      <4>1. o \in Nat /\ q \in Nat /\ \A x \in S : x \in Nat
        BY <1>1
      <4>2. \A x \in S : x < o => x < q
        BY <2>1, <4>1
      <4>3. ~(o < o)
        BY <4>1
      <4>. QED  BY <2>1, <4>2, <4>3 DEF Below
    <3>2. Cardinality(Below(S, o)) # Cardinality(Below(S, q))
      BY <1>2, <3>1, FS_Subset
    <3>. QED  BY <3>2
  <2>2. \A o, q \in S : rank[o] = rank[q] => o = q
    <3>1. \A o, q \in S : o = q \/ o < q \/ q < o
      BY <1>1
    <3>. QED  BY <2>1, <3>1
  <2>3. rank \in [S -> Ranks]
    BY <1>2
  <2>. HIDE DEF rank, Ranks
  <2>4. IsInjective(rank)
    BY <2>2, <2>3 DEF IsInjective
  <2>. QED  BY <2>3, <2>4 DEF Injection
<1>4. IsFiniteSet(Ranks) /\ Cardinality(Ranks) = n
  BY <1>1, FS_Interval
<1>5. rank \in Surjection(S, Ranks)
  <2>. HIDE DEF rank, Ranks
  <2>. QED  BY <1>3, <1>4, FS_Injection
<1>6. \A j \in Ranks : \E o \in S : rank[o] = j
  <2>. HIDE DEF rank, Ranks
  <2>. QED  BY <1>5 DEF Surjection
<1>. QED  BY <1>6

\* Ranked lists owners of the set.
LEMMA RankedType == \A S \in SUBSET Owner : Ranked(S) \in Seq(Owner)
<1>. SUFFICES ASSUME NEW S \in SUBSET Owner PROVE Ranked(S) \in Seq(Owner)
  OBVIOUS
<1>1. Cardinality(S) \in Nat
  BY OwnersFinite
<1>2. ASSUME NEW i \in 1 .. Cardinality(S)
      PROVE  (CHOOSE o \in S : Cardinality({q \in S : q < o}) = i - 1) \in Owner
  <2>1. \E o \in S : Cardinality({q \in S : q < o}) = i - 1
    <3>1. i - 1 \in 0 .. Cardinality(S) - 1
      BY <1>1
    <3>. QED  BY <3>1, RankExists DEF Below
  <2>. QED  BY <2>1
<1>3. Ranked(S) \in [1 .. Cardinality(S) -> Owner]
  BY <1>2 DEF Ranked
<1>. QED  BY <1>1, <1>3

\* The primary is the member that comes first.
LEMMA PrimaryFirst ==
  ASSUME NEW e, Members(e) \in LiveSets
  PROVE  Primary(e) \in Members(e) /\ \A q \in Members(e) : Primary(e) <= q
<1>. DEFINE S == Members(e)
<1>1. S \in SUBSET Owner /\ S # {}
  BY ConstantAssumption
<1>. HIDE DEF S
<1>2. Cardinality(S) \in Nat \ {0}
  BY <1>1, OwnersFinite, FS_EmptySet
<1>3. PICK o \in S : Cardinality(Below(S, o)) = 0
  BY <1>1, <1>2, RankExists
<1>4. Below(S, o) = {}
  <2>1. Below(S, o) \in SUBSET Owner
    BY <1>1 DEF Below
  <2>. QED  BY <1>3, <2>1, OwnersFinite, FS_EmptySet
<1>5. \A q \in S : o <= q
  BY <1>1, <1>4, OwnersFinite DEF Below
<1>. QED  BY <1>5 DEF Primary, S

-----------------------------------------------------------------------------
\* Types.

\* The parts of TypeOK, by the variables an action changes together.
TypeEpochs ==
  /\ published \in Seq(LiveSets)
  /\ view \in [Owner -> Nat \cup {-1}]
  /\ prev \in [Owner -> Nat \cup {-1}]
  /\ \A o \in Owner : view[o] <= Latest /\ (prev[o] < view[o] \/ view[o] = -1)

TypeCopies ==
  /\ held \in [Owner -> BOOLEAN]
  /\ active \in [Owner -> BOOLEAN]
  /\ \A o \in Owner : active[o] => held[o]
  /\ version \in [Owner -> Version]
  /\ bytes \in [Owner -> Seq(Grant)]
  /\ file \in [Owner -> [version : Version, bytes : Seq(Grant)]]

TypePushes ==
  /\ proc \in [Owner -> {"up", "leaving", "down"}]
  /\ seen \in [Owner -> SUBSET Grant]
  /\ pass \in [Owner -> Pass]
  /\ stage \in [Grant -> {"none", "first", "failed", "second", "applied", "over"}]
  /\ wire \subseteq Push
  /\ servers \in [Grant -> SUBSET (Owner \X Nat)]

TypeHistory ==
  /\ tainted \subseteq Nat
  /\ saves \in 0 .. MaxSaves
  /\ downs \in [Owner -> Nat]

LEMMA TypeParts ==
  /\ TypeOK <=> TypeEpochs /\ TypeCopies /\ TypePushes /\ TypeHistory
  /\ TypeOK' <=> TypeEpochs' /\ TypeCopies' /\ TypePushes' /\ TypeHistory'
BY DEF TypeOK, TypeEpochs, TypeCopies, TypePushes, TypeHistory

\* An owner of a key has it in its bank.
OwnedHeld == \A o \in Owner : Owns(o) => held[o]

\* A grant was routed by an epoch.
Routed == \A t \in Grant : stage[t] # "none" => 0 <= Latest

Types == TypeEpochs /\ TypeCopies /\ TypePushes /\ TypeHistory /\ OwnedHeld /\ Routed

LEMMA InitTypes == Init => Types
<1> SUFFICES ASSUME Init PROVE Types
  OBVIOUS
<1>1. Fresh \in Version /\ NoPass \in Pass /\ NoFile \in [version : Version, bytes : Seq(Grant)]
  BY DEF Fresh, Version, NoPass, Pass, NoFile
<1>2. TypeEpochs
  BY DEF Init, TypeEpochs, Latest
<1>3. TypeCopies
  BY <1>1 DEF Init, TypeCopies
<1>4. TypePushes /\ TypeHistory
  BY <1>1, ConstantAssumption DEF Init, TypePushes, TypeHistory
<1>. QED  BY <1>2, <1>3, <1>4 DEF Types, OwnedHeld, Routed, Owns, Init

\* The epochs there are have members, all of them owners.
LEMMA EpochsType ==
  ASSUME TypeEpochs
  PROVE  /\ Latest \in Nat \cup {-1}
         /\ \A e \in 0 .. Latest : Members(e) \in LiveSets
         /\ \A e \in 0 .. Latest : Primary(e) \in Owner /\ Primary(e) \in Members(e)
         /\ \A e \in 0 .. Latest : \A q \in Members(e) : Primary(e) <= q
         /\ \A e \in 0 .. Latest : OwnersOf(e) \subseteq Owner
<1>1. Latest \in Nat \cup {-1} /\ \A e \in 0 .. Latest : Members(e) \in LiveSets
  BY DEF TypeEpochs, Latest, Members
<1>2. \A e \in 0 .. Latest : Primary(e) \in Members(e) /\ \A q \in Members(e) : Primary(e) <= q
  BY <1>1, PrimaryFirst
<1>3. \A S \in LiveSets : S \subseteq Owner
  BY ConstantAssumption
<1>. QED  BY <1>1, <1>2, <1>3 DEF OwnersOf

\* A pass asks owners.
LEMMA ToAskType ==
  ASSUME TypeEpochs, TypePushes, NEW o \in Owner, Owns(o)
  PROVE  ToAsk(o) \in Seq(Owner)
<1>1. view[o] \in 0 .. Latest /\ (prev[o] >= 0 => prev[o] \in 0 .. Latest)
  BY EpochsType DEF TypeEpochs, Owns
<1>2. OwnersOf(view[o]) \subseteq Owner /\ (prev[o] >= 0 => OwnersOf(prev[o]) \subseteq Owner)
  BY <1>1, EpochsType
<1>3. Sources(o) \in Seq(Owner)
  <2>. DEFINE now == OwnersOf(view[o]) \ {o}
              before == IF prev[o] >= 0 THEN OwnersOf(prev[o]) \ (now \cup {o}) ELSE {}
  <2>1. now \in SUBSET Owner /\ before \in SUBSET Owner
    BY <1>2
  <2>2. Sources(o) = Ranked(now) \o Ranked(before)
    BY DEF Sources
  <2>. HIDE DEF now, before
  <2>3. Ranked(now) \in Seq(Owner) /\ Ranked(before) \in Seq(Owner)
    BY <2>1, RankedType
  <2>. QED  BY <2>2, <2>3, ConcatProperties
<1>4. pass[o].left \in Seq(Owner)
  BY DEF TypePushes, Pass
<1>. QED  BY <1>3, <1>4 DEF ToAsk

LEMMA AdoptEpochTypes ==
  ASSUME Types, NEW o \in Owner, AdoptEpoch(o)
  PROVE  Types'
<1>. USE DEF Types
<1>. DEFINE e == Latest
            owned == o \in OwnersOf(e)
            gained == owned /\ ~held[o]
            loads == gained /\ file[o] # NoFile
            keeps == owned \/ (held[o] /\ Owns(o))
            v == IF loads THEN file[o].version ELSE IF keeps /\ ~gained THEN version[o] ELSE Fresh
            b == IF loads THEN file[o].bytes ELSE IF keeps /\ ~gained THEN bytes[o] ELSE <<>>
            a == (active[o] /\ keeps) \/ (e = 0 /\ owned /\ v = Fresh)
<1>1. e \in Nat \cup {-1} /\ e > view[o] /\ view[o] \in Nat \cup {-1}
  BY EpochsType DEF AdoptEpoch, EpochNewer, TypeEpochs
<1>2. held' = [held EXCEPT ![o] = keeps] /\ held'[o] = keeps
  BY DEF AdoptEpoch, TypeCopies
<1>3. version' = [version EXCEPT ![o] = v] /\ bytes' = [bytes EXCEPT ![o] = b] /\ version'[o] = v
  BY <1>2 DEF AdoptEpoch, TypeCopies
<1>4. active' = [active EXCEPT ![o] = a]
  BY <1>2, <1>3 DEF AdoptEpoch, TypeCopies
<1>5. /\ prev' = [prev EXCEPT ![o] = view[o]] /\ view' = [view EXCEPT ![o] = e]
      /\ UNCHANGED <<published, proc, seen, pass, file, clients, history>>
  BY DEF AdoptEpoch
<1>6. v \in Version /\ b \in Seq(Grant) /\ a \in BOOLEAN /\ keeps \in BOOLEAN
  BY DEF TypeCopies, Fresh, Version
<1>7. TypeEpochs'
  BY <1>1, <1>5 DEF TypeEpochs, Latest
<1>8. TypeCopies'
  <2>1. a => keeps
    OBVIOUS
  <2>. HIDE DEF keeps, a, b, v
  <2>. QED  BY <1>2, <1>3, <1>4, <1>5, <1>6, <2>1 DEF TypeCopies
<1>9. TypePushes' /\ TypeHistory'
  BY <1>5 DEF TypePushes, TypeHistory, clients, history
<1>10. OwnedHeld'
  BY <1>2, <1>5 DEF OwnedHeld, Owns, TypeEpochs, TypeCopies, OwnersOf, Members, Latest
<1>11. Routed'
  BY <1>5 DEF Routed, clients, Latest
<1>. QED  BY <1>7, <1>8, <1>9, <1>10, <1>11

\* An epoch stays as it was published.
LEMMA EpochsStay ==
  ASSUME TypeEpochs, PublishEpoch
  PROVE  /\ Latest' = Latest + 1
         /\ \A e \in 0 .. Latest : Members(e)' = Members(e)
<1>1. PICK S \in LiveSets : published' = Append(published, S)
  BY DEF PublishEpoch
<1>2. published \in Seq(LiveSets)
  BY DEF TypeEpochs
<1>. QED  BY <1>1, <1>2 DEF Latest, Members

LEMMA PublishEpochTypes ==
  ASSUME Types, PublishEpoch
  PROVE  Types'
<1>. USE DEF Types
<1>1. UNCHANGED <<owners, clients, history>>
  BY DEF PublishEpoch
<1>2. published' \in Seq(LiveSets)
  BY DEF PublishEpoch, TypeEpochs
<1>3. TypeEpochs'
  BY <1>1, <1>2, EpochsStay, EpochsType DEF TypeEpochs, owners, replica
<1>4. TypeCopies' /\ TypePushes' /\ TypeHistory'
  BY <1>1 DEF TypeCopies, TypePushes, TypeHistory, owners, replica, clients, history
<1>5. OwnedHeld'
  <2>. SUFFICES ASSUME NEW o \in Owner, Owns(o)' PROVE held[o]
    BY <1>1 DEF OwnedHeld, owners, replica
  <2>1. view[o] \in 0 .. Latest /\ view'[o] = view[o]
    BY <1>1, EpochsType DEF Owns, TypeEpochs, owners, replica
  <2>2. Members(view[o])' = Members(view[o])
    BY <2>1, <1>1, EpochsStay DEF Members, owners, replica
  <2>3. o \in OwnersOf(view[o])
    BY <2>2, <2>1 DEF Owns, OwnersOf
  <2>. QED  BY <2>1, <2>3 DEF OwnedHeld, Owns
<1>6. Routed'
  BY <1>1, EpochsStay, EpochsType DEF Routed, clients
<1>. QED  BY <1>3, <1>4, <1>5, <1>6

\* A pass goes on with the rest of its sources.
LEMMA AfterSourceTypes ==
  ASSUME Types, NEW o \in Owner, Pulls(o), ToAsk(o) # <<>>, NEW answered \in BOOLEAN,
         AfterSource(o, answered)
  PROVE  /\ pass' \in [Owner -> Pass]
         /\ active' \in [Owner -> BOOLEAN]
         /\ \A q \in Owner : active'[q] => held[q]
<1>. USE DEF Types
<1>1. ToAsk(o) \in Seq(Owner) /\ Tail(ToAsk(o)) \in Seq(Owner)
  BY ToAskType, HeadTailProperties DEF Pulls
<1>2. pass[o] \in Pass
  BY DEF TypePushes
<1>3. NoPass \in Pass
  BY DEF NoPass, Pass
<1>4. (pass[o].served \/ answered) \in BOOLEAN
  BY <1>2 DEF Pass
<1>5. [left |-> Tail(ToAsk(o)), served |-> pass[o].served \/ answered] \in Pass
  BY <1>1, <1>4 DEF Pass
<1>6. pass' \in [Owner -> Pass]
  BY <1>3, <1>5 DEF AfterSource, TypePushes
<1>7. held[o]
  BY DEF Pulls, OwnedHeld
<1>. QED  BY <1>6, <1>7 DEF AfterSource, TypeCopies

LEMMA ReplicationTypes ==
  ASSUME Types, NEW o \in Owner, SoleOwner(o) \/ Pull(o) \/ PullNothing(o)
  PROVE  Types'
<1>. USE DEF Types
<1>1. CASE SoleOwner(o)
  <2>1. held[o]
    BY <1>1 DEF SoleOwner, Pulls, OwnedHeld
  <2>. QED
    BY <1>1, <2>1
    DEF SoleOwner, TypeEpochs, TypeCopies, TypePushes, TypeHistory, OwnedHeld, Routed, Owns,
        OwnersOf,
        Members, Latest, clients, history
<1>2. CASE Pull(o)
  <2>. DEFINE s == Head(ToAsk(o))
  <2>1. Pulls(o) /\ ToAsk(o) # <<>> /\ Adopt(o, s) /\ AfterSource(o, TRUE)
        /\ UNCHANGED <<published, proc, view, prev, held, seen, file, clients, history>>
    BY <1>2 DEF Pull
  <2>2. s \in Owner
    BY <2>1, ToAskType, HeadTailProperties DEF Pulls
  <2>3. /\ pass' \in [Owner -> Pass]
        /\ active' \in [Owner -> BOOLEAN]
        /\ \A q \in Owner : active'[q] => held[q]
    BY <2>1, AfterSourceTypes
  <2>. HIDE DEF s
  <2>4. version' \in [Owner -> Version] /\ bytes' \in [Owner -> Seq(Grant)]
    BY <2>1, <2>2 DEF Adopt, TypeCopies
  <2>. QED
    BY <2>1, <2>3, <2>4
    DEF TypeEpochs, TypeCopies, TypePushes, TypeHistory, OwnedHeld, Routed, Owns, OwnersOf,
        Members, Latest, clients, history
<1>3. CASE PullNothing(o)
  <2>1. /\ pass' \in [Owner -> Pass]
        /\ active' \in [Owner -> BOOLEAN]
        /\ \A q \in Owner : active'[q] => held[q]
    BY <1>3, AfterSourceTypes DEF PullNothing
  <2>. QED
    BY <1>3, <2>1
    DEF PullNothing, TypeEpochs, TypeCopies, TypePushes, TypeHistory, OwnedHeld, Routed, Owns,
        OwnersOf,
        Members, Latest, clients, history
<1>. QED  BY <1>1, <1>2, <1>3

LEMMA WorkerTypes ==
  ASSUME Types, NEW t \in Grant, PushFirst(t) \/ PushAgain(t) \/ GiveUp(t)
  PROVE  Types'
<1>. USE DEF Types
<1>1. ASSUME NEW e \in 0 .. Latest, NEW nth \in {"first", "second"}
      PROVE  Sent(t, Primary(e), nth) \subseteq Push
  <2>1. Primary(e) \in Owner
    BY EpochsType
  <2>. QED  BY <2>1 DEF Sent, Push
<1>2. wire' \subseteq Push /\ UNCHANGED <<published, owners, history>>
  <2>1. CASE PushFirst(t)
    BY <2>1, <1>1 DEF PushFirst, TypePushes
  <2>2. CASE PushAgain(t)
    <3>1. Latest \in 0 .. Latest
      BY <2>2, EpochsType DEF PushAgain, Routed
    <3>. QED  BY <2>2, <3>1, <1>1 DEF PushAgain, TypePushes
  <2>3. CASE GiveUp(t)
    BY <2>3 DEF GiveUp, TypePushes
  <2>. QED  BY <2>1, <2>2, <2>3
<1>3. stage' \in [Grant -> {"none", "first", "failed", "second", "applied", "over"}]
  BY DEF PushFirst, PushAgain, GiveUp, Failed, TypePushes
<1>4. Routed'
  <2>1. 0 <= Latest
    BY EpochsType DEF PushFirst, PushAgain, GiveUp, Routed
  <2>. QED  BY <1>2, <2>1 DEF Routed, Latest
<1>. QED
  BY <1>2, <1>3, <1>4
  DEF TypeEpochs, TypeCopies, TypePushes, TypeHistory, OwnedHeld, Owns, OwnersOf,
      Members, Latest, owners, replica, history

\* A process that goes down forgets its epoch and its copy.
LEMMA DownTypes ==
  ASSUME Types, NEW o \in Owner, GoDown(o),
         version' \in [Owner -> Version], bytes' \in [Owner -> Seq(Grant)]
  PROVE  Types'
<1>. USE DEF Types
<1>1. TypeEpochs'
  BY EpochsType DEF GoDown, TypeEpochs, Latest
<1>2. TypeCopies'
  BY DEF GoDown, TypeCopies
<1>3. TypePushes'
  <2>1. NoPass \in Pass
    BY DEF NoPass, Pass
  <2>2. wire' \subseteq Push
    BY DEF GoDown, TypePushes
  <2>. QED  BY <2>1, <2>2 DEF GoDown, TypePushes
<1>4. TypeHistory'
  <2>1. tainted' \subseteq Nat
    <3>1. IsPrimary(o) => view[o] \in Nat
      BY DEF IsPrimary, TypeEpochs
    <3>2. tainted' = tainted \/ (IsPrimary(o) /\ tainted' = tainted \cup {view[o]})
      BY DEF GoDown
    <3>. QED  BY <3>1, <3>2 DEF TypeHistory
  <2>. QED  BY <2>1 DEF GoDown, TypeHistory
<1>5. OwnedHeld'
  BY DEF GoDown, OwnedHeld, Owns, OwnersOf, Members, TypeEpochs, TypeCopies
<1>6. Routed'
  BY DEF GoDown, Routed, Latest
<1>. QED  BY <1>1, <1>2, <1>3, <1>4, <1>5, <1>6

LEMMA FaultTypes ==
  ASSUME Types, NEW o \in Owner, Checkpoint(o) \/ Crash(o) \/ Leave(o) \/ Depart(o) \/ Restart(o)
  PROVE  Types'
<1>. USE DEF Types
<1>1. CASE Checkpoint(o)
  <2>1. file' \in [Owner -> [version : Version, bytes : Seq(Grant)]]
    BY <1>1 DEF Checkpoint, TypeCopies
  <2>2. saves' \in 0 .. MaxSaves
    BY <1>1, ConstantAssumption DEF Checkpoint, TypeHistory
  <2>. QED
    BY <1>1, <2>1, <2>2
    DEF Checkpoint, TypeEpochs, TypeCopies, TypePushes, TypeHistory, OwnedHeld, Routed, Owns,
        OwnersOf,
        Members, Latest, replica, clients
<1>2. CASE Leave(o) \/ Restart(o)
  <2>1. proc' \in [Owner -> {"up", "leaving", "down"}]
    BY <1>2 DEF Leave, Restart, TypePushes
  <2>2. UNCHANGED <<published, replica, seen, pass, file, clients, history>>
    BY <1>2 DEF Leave, Restart
  <2>3. TypeEpochs' /\ TypeCopies' /\ TypePushes' /\ TypeHistory'
    BY <2>1, <2>2
    DEF TypeEpochs, TypeCopies, TypePushes, TypeHistory, Latest, replica, clients, history
  <2>4. OwnedHeld' /\ Routed'
    BY <2>2 DEF OwnedHeld, Routed, Owns, OwnersOf, Members, Latest, replica, clients
  <2>. QED  BY <2>3, <2>4
<1>3. Fresh \in Version /\ <<>> \in Seq(Grant)
  BY DEF Fresh, Version
<1>4. CASE Crash(o)
  <2>1. version' \in [Owner -> Version] /\ bytes' \in [Owner -> Seq(Grant)]
    BY <1>3, <1>4 DEF Crash, TypeCopies
  <2>. QED  BY <1>4, <2>1, DownTypes DEF Crash
<1>5. CASE Depart(o)
  <2>1. version' \in [Owner -> Version] /\ bytes' \in [Owner -> Seq(Grant)]
    BY <1>3, <1>5 DEF Depart, TypeCopies
  <2>. QED  BY <1>5, <2>1, DownTypes DEF Depart
<1>. QED  BY <1>1, <1>2, <1>4, <1>5

LEMMA HandlePushTypes ==
  ASSUME Types, NEW m \in wire, HandlePush(m)
  PROVE  Types'
<1>. USE DEF Types
<1>. DEFINE o == m.to
            t == m.grant
            applies == Reply(m) = "applied" /\ MayWrite(o)
<1>1. o \in Owner /\ t \in Grant /\ m.nth \in {"first", "second"}
  BY DEF TypePushes, Push
<1>2. UNCHANGED <<published, proc, view, prev, held, active, pass, file, tainted, saves, downs>>
  BY DEF HandlePush
<1>3. TypeEpochs' /\ TypeHistory' /\ OwnedHeld'
  BY <1>2 DEF TypeEpochs, TypeHistory, OwnedHeld, Owns, OwnersOf, Members, Latest
<1>4. TypeCopies'
  <2>1. /\ version' = [version EXCEPT ![o] = IF applies THEN NextVersion(o) ELSE version[o]]
        /\ bytes' = [bytes EXCEPT ![o] = IF applies THEN Append(bytes[o], t) ELSE bytes[o]]
    BY <1>1 DEF HandlePush, TypeCopies
  <2>2. NextVersion(o) \in Version
    BY <1>1 DEF NextVersion, TypeCopies, Version, TypeEpochs
  <2>3. Append(bytes[o], t) \in Seq(Grant)
    BY <1>1 DEF TypeCopies
  <2>. HIDE DEF o, t, applies
  <2>4. version' \in [Owner -> Version] /\ bytes' \in [Owner -> Seq(Grant)]
    BY <1>1, <2>1, <2>2, <2>3 DEF TypeCopies
  <2>. QED  BY <1>2, <2>4 DEF TypeCopies
<1>5. TypePushes'
  <2>1. seen' \in [Owner -> SUBSET Grant]
    BY <1>1 DEF HandlePush, Consumes, TypePushes
  <2>2. wire' \subseteq Push
    BY DEF HandlePush, TypePushes
  <2>3. servers' \in [Grant -> SUBSET (Owner \X Nat)]
    <3>1. <<o, downs[o]>> \in Owner \X Nat
      BY <1>1 DEF TypeHistory
    <3>2. servers' = [servers EXCEPT ![t] = IF applies THEN servers[t] \cup {<<o, downs[o]>>}
                                            ELSE servers[t]]
      BY <1>1 DEF HandlePush, TypePushes
    <3>. HIDE DEF o, t, applies
    <3>. QED  BY <1>1, <3>1, <3>2 DEF TypePushes
  <2>4. stage' \in [Grant -> {"none", "first", "failed", "second", "applied", "over"}]
    <3>1. Reply(m) \in {"replay", "applied", "not_primary"}
      BY DEF Reply
    <3>2. Failed(m.nth) \in {"failed", "over"}
      BY DEF Failed
    <3>3. stage[t] \in {"none", "first", "failed", "second", "applied", "over"}
      BY <1>1 DEF TypePushes
    <3>4. stage' = [stage EXCEPT
           ![t] = CASE stage[t] # m.nth -> stage[t]
                    [] stage[t] = m.nth /\ Reply(m) = "applied" -> "applied"
                    [] stage[t] = m.nth /\ Reply(m) = "not_primary" -> Failed(m.nth)
                    [] stage[t] = m.nth /\ Reply(m) = "replay" -> "over"]
      BY <1>1 DEF HandlePush, TypePushes
    <3>5. CASE stage[t] # m.nth
      BY <3>3, <3>4, <3>5 DEF TypePushes
    <3>6. CASE stage[t] = m.nth
      BY <3>1, <3>2, <3>4, <3>6 DEF TypePushes
    <3>. QED  BY <3>5, <3>6
  <2>. QED  BY <1>2, <2>1, <2>2, <2>3, <2>4 DEF TypePushes
<1>6. Routed'
  <2>1. \A u \in Grant : stage'[u] # "none" => stage[u] # "none"
    BY <1>1 DEF HandlePush, TypePushes
  <2>. QED  BY <1>2, <2>1 DEF Routed, Latest
<1>. QED  BY <1>3, <1>4, <1>5, <1>6

LEMMA StutterTypes ==
  ASSUME Types, UNCHANGED vars
  PROVE  Types'
<1>. USE DEF Types, vars, owners, replica, clients, history
<1>1. TypeEpochs' /\ TypeCopies' /\ TypePushes' /\ TypeHistory'
  BY DEF TypeEpochs, TypeCopies, TypePushes, TypeHistory, Latest
<1>2. OwnedHeld' /\ Routed'
  BY DEF OwnedHeld, Routed, Owns, OwnersOf, Members, Latest
<1>. QED  BY <1>1, <1>2

LEMMA NextTypes == Types /\ [Next]_vars => Types'
<1>. SUFFICES ASSUME Types, [Next]_vars PROVE Types'
  OBVIOUS
<1>1. CASE PublishEpoch
  BY <1>1, PublishEpochTypes
<1>2. ASSUME NEW o \in Owner, OwnerStep(o) PROVE Types'
  <2>1. CASE AdoptEpoch(o)
    BY <2>1, AdoptEpochTypes
  <2>2. CASE SoleOwner(o) \/ Pull(o) \/ PullNothing(o)
    BY <2>2, ReplicationTypes
  <2>3. CASE Checkpoint(o) \/ Crash(o) \/ Leave(o) \/ Depart(o) \/ Restart(o)
    BY <2>3, FaultTypes
  <2>. QED  BY <1>2, <2>1, <2>2, <2>3 DEF OwnerStep
<1>3. ASSUME NEW t \in Grant, PushFirst(t) \/ PushAgain(t) \/ GiveUp(t) PROVE Types'
  BY <1>3, WorkerTypes
<1>4. ASSUME NEW m \in wire, HandlePush(m) PROVE Types'
  BY <1>4, HandlePushTypes
<1>5. CASE UNCHANGED vars
  BY <1>5, StutterTypes
<1>. QED  BY <1>1, <1>2, <1>3, <1>4, <1>5 DEF Next

\* Every variable of a key's replication has its type, no owner acts under an
\* epoch that was not published, and a key is served only from the bank.
THEOREM TypeCorrect == Spec => []TypeOK
<1>1. Spec => []Types
  BY InitTypes, NextTypes, PTL DEF Spec
<1>2. Types => TypeOK
  BY TypeParts DEF Types
<1>. QED  BY <1>1, <1>2, PTL

\* A copy goes back to an older version only if it came from an epoch ahead of
\* its owner's: pulls and drains pass the version gate, a push counts up, and a
\* key that is kept over an epoch change keeps its copy.
THEOREM CopiesGoForward == Spec => VersionsGoForward
<1>1. ASSUME Types, [Next]_vars,
             NEW o \in Owner, held[o], held'[o], version[o][1] <= view[o]
      PROVE  ~Newer(version[o], version'[o])
  <2>. USE DEF Types
  <2>1. version[o] \in Version /\ view[o] \in Nat \cup {-1}
    BY <1>1 DEF TypeCopies, TypeEpochs
  <2>2. CASE version'[o] = version[o]
    BY <2>1, <2>2 DEF Newer, Version
  <2>3. CASE Newer(version'[o], version[o])
    <3>1. version'[o] \in Version
      BY <1>1, NextTypes DEF TypeCopies
    <3>. QED  BY <2>1, <2>3, <3>1 DEF Newer, Version
  <2>4. ASSUME NEW q \in Owner, AdoptEpoch(q)
        PROVE  version'[o] = version[o]
    BY <1>1, <2>4 DEF AdoptEpoch, TypeCopies, OwnedHeld
  <2>5. ASSUME NEW q \in Owner, Pull(q)
        PROVE  version'[o] = version[o] \/ Newer(version'[o], version[o])
    BY <1>1, <2>5 DEF Pull, Adopt, TypeCopies
  <2>6. ASSUME NEW q \in Owner, Crash(q) \/ Depart(q)
        PROVE  version'[o] = version[o] \/ Newer(version'[o], version[o])
    <3>1. q # o
      BY <1>1, <2>6 DEF Crash, Depart, GoDown, TypeCopies
    <3>. QED  BY <1>1, <2>6, <3>1 DEF Crash, Depart, TypeCopies
  <2>7. ASSUME NEW m \in wire, HandlePush(m)
        PROVE  version'[o] = version[o] \/ Newer(version'[o], version[o])
    <3>1. version'[o] = version[o] \/ version'[o] = NextVersion(o)
      BY <1>1, <2>7 DEF HandlePush, TypeCopies
    <3>2. NextVersion(o) # version[o] => Newer(NextVersion(o), version[o])
      BY <1>1, <2>1 DEF NextVersion, Newer, Version
    <3>. QED  BY <3>1, <3>2
  <2>. QED
    BY <1>1, <2>2, <2>3, <2>4, <2>5, <2>6, <2>7
    DEF Next, OwnerStep, PublishEpoch, SoleOwner, PullNothing, Checkpoint, Leave, Restart,
        PushFirst, PushAgain, GiveUp, vars, owners, replica
<1>2. Types /\ [Next]_vars
      => [\A o \in Owner : held[o] /\ held'[o] /\ version[o][1] <= view[o]
            => ~Newer(version[o], version'[o])]_vars
  BY <1>1
<1>. QED  BY <1>2, InitTypes, NextTypes, PTL DEF Spec, VersionsGoForward

-----------------------------------------------------------------------------
\* Copies.

\* A copy of the key is in the memory of an owner or in a checkpoint file, or
\* it is a seeded one.
Copy(v, b) ==
  \/ v[2] = 0 /\ b = <<>>
  \/ \E o \in Owner : v = version[o] /\ b = bytes[o]
  \/ \E o \in Owner : v = file[o].version /\ b = file[o].bytes

\* A push is applied.
Applies(m) == Reply(m) = "applied" /\ MayWrite(m.to)

\* Nothing but an applied push makes a copy that was not there.
LEMMA NoOtherCopies ==
  ASSUME Types, [Next]_vars, \A m \in wire : HandlePush(m) => ~Applies(m),
         NEW v \in Version, NEW b \in Seq(Grant), Copy(v, b)'
  PROVE  Copy(v, b)
<1>. USE DEF Types
<1>. DEFINE Same(o) == /\ version'[o] = version[o] /\ bytes'[o] = bytes[o]
            Seeded(o) == version'[o][2] = 0 /\ bytes'[o] = <<>>
            Taken(o) == \E q \in Owner : version'[o] = version[q] /\ bytes'[o] = bytes[q]
            Loaded(o) == version'[o] = file[o].version /\ bytes'[o] = file[o].bytes
            From(o) == Same(o) \/ Seeded(o) \/ Taken(o) \/ Loaded(o)
<1>1. CASE \A o \in Owner : From(o)
  <2>1. CASE file' = file
    BY <1>1, <2>1 DEF Copy
  <2>2. ASSUME NEW q \in Owner, Checkpoint(q)
        PROVE  Copy(v, b)
    <3>1. /\ file'[q].version = version[q] /\ file'[q].bytes = bytes[q]
          /\ \A o \in Owner \ {q} : file'[o] = file[o]
          /\ version' = version /\ bytes' = bytes
      BY <2>2 DEF Checkpoint, TypeCopies, replica
    <3>2. \A o \in Owner : \/ file'[o].version = file[o].version /\ file'[o].bytes = file[o].bytes
                           \/ file'[o].version = version[q] /\ file'[o].bytes = bytes[q]
      BY <3>1
    <3>. HIDE DEF From
    <3>. QED  BY <3>1, <3>2 DEF Copy
  <2>3. file' = file \/ \E q \in Owner : Checkpoint(q)
    BY DEF Next, OwnerStep, AdoptEpoch, PublishEpoch, SoleOwner, Pull, PullNothing, Crash, Leave,
           Depart,
           GoDown, Restart, PushFirst, PushAgain, GiveUp, HandlePush, vars, owners
  <2>. QED  BY <2>1, <2>2, <2>3
<1>2. ASSUME NEW q \in Owner, AdoptEpoch(q), NEW o \in Owner
      PROVE  From(o)
  <2>1. CASE o # q
    BY <1>2, <2>1 DEF AdoptEpoch, TypeCopies
  <2>2. CASE o = q
    <3>1. \/ version'[q] = file[q].version /\ bytes'[q] = file[q].bytes
          \/ version'[q] = version[q] /\ bytes'[q] = bytes[q]
          \/ version'[q] = Fresh /\ bytes'[q] = <<>>
      BY <1>2 DEF AdoptEpoch, TypeCopies
    <3>. QED  BY <2>2, <3>1 DEF Fresh
  <2>. QED  BY <2>1, <2>2
<1>3. ASSUME NEW q \in Owner, Pull(q), NEW o \in Owner
      PROVE  From(o)
  <2>. DEFINE s == Head(ToAsk(q))
  <2>1. s \in Owner /\ Adopt(q, s)
    BY <1>3, ToAskType, HeadTailProperties DEF Pull, Pulls
  <2>. HIDE DEF s
  <2>2. CASE o # q
    BY <2>1, <2>2 DEF Adopt, TypeCopies
  <2>3. CASE o = q
    BY <2>1, <2>3 DEF Adopt, TypeCopies
  <2>. QED  BY <2>2, <2>3
<1>4. ASSUME NEW q \in Owner, Crash(q), NEW o \in Owner
      PROVE  From(o)
  BY <1>4 DEF Crash, TypeCopies, Fresh
<1>5. ASSUME NEW q \in Owner, Depart(q), NEW o \in Owner
      PROVE  From(o)
  <2>1. CASE o # q
    BY <1>5, <2>1 DEF Depart, TypeCopies
  <2>2. CASE o = q
    <3>1. \A r \in Owner : Drains(q, r) => r # q
      BY DEF Drains
    <3>. QED  BY <1>5, <2>2, <3>1 DEF Depart, TypeCopies, Fresh
  <2>. QED  BY <2>1, <2>2
<1>6. ASSUME NEW m \in wire, HandlePush(m), NEW o \in Owner
      PROVE  From(o)
  <2>1. ~Applies(m)
    BY <1>6
  <2>. QED  BY <1>6, <2>1 DEF HandlePush, Applies, TypeCopies
<1>. HIDE DEF From
<1>7. ASSUME version' = version, bytes' = bytes
      PROVE  \A o \in Owner : From(o)
  BY <1>7 DEF From
<1>. QED
  BY <1>1, <1>2, <1>3, <1>4, <1>5, <1>6, <1>7
  DEF Next, OwnerStep, PublishEpoch, SoleOwner, PullNothing, Checkpoint, Leave, Restart,
      PushFirst, PushAgain, GiveUp, vars, owners, replica

\* An applied push makes one new copy: the one with the grant, at the next
\* version.
LEMMA AppliedCopy ==
  ASSUME Types, NEW m \in wire, HandlePush(m), Applies(m)
  PROVE  /\ m.to \in Owner /\ m.grant \in Grant
         /\ version' = [version EXCEPT ![m.to] = NextVersion(m.to)]
         /\ bytes' = [bytes EXCEPT ![m.to] = Append(bytes[m.to], m.grant)]
         /\ \A v \in Version, b \in Seq(Grant) :
              Copy(v, b)' => \/ Copy(v, b)
                             \/ v = NextVersion(m.to) /\ b = Append(bytes[m.to], m.grant)
<1>. USE DEF Types
<1>1. m.to \in Owner /\ m.grant \in Grant
  BY DEF TypePushes, Push
<1>2. /\ version' = [version EXCEPT ![m.to] = NextVersion(m.to)]
      /\ bytes' = [bytes EXCEPT ![m.to] = Append(bytes[m.to], m.grant)]
      /\ file' = file
  BY <1>1 DEF HandlePush, Applies, TypeCopies
<1>3. \A o \in Owner : \/ version'[o] = version[o] /\ bytes'[o] = bytes[o]
                       \/ /\ version'[o] = NextVersion(m.to)
                          /\ bytes'[o] = Append(bytes[m.to], m.grant)
  BY <1>1, <1>2 DEF TypeCopies
<1>. QED  BY <1>1, <1>2, <1>3 DEF Copy

-----------------------------------------------------------------------------
\* Grants are applied once per server.

LEMMA TimesType ==
  ASSUME NEW t, NEW s \in Seq(Grant)
  PROVE  IsFiniteSet({i \in DOMAIN s : s[i] = t}) /\ Times(t, s) \in Nat
<1>1. IsFiniteSet(1 .. Len(s))
  BY FS_Interval
<1>2. DOMAIN s = 1 .. Len(s)
  OBVIOUS
<1>. QED  BY <1>1, <1>2, FS_Subset, FS_CardinalityType DEF Times

LEMMA TimesAppend ==
  ASSUME NEW t \in Grant, NEW u \in Grant, NEW s \in Seq(Grant)
  PROVE  Times(t, Append(s, u)) = IF t = u THEN Times(t, s) + 1 ELSE Times(t, s)
<1>. DEFINE At(x) == {i \in DOMAIN x : x[i] = t}
            n == Len(s) + 1
<1>1. /\ Append(s, u) \in Seq(Grant) /\ Len(Append(s, u)) = n
      /\ \A i \in 1 .. Len(s) : Append(s, u)[i] = s[i]
      /\ Append(s, u)[n] = u
  OBVIOUS
<1>2. DOMAIN s = 1 .. Len(s) /\ DOMAIN Append(s, u) = 1 .. n /\ Len(s) \in Nat
  BY <1>1
<1>3. At(Append(s, u)) = IF t = u THEN At(s) \cup {n} ELSE At(s)
  <2>1. \A i : i \in 1 .. n <=> i \in 1 .. Len(s) \/ i = n
    BY <1>2
  <2>. QED  BY <1>1, <1>2, <2>1
<1>4. n \notin At(s)
  BY <1>2
<1>5. IsFiniteSet(At(s)) /\ Times(t, s) = Cardinality(At(s))
        /\ Times(t, Append(s, u)) = Cardinality(At(Append(s, u)))
  BY TimesType DEF Times
<1>. HIDE DEF n, At
<1>6. Cardinality(At(s) \cup {n}) = Cardinality(At(s)) + 1
  BY <1>4, <1>5, FS_AddElement
<1>. QED  BY <1>3, <1>5, <1>6

\* No copy has a grant more often than servers applied it.
Counts ==
  \A v \in Version, b \in Seq(Grant), t \in Grant :
    Copy(v, b) => Times(t, b) <= Cardinality(servers[t])

\* What applied a grant is a process that runs and has it among its used-up
\* grants, or one that went down.
Servers ==
  \A t \in Grant :
    /\ IsFiniteSet(servers[t])
    /\ \A o \in Owner, n \in Nat : <<o, n>> \in servers[t] =>
         n <= downs[o] /\ (n = downs[o] => t \in seen[o])

LEMMA ServersStep ==
  ASSUME Types, Servers, [Next]_vars
  PROVE  Servers'
<1>. USE DEF Types
<1>1. ASSUME NEW q \in Owner, GoDown(q)
      PROVE  Servers'
  <2>1. /\ downs' = [downs EXCEPT ![q] = downs[q] + 1] /\ seen' = [seen EXCEPT ![q] = {}]
        /\ servers' = servers
    BY <1>1 DEF GoDown, TypeHistory
  <2>. QED  BY <2>1 DEF Servers, TypeHistory, TypePushes
<1>2. ASSUME NEW m \in wire, HandlePush(m)
      PROVE  Servers'
  <2>1. m.to \in Owner /\ m.grant \in Grant
    BY DEF TypePushes, Push
  <2>2. seen' = [seen EXCEPT ![m.to] = seen[m.to] \cup {m.grant}] /\ downs' = downs
    BY <1>2 DEF HandlePush, Consumes
  <2>3. \/ servers' = servers
        \/ servers' = [servers EXCEPT ![m.grant] = servers[m.grant] \cup {<<m.to, downs[m.to]>>}]
    BY <1>2, <2>1 DEF HandlePush, TypePushes
  <2>4. \A t \in Grant : IsFiniteSet(servers'[t])
    <3>1. IsFiniteSet(servers[m.grant] \cup {<<m.to, downs[m.to]>>})
      BY <2>1, FS_AddElement DEF Servers
    <3>. QED  BY <2>1, <2>3, <3>1 DEF Servers, TypePushes
  <2>5. ASSUME NEW t \in Grant, NEW o \in Owner, NEW n \in Nat, <<o, n>> \in servers'[t]
        PROVE  n <= downs'[o] /\ (n = downs'[o] => t \in seen'[o])
    <3>1. CASE <<o, n>> \in servers[t]
      BY <2>1, <2>2, <3>1 DEF Servers, TypePushes
    <3>2. CASE <<o, n>> \notin servers[t]
      <4>1. t = m.grant /\ <<o, n>> = <<m.to, downs[m.to]>>
        BY <2>1, <2>3, <2>5, <3>2 DEF TypePushes
      <4>2. o = m.to /\ n = downs[m.to]
        BY <4>1
      <4>. QED  BY <2>1, <2>2, <4>1, <4>2 DEF TypePushes, TypeHistory
    <3>. QED  BY <3>1, <3>2
  <2>. QED  BY <2>4, <2>5 DEF Servers
<1>3. ASSUME UNCHANGED <<seen, servers, downs>>
      PROVE  Servers'
  BY <1>3 DEF Servers
<1>. QED
  BY <1>1, <1>2, <1>3
  DEF Next, OwnerStep, AdoptEpoch, PublishEpoch, SoleOwner, Pull, PullNothing, Checkpoint, Crash,
      Leave,
      Depart, Restart, PushFirst, PushAgain, GiveUp, vars, owners, history

LEMMA CountsStep ==
  ASSUME Types, Servers, Counts, [Next]_vars
  PROVE  Counts'
<1>. USE DEF Types
<1>1. CASE \A m \in wire : HandlePush(m) => ~Applies(m)
  <2>1. UNCHANGED servers
    BY ZenonT(40), <1>1
    DEF Next, OwnerStep, AdoptEpoch, PublishEpoch, SoleOwner, Pull, PullNothing, Checkpoint, Crash,
        Leave,
        Depart, GoDown, Restart, PushFirst, PushAgain, GiveUp, HandlePush, Applies, vars, history,
        TypePushes
  <2>2. \A v \in Version, b \in Seq(Grant) : Copy(v, b)' => Copy(v, b)
    BY <1>1, NoOtherCopies
  <2>. QED  BY <2>1, <2>2 DEF Counts
<1>2. ASSUME NEW m \in wire, HandlePush(m), Applies(m)
      PROVE  Counts'
  <2>. DEFINE o == m.to
              u == m.grant
  <2>1. /\ o \in Owner /\ u \in Grant
        /\ \A v \in Version, b \in Seq(Grant) :
             Copy(v, b)' => \/ Copy(v, b)
                            \/ b = Append(bytes[o], u)
    BY <1>2, AppliedCopy
  <2>2. servers' = [servers EXCEPT ![u] = servers[u] \cup {<<o, downs[o]>>}]
    BY <1>2, <2>1 DEF HandlePush, Applies, TypePushes
  <2>3. <<o, downs[o]>> \notin servers[u]
    <3>1. u \notin seen[o] /\ downs[o] \in Nat
      BY <1>2, <2>1 DEF Applies, Reply, TypeHistory
    <3>. QED  BY <2>1, <3>1 DEF Servers
  <2>. HIDE DEF o, u
  <2>4. \A t \in Grant : IsFiniteSet(servers[t]) /\ Cardinality(servers[t]) \in Nat
    BY FS_CardinalityType DEF Servers
  <2>5. \A t \in Grant : Cardinality(servers'[t]) =
          IF t = u THEN Cardinality(servers[t]) + 1 ELSE Cardinality(servers[t])
    BY <2>1, <2>2, <2>3, <2>4, FS_AddElement DEF TypePushes
  <2>6. ASSUME NEW t \in Grant
        PROVE  Times(t, bytes[o]) <= Cardinality(servers[t])
    <3>1. Copy(version[o], bytes[o]) /\ version[o] \in Version /\ bytes[o] \in Seq(Grant)
      BY <2>1 DEF Copy, TypeCopies
    <3>. QED  BY <3>1 DEF Counts
  <2>7. ASSUME NEW v \in Version, NEW b \in Seq(Grant), NEW t \in Grant, Copy(v, b)'
        PROVE  Times(t, b) <= Cardinality(servers'[t])
    <3>1. CASE Copy(v, b)
      <4>1. Times(t, b) <= Cardinality(servers[t]) /\ Times(t, b) \in Nat
        BY <3>1, TimesType DEF Counts
      <4>. QED  BY <2>4, <2>5, <4>1
    <3>2. CASE b = Append(bytes[o], u)
      <4>1. bytes[o] \in Seq(Grant)
        BY <2>1 DEF TypeCopies
      <4>2. Times(t, b) = IF t = u THEN Times(t, bytes[o]) + 1 ELSE Times(t, bytes[o])
        BY <2>1, <3>2, <4>1, TimesAppend
      <4>3. Times(t, bytes[o]) \in Nat
        BY <4>1, TimesType
      <4>. QED  BY <2>4, <2>5, <2>6, <4>2, <4>3
    <3>. QED  BY <2>1, <2>7, <3>1, <3>2
  <2>. QED  BY <2>7 DEF Counts
<1>. QED  BY <1>1, <1>2

LEMMA InitCopies ==
  ASSUME Init, NEW v, NEW b, Copy(v, b)
  PROVE  v[2] = 0 /\ b = <<>>
BY DEF Init, Copy, Fresh, NoFile

LEMMA TimesEmpty == \A t : Times(t, <<>>) = 0
<1>1. \A t : {i \in DOMAIN <<>> : <<>>[i] = t} = {}
  OBVIOUS
<1>. QED  BY <1>1, FS_EmptySet DEF Times

LEMMA InitCounts == Init => Servers /\ Counts
<1>. SUFFICES ASSUME Init PROVE Servers /\ Counts
  OBVIOUS
<1>1. \A t \in Grant : servers[t] = {} /\ IsFiniteSet(servers[t]) /\ Cardinality(servers[t]) = 0
  BY FS_EmptySet DEF Init
<1>. QED  BY <1>1, InitCopies, TimesEmpty DEF Servers, Counts

\* No copy of the key has a grant more often than there are servers that
\* applied it, wherever it was pulled, drained or loaded from.
THEOREM GrantsAreSingleUse == Spec => []AppliedOncePerServer
<1>1. Types /\ Servers /\ Counts /\ [Next]_vars => (Types /\ Servers /\ Counts)'
  BY NextTypes, ServersStep, CountsStep
<1>2. Types /\ Servers /\ Counts => AppliedOncePerServer
  <2>1. Types => \A o \in Owner : /\ version[o] \in Version /\ bytes[o] \in Seq(Grant)
                                  /\ Copy(version[o], bytes[o])
    BY DEF Types, TypeCopies, Copy
  <2>. QED  BY <2>1 DEF Counts, AppliedOncePerServer
<1>. QED  BY InitTypes, InitCounts, <1>1, <1>2, PTL DEF Spec

-----------------------------------------------------------------------------
\* Versions identify bytes.

LEMMA PrefixFacts ==
  ASSUME NEW s \in Seq(Grant), NEW u \in Seq(Grant), NEW t \in Grant
  PROVE  /\ IsPrefixOf(<<>>, u)
         /\ IsPrefixOf(u, u)
         /\ IsPrefixOf(s, u) => IsPrefixOf(s, Append(u, t))
<1>1. IsPrefixOf(<<>>, u) /\ IsPrefixOf(u, u)
  BY DEF IsPrefixOf
<1>2. ASSUME IsPrefixOf(s, u)
      PROVE  IsPrefixOf(s, Append(u, t))
  <2>. DEFINE a == Append(u, t)
              n == Len(s)
  <2>1. n \in Nat /\ n <= Len(u) /\ SubSeq(u, 1, n) = s
    BY <1>2 DEF IsPrefixOf
  <2>2. a \in Seq(Grant) /\ Len(a) = Len(u) + 1 /\ \A i \in 1 .. Len(u) : a[i] = u[i]
    OBVIOUS
  <2>. HIDE DEF a, n
  <2>3. SubSeq(a, 1, n) = SubSeq(u, 1, n)
    <3>1. \A i \in 1 .. n : a[i] = u[i]
      BY <2>1, <2>2
    <3>2. /\ SubSeq(a, 1, n) = [i \in 1 .. n |-> a[i]]
          /\ SubSeq(u, 1, n) = [i \in 1 .. n |-> u[i]]
      BY <2>1, <2>2
    <3>. QED  BY <3>1, <3>2
  <2>. QED  BY <2>1, <2>2, <2>3 DEF IsPrefixOf, a, n
<1>. QED  BY <1>1, <1>2

\* VersionsIdentifyBytes of all copies, those in files included.
Truthful ==
  \A v, w \in Version, b, c \in Seq(Grant) :
    Copy(v, b) /\ Copy(w, c) /\ v[1] = w[1] /\ v[1] \notin tainted /\ v[2] <= w[2]
    => IsPrefixOf(b, c)

\* Nothing was applied to a copy that counts nothing.
Blank == \A v \in Version, b \in Seq(Grant) : Copy(v, b) /\ v[2] = 0 => b = <<>>

\* A copy that counts something was made by the primary of its epoch.  Unless
\* that went down, it has a copy that counts as much and serves it, or it has
\* gone on to a later epoch, and no copy of this epoch will be made again.
Origin ==
  \A v \in Version, b \in Seq(Grant) :
    Copy(v, b) /\ v[2] > 0 /\ v[1] \notin tainted =>
      LET p == Primary(v[1])
      IN  /\ v[1] \in 0 .. Latest
          /\ IF view[p] = v[1]
             THEN active[p] /\ version[p][1] = v[1] /\ v[2] <= version[p][2]
             ELSE v[1] < Latest

\* An epoch that was published stays, and so does what went down.
LEMMA HistoryStays ==
  ASSUME Types, [Next]_vars
  PROVE  /\ tainted \subseteq tainted'
         /\ Latest' \in Nat \cup {-1} /\ Latest <= Latest'
         /\ \A e \in 0 .. Latest : Members(e)' = Members(e)
<1>. USE DEF Types
<1>1. tainted \subseteq tainted'
  BY ZenonT(40) DEF Next, OwnerStep, AdoptEpoch, PublishEpoch, SoleOwner, Pull, PullNothing, Checkpoint,
         Crash, Leave,
         Depart, GoDown, Restart, PushFirst, PushAgain, GiveUp, HandlePush, vars, history
<1>2. PublishEpoch \/ published' = published
  BY DEF Next, OwnerStep, AdoptEpoch, SoleOwner, Pull, PullNothing, Checkpoint, Crash, Leave,
         Depart, GoDown, Restart, PushFirst, PushAgain, GiveUp, HandlePush, vars
<1>3. CASE PublishEpoch
  BY <1>1, <1>3, EpochsStay, EpochsType
<1>4. CASE published' = published
  BY <1>1, <1>4, EpochsType DEF Latest, Members
<1>. QED  BY <1>2, <1>3, <1>4

\* What a step that applies no push may do to an owner.  One that serves the
\* key as the primary of its epoch keeps its copy: it does not pull, and nobody
\* drains to it.
LEMMA OwnerStays ==
  ASSUME Types, [Next]_vars, \A m \in wire : HandlePush(m) => ~Applies(m),
         NEW p \in Owner
  PROVE  \/ /\ view'[p] = view[p]
            /\ active[p] => active'[p]
            /\ active[p] /\ IsPrimary(p) => version'[p] = version[p]
         \/ view'[p] = Latest /\ Latest > view[p]
         \/ view'[p] = -1 /\ (IsPrimary(p) => view[p] \in tainted')
<1>. USE DEF Types
<1>. DEFINE Stays == /\ view'[p] = view[p]
                     /\ active[p] => active'[p]
                     /\ active[p] /\ IsPrimary(p) => version'[p] = version[p]
            Adopts == view'[p] = Latest /\ Latest > view[p]
            Falls == view'[p] = -1 /\ (IsPrimary(p) => view[p] \in tainted')
            Goal == Stays \/ Adopts \/ Falls
<1>1. ASSUME NEW o \in Owner, AdoptEpoch(o) PROVE Goal
  <2>1. CASE o = p
    BY <1>1, <2>1 DEF AdoptEpoch, EpochNewer, TypeEpochs
  <2>2. CASE o # p
    BY <1>1, <2>2 DEF AdoptEpoch, TypeEpochs, TypeCopies
  <2>. QED  BY <2>1, <2>2
<1>2. ASSUME NEW o \in Owner, Pull(o) PROVE Goal
  <2>1. CASE o = p
    <3>1. ~(IsPrimary(p) /\ active[p])
      BY <1>2, <2>1 DEF Pull, Pulls
    <3>. QED  BY <1>2, <2>1, <3>1 DEF Pull, AfterSource, TypeCopies
  <2>2. CASE o # p
    BY <1>2, <2>2 DEF Pull, Adopt, AfterSource, TypeCopies
  <2>. QED  BY <2>1, <2>2
<1>3. ASSUME NEW o \in Owner, Crash(o) \/ Depart(o) PROVE Goal
  <2>1. GoDown(o)
    BY <1>3 DEF Crash, Depart
  <2>2. CASE o = p
    BY <2>1, <2>2 DEF GoDown, TypeEpochs
  <2>3. CASE o # p
    <3>1. view'[p] = view[p] /\ active'[p] = active[p]
      BY <2>1, <2>3 DEF GoDown, TypeEpochs, TypeCopies
    <3>2. ASSUME IsPrimary(p)
          PROVE  ~Drains(o, p)
      <4>1. SUFFICES ASSUME Drains(o, p) PROVE FALSE
        OBVIOUS
      <4>2. view[o] \in 0 .. Latest /\ view[p] \in 0 .. Latest
        BY <3>2, <4>1, EpochsType DEF Drains, IsPrimary, TypeEpochs
      <4>3. p \in Members(view[o]) /\ o \in Members(view[p])
        BY <4>1 DEF Drains, OwnersOf
      <4>4. o <= p /\ p <= o
        BY <3>2, <4>1, <4>2, <4>3, EpochsType DEF Drains, IsPrimary
      <4>5. o \in Nat /\ p \in Nat
        BY OwnersFinite
      <4>. QED  BY <2>3, <4>4, <4>5
    <3>3. CASE Crash(o)
      BY <2>3, <3>1, <3>3 DEF Crash, TypeCopies
    <3>4. CASE Depart(o)
      <4>1. ASSUME IsPrimary(p) PROVE version'[p] = version[p]
        BY <2>3, <3>2, <3>4, <4>1 DEF Depart, TypeCopies
      <4>. QED  BY <3>1, <4>1
    <3>. QED  BY <1>3, <3>3, <3>4
  <2>. QED  BY <2>2, <2>3
<1>4. ASSUME NEW m \in wire, HandlePush(m) PROVE Goal
  <2>1. ~Applies(m)
    BY <1>4
  <2>. QED  BY <1>4, <2>1 DEF HandlePush, Applies, TypeCopies
<1>5. ASSUME NEW o \in Owner, SoleOwner(o) \/ PullNothing(o) PROVE Goal
  BY <1>5 DEF SoleOwner, PullNothing, AfterSource, TypeCopies
<1>6. ASSUME view' = view, active' = active, version' = version PROVE Goal
  BY <1>6
<1>. HIDE DEF Goal
<1>7. Goal
  BY <1>1, <1>2, <1>3, <1>4, <1>5, <1>6
  DEF Next, OwnerStep, PublishEpoch, Checkpoint, Leave, Restart, PushFirst, PushAgain, GiveUp, vars,
      owners, replica
<1>. QED  BY <1>7 DEF Goal

LEMMA OriginStays ==
  ASSUME Types, Origin, [Next]_vars, \A m \in wire : HandlePush(m) => ~Applies(m)
  PROVE  Origin'
<1>. USE DEF Types
<1>. SUFFICES ASSUME NEW v \in Version, NEW b \in Seq(Grant),
                     Copy(v, b)', v[2] > 0, v[1] \notin tainted'
              PROVE  LET p == Primary(v[1])'
                     IN  /\ v[1] \in 0 .. Latest'
                         /\ IF view'[p] = v[1]
                            THEN active'[p] /\ version'[p][1] = v[1] /\ v[2] <= version'[p][2]
                            ELSE v[1] < Latest'
  BY DEF Origin
<1>. DEFINE e == v[1]
            p == Primary(e)
<1>1. Copy(v, b) /\ e \notin tainted
  BY NoOtherCopies, HistoryStays
<1>2. /\ e \in 0 .. Latest
      /\ IF view[p] = e
         THEN active[p] /\ version[p][1] = e /\ v[2] <= version[p][2]
         ELSE e < Latest
  BY <1>1 DEF Origin
<1>3. p \in Owner /\ Primary(e)' = p
  BY <1>2, EpochsType, HistoryStays DEF Primary
<1>4. /\ Latest \in Nat /\ Latest' \in Nat /\ Latest <= Latest' /\ e \in Int
      /\ view[p] \in Nat \cup {-1}
  BY <1>2, <1>3, EpochsType, HistoryStays DEF TypeEpochs, Version
<1>. HIDE DEF p
<1>5. CASE /\ view'[p] = view[p]
           /\ active[p] => active'[p]
           /\ active[p] /\ IsPrimary(p) => version'[p] = version[p]
  <2>1. view[p] = e => IsPrimary(p)
    BY <1>2, <1>4 DEF IsPrimary, p
  <2>. QED  BY <1>2, <1>3, <1>4, <1>5, <2>1
<1>6. CASE view'[p] = Latest /\ Latest > view[p]
  BY <1>2, <1>3, <1>4, <1>6
<1>7. CASE view'[p] = -1 /\ (IsPrimary(p) => view[p] \in tainted')
  <2>1. view[p] # e
    BY <1>2, <1>7 DEF IsPrimary, p
  <2>. QED  BY <1>2, <1>3, <1>4, <1>7, <2>1
<1>. QED  BY <1>3, <1>5, <1>6, <1>7, OwnerStays

\* The primary's next copy is newer than every copy of its epoch, and has all
\* they have.
LEMMA AppliedIsTruthful ==
  ASSUME Types, Truthful, Blank, Origin, NEW m \in wire, HandlePush(m), Applies(m)
  PROVE  Truthful' /\ Blank' /\ Origin'
<1>. USE DEF Types
<1>. DEFINE o == m.to
            t == m.grant
            E == view[o]
            n == NextVersion(o)
            c == Append(bytes[o], t)
<1>1. /\ o \in Owner /\ t \in Grant
      /\ version' = [version EXCEPT ![o] = n]
      /\ \A v \in Version, b \in Seq(Grant) : Copy(v, b)' => Copy(v, b) \/ (v = n /\ b = c)
  BY AppliedCopy
<1>2. active[o] /\ IsPrimary(o) /\ UNCHANGED <<published, view, active, tainted>>
  BY DEF HandlePush, Applies, MayWrite
<1>3. E \in 0 .. Latest /\ o = Primary(E)
  BY <1>1, <1>2, EpochsType DEF IsPrimary, TypeEpochs
<1>4. version[o] \in Version /\ bytes[o] \in Seq(Grant) /\ Copy(version[o], bytes[o])
  BY <1>1 DEF TypeCopies, Copy
<1>5. /\ n \in Version /\ n[1] = E /\ n[2] > 0
      /\ version[o][1] = E => n[2] = version[o][2] + 1
  BY <1>1, <1>3, <1>4 DEF NextVersion, Version
<1>6. c \in Seq(Grant)
  BY <1>1, <1>4
<1>. HIDE DEF n, c
<1>7. ASSUME NEW v \in Version, NEW b \in Seq(Grant), Copy(v, b), v[1] = E, E \notin tainted
      PROVE  v[2] < n[2] /\ IsPrefixOf(b, c)
  <2>1. CASE v[2] = 0
    BY <1>5, <1>6, <1>7, <2>1, PrefixFacts, <1>1 DEF Blank
  <2>2. CASE v[2] > 0
    <3>1. version[o][1] = E /\ v[2] <= version[o][2]
      BY <1>3, <1>7, <2>2 DEF Origin
    <3>2. IsPrefixOf(b, bytes[o])
      BY <1>4, <1>7, <3>1 DEF Truthful
    <3>3. v[2] \in Nat /\ version[o][2] \in Nat
      BY <1>4 DEF Version
    <3>. QED  BY <1>1, <1>4, <1>5, <3>1, <3>2, <3>3, PrefixFacts DEF c
  <2>3. v[2] \in Nat
    BY DEF Version
  <2>. QED  BY <2>1, <2>2, <2>3
<1>8. Truthful'
  <2>1. SUFFICES ASSUME NEW v \in Version, NEW w \in Version, NEW b \in Seq(Grant), NEW d \in Seq(Grant),
                        Copy(v, b)', Copy(w, d)', v[1] = w[1], v[1] \notin tainted, v[2] <= w[2]
                 PROVE  IsPrefixOf(b, d)
    BY <1>2 DEF Truthful
  <2>2. CASE Copy(v, b) /\ Copy(w, d)
    BY <2>1, <2>2 DEF Truthful
  <2>3. CASE v = n /\ b = c /\ w = n /\ d = c
    BY <1>1, <1>6, <2>3, PrefixFacts
  <2>4. CASE Copy(v, b) /\ w = n /\ d = c
    BY <1>5, <1>7, <2>1, <2>4
  <2>5. CASE v = n /\ b = c /\ Copy(w, d)
    <3>1. w[2] < n[2] /\ w[2] \in Nat /\ n[2] \in Nat
      BY <1>5, <1>7, <2>1, <2>5 DEF Version
    <3>. QED  BY <2>1, <2>5, <3>1
  <2>. QED  BY <1>1, <2>1, <2>2, <2>3, <2>4, <2>5
<1>9. Blank'
  BY <1>1, <1>5 DEF Blank
<1>10. Origin'
  <2>1. SUFFICES ASSUME NEW v \in Version, NEW b \in Seq(Grant), Copy(v, b)', v[2] > 0, v[1] \notin tainted
                 PROVE  LET p == Primary(v[1])
                        IN  /\ v[1] \in 0 .. Latest
                            /\ IF view[p] = v[1]
                               THEN active[p] /\ version'[p][1] = v[1] /\ v[2] <= version'[p][2]
                               ELSE v[1] < Latest
    BY <1>2 DEF Origin, Latest, Primary, Members
  <2>2. CASE v = n /\ b = c
    <3>1. version'[o] = n
      BY <1>1 DEF TypeCopies
    <3>. QED  BY <1>2, <1>3, <1>5, <2>2, <3>1 DEF Version
  <2>3. CASE Copy(v, b)
    <3>. DEFINE p == Primary(v[1])
    <3>1. /\ v[1] \in 0 .. Latest
          /\ IF view[p] = v[1]
             THEN active[p] /\ version[p][1] = v[1] /\ v[2] <= version[p][2]
             ELSE v[1] < Latest
      BY <2>1, <2>3 DEF Origin
    <3>2. p \in Owner
      BY <3>1, EpochsType
    <3>. HIDE DEF p
    <3>3. CASE p = o
      <4>1. version'[p] = n
        BY <1>1, <3>3 DEF TypeCopies
      <4>2. v[2] \in Nat /\ version[o][2] \in Nat
        BY <1>4 DEF Version
      <4>. QED  BY <1>5, <3>1, <3>3, <4>1, <4>2 DEF p
    <3>4. CASE p # o
      <4>1. version'[p] = version[p]
        BY <1>1, <3>2, <3>4 DEF TypeCopies
      <4>. QED  BY <3>1, <4>1 DEF p
    <3>. QED  BY <3>3, <3>4
  <2>. QED  BY <1>1, <2>1, <2>2, <2>3
<1>. QED  BY <1>8, <1>9, <1>10

LEMMA TruthfulStep ==
  Types /\ Truthful /\ Blank /\ Origin /\ [Next]_vars => (Truthful /\ Blank /\ Origin)'
<1>. SUFFICES ASSUME Types, Truthful, Blank, Origin, [Next]_vars
              PROVE  Truthful' /\ Blank' /\ Origin'
  OBVIOUS
<1>1. CASE \A m \in wire : HandlePush(m) => ~Applies(m)
  <2>1. \A v \in Version, b \in Seq(Grant) : Copy(v, b)' => Copy(v, b)
    BY <1>1, NoOtherCopies
  <2>2. tainted \subseteq tainted'
    BY HistoryStays
  <2>3. Truthful' /\ Blank'
    BY <2>1, <2>2 DEF Truthful, Blank
  <2>. QED  BY <1>1, <2>3, OriginStays
<1>. QED  BY <1>1, AppliedIsTruthful

LEMMA InitTruthful == Init => Truthful /\ Blank /\ Origin
<1>. SUFFICES ASSUME Init PROVE Truthful /\ Blank /\ Origin
  OBVIOUS
<1>1. \A c \in Seq(Grant) : IsPrefixOf(<<>>, c)
  BY DEF IsPrefixOf
<1>. QED  BY <1>1, InitCopies DEF Truthful, Blank, Origin

\* Two copies whose versions are of one epoch agree: the older is a prefix of
\* the newer, equal versions are equal bytes, however many primaries act at
\* once, unless the primary of that epoch went down in it.
THEOREM VersionsAreTruthful == Spec => []VersionsIdentifyBytes
<1>1. Types /\ Truthful => VersionsIdentifyBytes
  <2>1. Types => \A o \in Owner : /\ version[o] \in Version /\ bytes[o] \in Seq(Grant)
                                  /\ Copy(version[o], bytes[o])
    BY DEF Types, TypeCopies, Copy
  <2>. QED  BY <2>1 DEF Truthful, VersionsIdentifyBytes
<1>. QED  BY InitTypes, InitTruthful, NextTypes, TruthfulStep, <1>1, PTL DEF Spec

=============================================================================
