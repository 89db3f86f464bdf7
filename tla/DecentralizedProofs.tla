------------------------ MODULE DecentralizedProofs ------------------------
(***************************************************************************)
(* What holds of Decentralized for every number of owners, workers, paths  *)
(* and generations.                                                        *)
(***************************************************************************)
EXTENDS Decentralized, FiniteSetTheorems, SequenceTheorems, TLAPS

-----------------------------------------------------------------------------
\* The invariant.

\* A version with bytes: updates that grants produced, or a lie and what was
\* pushed on top of it.
Granted == Path \X Nat \X Owner
Update == Granted \cup {<<None, 0, None>>}
Value == [ver : Nat \X Nat, bytes : Seq(Update)]

OwnerTypes ==
  /\ state \in [Owner -> {"off", "up", "faulty", "down"}]
  /\ dir \in [Owner -> SUBSET Owner]
  /\ active \in SUBSET Owner
  /\ gen \in [Owner -> [Path -> Nat]]
  /\ turn \in [Owner -> [Path -> 0 .. Cardinality(Worker) - 1]]
  /\ debits \in [Owner -> [Owner -> 0 .. Strikes]]

\* An owner that has members has an epoch.
EpochTypes ==
  /\ epoch \in [Owner -> [num : Nat \cup {None}, members : SUBSET Owner, before : SUBSET Owner]]
  /\ \A o \in Owner : Members(o) # {} => epoch[o].num \in Nat

\* Copies, what was confirmed and what was read are versions with bytes.
CopyTypes ==
  /\ copy \in [Owner -> Value]
  /\ confirmed \in SUBSET Value
  /\ read \in [Owner -> Value \cup {Silent}]

\* A worker that is at work has a path, and one that pushes has a grant of it.
WorkerTypes ==
  /\ DOMAIN worker = Worker
  /\ \A w \in Worker :
       /\ DOMAIN worker[w] = DOMAIN Idle
       /\ worker[w].at \in {"idle", "read", "train", "push", "again", "dead"}
       /\ worker[w].at \in {"read", "train"} => worker[w].path \in Path
       /\ worker[w].at \in {"push", "again"} => worker[w].grant \in Granted
       /\ worker[w].view \subseteq Owner
  /\ expired \in SUBSET (Owner \cup Worker)

\* Each faulty owner was one failure.
Faulty == {o \in Owner : state[o] = "faulty"}

Failures == failures \in 0 .. MaxFailures /\ Cardinality(Faulty) <= failures

Types == OwnerTypes /\ EpochTypes /\ CopyTypes /\ WorkerTypes /\ Failures

-----------------------------------------------------------------------------
\* Quorums.

\* The reports gathered are the truth, but for one lie that faulty owners tell.
LEMMA GatheredReports ==
  ASSUME NEW asked \in SUBSET Owner, NEW t \in Gather(asked, Report)
  PROVE  /\ DOMAIN t = asked
         /\ \E l : \A o \in asked : t[o] = Report(o) \/ (o \in Faulty /\ l \in Lies /\ t[o] = l)
<1>. DEFINE told == [o \in asked |-> Report(o)]
            liars == {o \in asked : state[o] = "faulty"}
<1>1. \/ t = told
      \/ \E l \in Lies : t = [o \in asked |-> IF o \in liars THEN l ELSE told[o]]
  BY DEF Gather
<1>2. CASE t = told
  BY <1>2
<1>3. ASSUME NEW l \in Lies, t = [o \in asked |-> IF o \in liars THEN l ELSE told[o]]
      PROVE  \A o \in asked : t[o] = Report(o) \/ (o \in Faulty /\ l \in Lies /\ t[o] = l)
  BY <1>3 DEF Faulty
<1>. QED  BY <1>1, <1>2, <1>3

LEMMA GatheredOffers ==
  ASSUME NEW asked \in SUBSET Owner, NEW t \in Gather(asked, Offer)
  PROVE  /\ DOMAIN t = asked
         /\ \E l : \A o \in asked : t[o] = Offer(o) \/ (o \in Faulty /\ l \in Lies /\ t[o] = l)
<1>. DEFINE told == [o \in asked |-> Offer(o)]
            liars == {o \in asked : state[o] = "faulty"}
<1>1. \/ t = told
      \/ \E l \in Lies : t = [o \in asked |-> IF o \in liars THEN l ELSE told[o]]
  BY DEF Gather
<1>2. CASE t = told
  BY <1>2
<1>3. ASSUME NEW l \in Lies, t = [o \in asked |-> IF o \in liars THEN l ELSE told[o]]
      PROVE  \A o \in asked : t[o] = Offer(o) \/ (o \in Faulty /\ l \in Lies /\ t[o] = l)
  BY <1>3 DEF Faulty
<1>. QED  BY <1>1, <1>2, <1>3

\* A lie is a version with bytes, too.
LEMMA LiesAreValues == CopyTypes => Lies \subseteq Value
<1>. SUFFICES ASSUME CopyTypes, NEW l \in Lies PROVE l \in Value
  OBVIOUS
<1>1. PICK e \in {copy[o].ver[1] : o \in Owner}, c \in {copy[o].ver[2] : o \in Owner} \cup {1} :
        l = [ver |-> <<e, c>>, bytes |-> Poison]
  BY DEF Lies
<1>2. e \in Nat /\ c \in Nat
  BY DEF CopyTypes, Value
<1>3. Poison \in Seq(Update)
  BY DEF Poison, Update
<1>. QED  BY <1>1, <1>2, <1>3 DEF Value

\* What a quorum agrees on is a version with bytes, and was told by a quorum.
LEMMA AgreedIsValue ==
  ASSUME CopyTypes, NEW asked \in SUBSET Owner, NEW t \in Gather(asked, Report), NEW r \in Confirm(t)
  PROVE  r \in Value /\ Cardinality({o \in asked : t[o] = r}) >= Quorum /\ r # Silent
<1>1. /\ r \in Range(t) /\ r # Silent
      /\ Cardinality({o \in DOMAIN t : t[o] = r}) >= Quorum
  BY DEF Confirm, Agreed
<1>2. DOMAIN t = asked
  BY GatheredReports
<1>3. PICK q \in asked : r = t[q]
  BY <1>1, <1>2 DEF Range
<1>4. PICK l : \A o \in asked : t[o] = Report(o) \/ (o \in Faulty /\ l \in Lies /\ t[o] = l)
  BY GatheredReports
<1>5. Report(q) = Silent \/ Report(q) \in Value
  BY DEF Report, CopyTypes
<1>. QED  BY <1>1, <1>2, <1>3, <1>4, <1>5, LiesAreValues

-----------------------------------------------------------------------------
\* The owners.

\* A new epoch has a number and members that are owners.
LEMMA DeriveKeeps ==
  ASSUME OwnerTypes, EpochTypes, CopyTypes, NEW o \in Owner, NEW members \in SUBSET Owner,
         Derive(o, members)
  PROVE  EpochTypes' /\ active' \in SUBSET Owner /\ copy' \in [Owner -> Value]
<1>1. CASE epoch[o].num # None /\ members = Members(o)
  <2>1. UNCHANGED <<epoch, active, copy>>
    BY <1>1 DEF Derive
  <2>. QED  BY <2>1 DEF OwnerTypes, EpochTypes, CopyTypes, Members
<1>2. CASE ~(epoch[o].num # None /\ members = Members(o))
  <2>. DEFINE n == IF epoch[o].num = None THEN 0 ELSE epoch[o].num + 1
  <2>1. n \in Nat
    BY DEF EpochTypes
  <2>2. epoch' = [epoch EXCEPT ![o] = Epoch(n, members, Members(o))]
    BY <1>2 DEF Derive
  <2>3. active' \in {active, active \ {o}} /\ copy' \in {copy, [copy EXCEPT ![o] = Seeded]}
    BY <1>2 DEF Derive
  <2>. HIDE DEF n
  <2>4. EpochTypes'
    <3>1. Members(o) \in SUBSET Owner
      BY DEF EpochTypes, Members
    <3>2. Epoch(n, members, Members(o)) \in
             [num : Nat \cup {None}, members : SUBSET Owner, before : SUBSET Owner]
      BY <2>1, <3>1 DEF Epoch
    <3>3. epoch' \in [Owner -> [num : Nat \cup {None}, members : SUBSET Owner, before : SUBSET Owner]]
      BY <2>2, <3>2 DEF EpochTypes
    <3>4. ASSUME NEW q \in Owner, epoch'[q].members # {}  PROVE epoch'[q].num \in Nat
      <4>1. CASE q = o
        BY <2>1, <2>2, <4>1 DEF Epoch, EpochTypes
      <4>2. CASE q # o
        BY <2>2, <3>4, <4>2 DEF EpochTypes, Members
      <4>. QED  BY <4>1, <4>2
    <3>. QED  BY <3>3, <3>4 DEF EpochTypes, Members
  <2>5. Seeded \in Value
    BY DEF Seeded, Value
  <2>. QED  BY <2>3, <2>4, <2>5 DEF OwnerTypes, CopyTypes
<1>. QED  BY <1>1, <1>2

LEMMA GossipKeeps ==
  ASSUME Types, NEW o \in Owner, Gossip(o)
  PROVE  Types'
<1>. USE DEF Types
<1>1. PICK told \in {UNION S : S \in SUBSET ({dir[q] : q \in {q \in Members(o) \ {o} : Serving(q)}}
                                               \union {Tracker})} :
        /\ dir' = [dir EXCEPT ![o] = (dir[o] \union {o} \union told) \ expired]
        /\ Derive(o, {q \in (dir[o] \union {o} \union told) \ expired : debits[o][q] < Strikes})
  BY DEF Gossip
<1>2. told \subseteq Owner
  <2>1. \A q \in Members(o) \ {o} : dir[q] \subseteq Owner
    BY DEF OwnerTypes, EpochTypes, Members
  <2>2. Tracker \subseteq Owner
    BY DEF Tracker
  <2>3. \A S \in SUBSET ({dir[q] : q \in {q \in Members(o) \ {o} : Serving(q)}} \union {Tracker}) :
          UNION S \subseteq Owner
    BY <2>1, <2>2
  <2>. QED  BY <2>3
<1>. DEFINE known == (dir[o] \union {o} \union told) \ expired
            members == {q \in known : debits[o][q] < Strikes}
<1>3. known \in SUBSET Owner
  BY <1>2 DEF OwnerTypes
<1>4. dir' = [dir EXCEPT ![o] = known] /\ Derive(o, members)
  BY <1>1
<1>. HIDE DEF known
<1>5. EpochTypes' /\ active' \in SUBSET Owner /\ copy' \in [Owner -> Value]
  <2>1. members \in SUBSET Owner
    BY <1>3
  <2>. HIDE DEF members
  <2>. QED  BY <1>4, <2>1, DeriveKeeps
<1>6. /\ state' = [state EXCEPT ![o] = IF @ = "off" THEN "up" ELSE @]
      /\ UNCHANGED <<seen, gen, turn, debits, read, worker, expired, confirmed, failures>>
  BY DEF Gossip
<1>7. state' \in [Owner -> {"off", "up", "faulty", "down"}]
  BY <1>6 DEF OwnerTypes
<1>8. OwnerTypes'
  BY <1>3, <1>4, <1>5, <1>6, <1>7 DEF OwnerTypes
<1>9. Faulty' = Faulty
  BY <1>6 DEF OwnerTypes, Faulty
<1>. QED  BY <1>5, <1>6, <1>8, <1>9 DEF CopyTypes, WorkerTypes, Failures, Faulty

LEMMA ReadVersionsKeeps ==
  ASSUME Types, NEW o \in Owner, ReadVersions(o)
  PROVE  Types'
<1>. USE DEF Types
<1>1. PICK t \in Gather(Members(o), Report) : \E r \in Confirm(t) :
        /\ read' = [read EXCEPT ![o] = r]
        /\ confirmed' = confirmed \union {r}
  BY DEF ReadVersions
<1>2. PICK r \in Confirm(t) : /\ read' = [read EXCEPT ![o] = r]
                              /\ confirmed' = confirmed \union {r}
  BY <1>1
<1>3. r \in Value
  <2>1. Members(o) \in SUBSET Owner
    BY DEF EpochTypes, Members
  <2>. QED  BY <2>1, AgreedIsValue
<1>4. CopyTypes'
  BY <1>2, <1>3 DEF CopyTypes, ReadVersions
<1>. QED  BY <1>4 DEF ReadVersions, OwnerTypes, EpochTypes, WorkerTypes, Failures, Faulty, Members

LEMMA PullKeeps ==
  ASSUME Types, NEW o \in Owner, Pull(o)
  PROVE  Types'
<1>. USE DEF Types
<1>1. PICK t : LET new == IF Adopts(o, Range(t)) THEN read[o] ELSE copy[o] IN
                /\ copy' = [copy EXCEPT ![o] = new]
                /\ active' \in {active, active \union {o}}
  BY DEF Pull
<1>. DEFINE new == IF Adopts(o, Range(t)) THEN read[o] ELSE copy[o]
<1>2. new \in Value
  <2>1. CASE Adopts(o, Range(t))
    <3>1. copy[o].ver \in Nat \X Nat /\ read[o] \in Value \cup {Silent}
      BY DEF CopyTypes, Value
    <3>2. read[o] # Silent
      <4>1. SUFFICES ASSUME read[o] = Silent  PROVE FALSE
        OBVIOUS
      <4>2. Newer(<<0, 0>>, copy[o].ver)
        BY <2>1, <4>1 DEF Adopts, Silent
      <4>. QED  BY <3>1, <4>2 DEF Newer
    <3>. QED  BY <2>1, <3>1, <3>2
  <2>2. CASE ~Adopts(o, Range(t))
    BY <2>2 DEF CopyTypes
  <2>. QED  BY <2>1, <2>2
<1>3. copy' = [copy EXCEPT ![o] = new] /\ active' \in {active, active \union {o}}
  BY <1>1
<1>. HIDE DEF new
<1>4. read' = [read EXCEPT ![o] = Silent]
  BY DEF Pull
<1>5. CopyTypes'
  BY <1>2, <1>3, <1>4 DEF CopyTypes, Pull
<1>. QED  BY <1>3, <1>5 DEF Pull, OwnerTypes, EpochTypes, WorkerTypes, Failures, Faulty, Members

LEMMA AuditKeeps ==
  ASSUME Types, NEW o \in Owner, Audit(o)
  PROVE  Types'
<1>. USE DEF Types
<1>1. PICK D : debits' = [debits EXCEPT ![o] = [q \in Owner |->
            IF q \in D /\ debits[o][q] < Strikes THEN debits[o][q] + 1 ELSE debits[o][q]]]
  BY DEF Audit
<1>2. Strikes \in Nat
  BY ConstantAssumption
<1>3. debits' \in [Owner -> [Owner -> 0 .. Strikes]]
  BY <1>1, <1>2 DEF OwnerTypes
<1>. QED  BY <1>3 DEF Audit, OwnerTypes, EpochTypes, CopyTypes, WorkerTypes, Failures, Faulty, Members

LEMMA TakeoverKeeps ==
  ASSUME Types, NEW o \in Owner, NEW p \in Path, Takeover(o, p)
  PROVE  Types'
<1>. USE DEF Types
<1>1. /\ turn' = [turn EXCEPT ![o][p] = turn[o][p] + 1]
      /\ turn[o][p] < Cardinality(Worker) - 1
  BY DEF Takeover
<1>2. Cardinality(Worker) \in Nat
  BY ConstantAssumption, FS_CardinalityType
<1>3. turn[o][p] + 1 \in 0 .. Cardinality(Worker) - 1
  BY <1>1, <1>2 DEF OwnerTypes
<1>4. turn' \in [Owner -> [Path -> 0 .. Cardinality(Worker) - 1]]
  BY <1>1, <1>3 DEF OwnerTypes
<1>. QED  BY <1>4 DEF Takeover, OwnerTypes, EpochTypes, CopyTypes, WorkerTypes, Failures, Faulty, Members

LEMMA FaultKeeps ==
  ASSUME Types, NEW o \in Owner, Fault(o)
  PROVE  Types'
<1>. USE DEF Types
<1>. DEFINE F == Faulty
            G == Faulty'
<1>1. state' \in [Owner -> {"off", "up", "faulty", "down"}]
  BY DEF Fault, OwnerTypes
<1>2. F \subseteq Owner /\ G \subseteq F \cup {o}
  BY DEF Fault, OwnerTypes, Faulty
<1>3. IsFiniteSet(F) /\ Cardinality(F) <= failures
  <2>1. F \subseteq Owner
    BY DEF Faulty
  <2>2. Cardinality(F) <= failures
    BY DEF Failures
  <2>. HIDE DEF F
  <2>. QED  BY <2>1, <2>2, ConstantAssumption, FS_Subset
<1>4. failures \in Nat /\ failures < MaxFailures /\ failures' = failures + 1 /\ MaxFailures \in Nat
  BY ConstantAssumption DEF Fault, Failures, Faulty
<1>5. Cardinality(G) <= failures + 1
  <2>. HIDE DEF F, G
  <2>1. IsFiniteSet(F \cup {o}) /\ Cardinality(F \cup {o}) <= Cardinality(F) + 1
    <3>1. Cardinality(F) \in Nat
      BY <1>3, FS_CardinalityType
    <3>2. /\ IsFiniteSet(F \cup {o})
          /\ Cardinality(F \cup {o}) = IF o \in F THEN Cardinality(F) ELSE Cardinality(F) + 1
      BY <1>3, FS_AddElement
    <3>. QED  BY <3>1, <3>2
  <2>2. IsFiniteSet(G) /\ Cardinality(G) <= Cardinality(F \cup {o})
    BY <1>2, <2>1, FS_Subset
  <2>3. Cardinality(G) \in Nat /\ Cardinality(F \cup {o}) \in Nat /\ Cardinality(F) \in Nat
    BY <1>3, <2>1, <2>2, FS_CardinalityType
  <2>. QED  BY <1>3, <1>4, <2>1, <2>2, <2>3
<1>6. Failures'
  BY <1>4, <1>5 DEF Failures, Faulty
<1>. QED  BY <1>1, <1>6 DEF Fault, OwnerTypes, EpochTypes, CopyTypes, WorkerTypes, Members

LEMMA ExpireKeeps ==
  ASSUME Types, NEW q \in Owner \cup Worker, Expire(q)
  PROVE  Types'
BY DEF Types, Expire, ownerVars, OwnerTypes, EpochTypes, CopyTypes, WorkerTypes, Failures, Faulty, Members

-----------------------------------------------------------------------------
\* The workers.

\* A task that some fields of are set is still a task.
LEMMA IdleIsTask == 
  /\ DOMAIN Idle = {"at", "path", "gen", "to", "view", "base", "grant", "todo", "applied"}
  /\ Idle.at = "idle" /\ Idle.view = {}
BY DEF Idle

\* The trackers and the directories last seen are of owners.
LEMMA ViewsAreOwners ==
  ASSUME WorkerTypes, NEW w \in Worker
  PROVE  Views(w) \subseteq SUBSET Owner
BY DEF WorkerTypes, Views, Tracker

\* One worker's record changes to one that is well typed.
LEMMA TaskKeeps ==
  ASSUME WorkerTypes, NEW w \in Worker, NEW task, worker' = [worker EXCEPT ![w] = task],
         expired' = expired, DOMAIN task = DOMAIN Idle,
         task.at \in {"idle", "read", "train", "push", "again", "dead"},
         task.at \in {"read", "train"} => task.path \in Path,
         task.at \in {"push", "again"} => task.grant \in Granted,
         task.view \subseteq Owner
  PROVE  WorkerTypes'
<1>1. DOMAIN worker' = Worker
  BY DEF WorkerTypes
<1>2. ASSUME NEW v \in Worker
      PROVE  /\ DOMAIN worker'[v] = DOMAIN Idle
             /\ worker'[v].at \in {"idle", "read", "train", "push", "again", "dead"}
             /\ worker'[v].at \in {"read", "train"} => worker'[v].path \in Path
             /\ worker'[v].at \in {"push", "again"} => worker'[v].grant \in Granted
             /\ worker'[v].view \subseteq Owner
  <2>1. CASE v = w
    <3>1. worker'[v] = task
      BY <2>1 DEF WorkerTypes
    <3>. QED  BY <3>1
  <2>2. CASE v # w
    <3>1. worker'[v] = worker[v]
      BY <2>2 DEF WorkerTypes
    <3>. QED  BY <3>1 DEF WorkerTypes
  <2>. QED  BY <2>1, <2>2
<1>. QED  BY <1>1, <1>2 DEF WorkerTypes

LEMMA RestsKeeps ==
  ASSUME WorkerTypes, NEW w \in Worker, Rests(w), expired' = expired
  PROVE  WorkerTypes'
<1>. DEFINE task == [Idle EXCEPT !.view = worker[w].view]
<1>1. DOMAIN task = DOMAIN Idle /\ task.at = "idle" /\ task.view = worker[w].view
  BY IdleIsTask
<1>2. worker' = [worker EXCEPT ![w] = task] /\ worker[w].view \subseteq Owner
  BY DEF Rests, WorkerTypes
<1>. HIDE DEF task
<1>. QED  BY <1>1, <1>2, TaskKeeps

LEMMA PickKeeps ==
  ASSUME Types, NEW w \in Worker, Pick(w)
  PROVE  Types'
<1>. USE DEF Types
<1>1. PICK view \in Views(w), p \in Path :
        worker' = [worker EXCEPT ![w] =
            [Idle EXCEPT !.at = "read", !.path = p, !.gen = gen[Coordinator(p, view)][p],
                         !.to = Coordinator(p, view), !.view = view]]
  BY DEF Pick
<1>. DEFINE task == [Idle EXCEPT !.at = "read", !.path = p, !.gen = gen[Coordinator(p, view)][p],
                         !.to = Coordinator(p, view), !.view = view]
<1>2. DOMAIN task = DOMAIN Idle /\ task.at = "read" /\ task.path = p /\ task.view = view
  BY IdleIsTask
<1>3. view \subseteq Owner
  BY ViewsAreOwners
<1>4. worker' = [worker EXCEPT ![w] = task]
  BY <1>1
<1>. HIDE DEF task
<1>5. UNCHANGED <<ownerVars, expired, confirmed, failures>>
  BY DEF Pick
<1>6. WorkerTypes'
  <2>1. expired' = expired /\ task.at = "read" /\ task.path \in Path /\ task.view \subseteq Owner
    BY <1>2, <1>3, <1>5
  <2>. QED  BY <1>2, <1>4, <2>1, TaskKeeps
<1>. QED  BY <1>5, <1>6 DEF ownerVars, OwnerTypes, EpochTypes, CopyTypes, Failures, Faulty, Members

LEMMA ReadBaseKeeps ==
  ASSUME Types, NEW w \in Worker, ReadBase(w)
  PROVE  Types'
<1>. USE DEF Types
<1>1. worker[w].view \in SUBSET Owner /\ UNCHANGED <<ownerVars, expired, failures>>
  BY DEF ReadBase, WorkerTypes
<1>2. PICK t \in Gather(worker[w].view, Report) :
       \/ \E r \in Confirm(t) :
            /\ worker' = [worker EXCEPT ![w].at = "train", ![w].base = r]
            /\ confirmed' = confirmed \union {r}
       \/ Confirm(t) = {} /\ Rests(w) /\ UNCHANGED confirmed
  BY DEF ReadBase
<1>3. CASE \E r \in Confirm(t) : /\ worker' = [worker EXCEPT ![w].at = "train", ![w].base = r]
                                 /\ confirmed' = confirmed \union {r}
  <2>1. PICK r \in Confirm(t) : /\ worker' = [worker EXCEPT ![w].at = "train", ![w].base = r]
                                /\ confirmed' = confirmed \union {r}
    BY <1>3
  <2>2. r \in Value
    BY <1>1, AgreedIsValue
  <2>. DEFINE task == [worker[w] EXCEPT !.at = "train", !.base = r]
  <2>3. /\ DOMAIN worker[w] = DOMAIN Idle /\ worker[w].path \in Path
        /\ worker[w].view \subseteq Owner /\ worker[w].at = "read"
    BY DEF WorkerTypes, ReadBase
  <2>4. worker' = [worker EXCEPT ![w] = task]
    BY <2>1
  <2>5. /\ DOMAIN task = DOMAIN Idle /\ task.at = "train" /\ task.path \in Path
        /\ task.view \subseteq Owner
    BY <2>3, IdleIsTask
  <2>. HIDE DEF task
  <2>6. WorkerTypes'
    <3>1. expired' = expired
      BY <1>1
    <3>. QED  BY <2>4, <2>5, <3>1, TaskKeeps
  <2>. QED  BY <1>1, <2>1, <2>2, <2>6 DEF ownerVars, OwnerTypes, EpochTypes, CopyTypes, Failures, Faulty,
                                          Members
<1>4. CASE Rests(w) /\ UNCHANGED confirmed
  <2>1. WorkerTypes'
    BY <1>1, <1>4, RestsKeeps
  <2>. QED  BY <1>1, <1>4, <2>1 DEF ownerVars, OwnerTypes, EpochTypes, CopyTypes, Failures, Faulty, Members
<1>. QED  BY <1>2, <1>3, <1>4

LEMMA AdvanceKeeps ==
  ASSUME OwnerTypes, NEW o \in Owner, NEW p \in Path, Advance(o, p)
  PROVE  gen' \in [Owner -> [Path -> Nat]] /\ turn' \in [Owner -> [Path -> 0 .. Cardinality(Worker) - 1]]
<1>1. /\ gen' = [gen EXCEPT ![o] = [gen[o] EXCEPT ![p] = gen[o][p] + 1]]
      /\ turn' = [turn EXCEPT ![o] = [turn[o] EXCEPT ![p] = 0]]
  BY DEF Advance
<1>2. gen[o] \in [Path -> Nat] /\ turn[o] \in [Path -> 0 .. Cardinality(Worker) - 1]
  BY DEF OwnerTypes
<1>3. gen[o][p] + 1 \in Nat
  BY <1>2
<1>4. 0 \in 0 .. Cardinality(Worker) - 1
  <2>1. Cardinality(Worker) \in Nat /\ Cardinality(Worker) # 0
    BY ConstantAssumption, FS_CardinalityType, FS_EmptySet
  <2>. QED  BY <2>1
<1>. QED  BY <1>1, <1>2, <1>3, <1>4 DEF OwnerTypes

LEMMA CommitKeeps ==
  ASSUME Types, NEW w \in Worker, Commit(w)
  PROVE  Types'
<1>. USE DEF Types
<1>. DEFINE o == worker[w].to
            p == worker[w].path
            task == [Idle EXCEPT !.at = "push", !.view = worker[w].view,
                                 !.grant = <<p, gen[o][p], o>>, !.todo = First(ModuleRank, worker[w].view)]
<1>1. p \in Path /\ UNCHANGED <<Unheld, failures>>
  BY DEF Commit, WorkerTypes
<1>2. CASE Accepts(o, w)
  <2>1. o \in Owner
    BY <1>2 DEF Accepts, Coordinates, OwnerTypes
  <2>2. Advance(o, p) /\ worker' = [worker EXCEPT ![w] = task]
    BY <1>2 DEF Commit
  <2>3. gen' \in [Owner -> [Path -> Nat]] /\ turn' \in [Owner -> [Path -> 0 .. Cardinality(Worker) - 1]]
    BY <1>1, <2>1, <2>2, AdvanceKeeps
  <2>4. DOMAIN task = DOMAIN Idle /\ task.at = "push" /\ task.grant \in Granted /\ task.view \subseteq Owner
    <3>1. <<p, gen[o][p], o>> \in Granted /\ worker[w].view \subseteq Owner
      BY <1>1, <2>1 DEF Granted, OwnerTypes, WorkerTypes
    <3>2. /\ DOMAIN task = DOMAIN Idle /\ task.at = "push" /\ task.grant = <<p, gen[o][p], o>>
          /\ task.view = worker[w].view
      BY IdleIsTask
    <3>. HIDE DEF task
    <3>. QED  BY <3>1, <3>2
  <2>. HIDE DEF task, o, p
  <2>5. WorkerTypes'
    <3>1. expired' = expired
      BY <1>1 DEF Unheld
    <3>. QED  BY <2>2, <2>4, <3>1, TaskKeeps
  <2>. QED  BY <1>1, <2>3, <2>5 DEF Unheld, OwnerTypes, EpochTypes, CopyTypes, Failures, Faulty, Members
<1>3. CASE ~Accepts(o, w)
  <2>1. Rests(w) /\ UNCHANGED <<gen, turn>>
    BY <1>3 DEF Commit
  <2>. HIDE DEF o, p
  <2>2. WorkerTypes'
    <3>1. expired' = expired
      BY <1>1 DEF Unheld
    <3>. QED  BY <2>1, <3>1, RestsKeeps
  <2>. QED  BY <1>1, <2>1, <2>2 DEF Unheld, OwnerTypes, EpochTypes, CopyTypes, Failures, Faulty, Members
<1>. QED  BY <1>2, <1>3

\* A failure more that makes no owner faulty.
LEMMA FailuresKeep ==
  ASSUME Failures, failures < MaxFailures, failures' = failures + 1, state' = state
  PROVE  Failures'
<1>. DEFINE F == Faulty
<1>1. IsFiniteSet(F) /\ Cardinality(F) <= failures
  <2>1. F \subseteq Owner /\ Cardinality(F) <= failures
    BY DEF Failures, Faulty
  <2>. HIDE DEF F
  <2>. QED  BY <2>1, ConstantAssumption, FS_Subset
<1>2. failures + 1 \in 0 .. MaxFailures /\ Cardinality(F) <= failures + 1
  <2>. HIDE DEF F
  <2>1. Cardinality(F) \in Nat
    BY <1>1, FS_CardinalityType
  <2>. QED  BY <1>1, <2>1, ConstantAssumption DEF Failures, Faulty
<1>. QED  BY <1>2 DEF Failures, Faulty

LEMMA CommitLostKeeps ==
  ASSUME Types, NEW w \in Worker, CommitLost(w)
  PROVE  Types'
<1>. USE DEF Types
<1>. DEFINE o == worker[w].to
            p == worker[w].path
<1>1. /\ p \in Path /\ Rests(w) /\ UNCHANGED Unheld
      /\ failures < MaxFailures /\ failures' = failures + 1
  BY DEF CommitLost, WorkerTypes
<1>2. gen' \in [Owner -> [Path -> Nat]] /\ turn' \in [Owner -> [Path -> 0 .. Cardinality(Worker) - 1]]
  <2>1. CASE UNCHANGED <<gen, turn>>
    BY <2>1 DEF OwnerTypes
  <2>2. CASE Accepts(o, w) /\ Advance(o, p)
    <3>1. o \in Owner
      BY <2>2 DEF Accepts, Coordinates, OwnerTypes
    <3>. HIDE DEF o, p
    <3>. QED  BY <1>1, <2>2, <3>1, AdvanceKeeps
  <2>. QED  BY <2>1, <2>2 DEF CommitLost
<1>. HIDE DEF o, p
<1>3. expired' = expired /\ state' = state
  BY <1>1 DEF Unheld
<1>4. WorkerTypes' /\ Failures'
  BY <1>1, <1>3, RestsKeeps, FailuresKeep
<1>. QED  BY <1>1, <1>2, <1>4 DEF Unheld, OwnerTypes, EpochTypes, CopyTypes, Members

\* A granted update that is applied makes a copy of granted bytes.
LEMMA ReceiveKeeps ==
  ASSUME OwnerTypes, EpochTypes, CopyTypes, NEW o, NEW g \in Granted, Receive(o, g)
  PROVE  copy' \in [Owner -> Value]
<1>1. CASE ~Writes(o, g)
  BY <1>1 DEF Receive, CopyTypes
<1>2. CASE Writes(o, g)
  <2>. DEFINE new == [ver |-> Bumped(copy[o].ver, epoch[o].num), bytes |-> Append(copy[o].bytes, g)]
  <2>1. o \in Owner /\ Members(o) # {}
    BY <1>2 DEF Writes, OwnerTypes
  <2>2. copy' = [copy EXCEPT ![o] = new]
    BY <1>2 DEF Receive
  <2>3. epoch[o].num \in Nat /\ copy[o] \in Value
    BY <2>1 DEF EpochTypes, CopyTypes
  <2>4. Bumped(copy[o].ver, epoch[o].num) \in Nat \X Nat
    BY <2>3 DEF Bumped, Value
  <2>5. Append(copy[o].bytes, g) \in Seq(Update)
    BY <2>3, AppendProperties DEF Value, Update
  <2>6. new \in Value
    BY <2>4, <2>5 DEF Value
  <2>. HIDE DEF new
  <2>. QED  BY <2>1, <2>2, <2>6 DEF CopyTypes
<1>. QED  BY <1>1, <1>2

LEMMA AnsweredKeeps ==
  ASSUME WorkerTypes, NEW w \in Worker, Pushing(w), NEW done, Answered(w, done), expired' = expired
  PROVE  WorkerTypes'
<1>. DEFINE task == [worker[w] EXCEPT !.todo = Tail(worker[w].todo), !.applied = worker[w].applied \/ done]
<1>1. worker' = [worker EXCEPT ![w] = task]
  BY DEF Answered
<1>2. /\ DOMAIN worker[w] = DOMAIN Idle /\ worker[w].at \in {"push", "again"}
      /\ worker[w].grant \in Granted /\ worker[w].view \subseteq Owner
  BY DEF WorkerTypes, Pushing
<1>3. /\ DOMAIN task = DOMAIN Idle /\ task.at \in {"push", "again"}
      /\ task.grant \in Granted /\ task.view \subseteq Owner
  BY <1>2, IdleIsTask
<1>. HIDE DEF task
<1>. QED  BY <1>1, <1>3, TaskKeeps

LEMMA PushKeeps ==
  ASSUME Types, NEW w \in Worker, Push(w) \/ PushLost(w)
  PROVE  Types'
<1>. USE DEF Types
<1>1. /\ Pushing(w) /\ \E done : Answered(w, done)
      /\ UNCHANGED <<state, dir, epoch, active, gen, turn, debits, read, expired, confirmed>>
  BY DEF Push, PushLost
<1>2. WorkerTypes'
  <2>1. expired' = expired
    BY <1>1
  <2>2. PICK done : Answered(w, done)
    BY <1>1
  <2>. QED  BY <1>1, <2>1, <2>2, AnsweredKeeps
<1>3. copy' \in [Owner -> Value]
  <2>1. CASE UNCHANGED copy
    BY <2>1 DEF CopyTypes
  <2>2. CASE Receive(Head(worker[w].todo), worker[w].grant)
    <3>1. worker[w].grant \in Granted
      BY <1>1 DEF WorkerTypes, Pushing
    <3>. QED  BY <2>2, <3>1, ReceiveKeeps
  <2>. QED  BY <2>1, <2>2 DEF Push, PushLost
<1>4. Failures'
  <2>1. CASE Push(w)
    BY <1>1, <2>1 DEF Push, Failures, Faulty
  <2>2. CASE PushLost(w)
    <3>1. failures < MaxFailures /\ failures' = failures + 1
      BY <2>2 DEF PushLost
    <3>. QED  BY <1>1, <3>1, FailuresKeep
  <2>. QED  BY <2>1, <2>2
<1>. QED  BY <1>1, <1>2, <1>3, <1>4 DEF OwnerTypes, EpochTypes, CopyTypes, Members

LEMMA PushEndsKeeps ==
  ASSUME Types, NEW w \in Worker, PushEnds(w)
  PROVE  Types'
<1>. USE DEF Types
<1>1. UNCHANGED <<ownerVars, expired, confirmed, failures>> /\ worker[w].at \in {"push", "again"}
  BY DEF PushEnds
<1>2. WorkerTypes'
  <2>1. CASE Rests(w)
    BY <1>1, <2>1, RestsKeeps
  <2>2. CASE \E view \in Views(w) : worker' = [worker EXCEPT ![w].at = "again", ![w].view = view,
                                                             ![w].todo = First(ModuleRank, view)]
    <3>1. PICK view \in Views(w) : worker' = [worker EXCEPT ![w].at = "again", ![w].view = view,
                                                            ![w].todo = First(ModuleRank, view)]
      BY <2>2
    <3>. DEFINE task == [worker[w] EXCEPT !.at = "again", !.view = view, !.todo = First(ModuleRank, view)]
    <3>2. worker' = [worker EXCEPT ![w] = task]
      BY <3>1
    <3>3. DOMAIN worker[w] = DOMAIN Idle /\ worker[w].grant \in Granted /\ view \subseteq Owner
      BY <1>1, ViewsAreOwners DEF WorkerTypes
    <3>4. /\ DOMAIN task = DOMAIN Idle /\ task.at = "again"
          /\ task.grant \in Granted /\ task.view \subseteq Owner
      BY <3>3, IdleIsTask
    <3>. HIDE DEF task
    <3>5. expired' = expired
      BY <1>1
    <3>. QED  BY <3>2, <3>4, <3>5, TaskKeeps
  <2>. QED  BY <2>1, <2>2 DEF PushEnds
<1>. QED  BY <1>1, <1>2 DEF ownerVars, OwnerTypes, EpochTypes, CopyTypes, Failures, Faulty, Members

LEMMA DieKeeps ==
  ASSUME Types, NEW w \in Worker, Die(w)
  PROVE  Types'
<1>. USE DEF Types
<1>1. /\ UNCHANGED <<ownerVars, expired, confirmed>>
      /\ failures < MaxFailures /\ failures' = failures + 1
  BY DEF Die
<1>. DEFINE task == [Idle EXCEPT !.at = "dead"]
<1>2. worker' = [worker EXCEPT ![w] = task] /\ expired' = expired /\ state' = state
  BY <1>1 DEF Die, ownerVars
<1>3. DOMAIN task = DOMAIN Idle /\ task.at = "dead" /\ task.view \subseteq Owner
  BY IdleIsTask
<1>. HIDE DEF task
<1>4. WorkerTypes' /\ Failures'
  BY <1>1, <1>2, <1>3, TaskKeeps, FailuresKeep
<1>. QED  BY <1>1, <1>4 DEF ownerVars, OwnerTypes, EpochTypes, CopyTypes, Members

-----------------------------------------------------------------------------
\* The invariant holds of every state.

LEMMA InitTypes == Init => Types
<1>. SUFFICES ASSUME Init  PROVE Types
  OBVIOUS
<1>1. OwnerTypes
  <2>1. Cardinality(Worker) \in Nat /\ Cardinality(Worker) # 0
    BY ConstantAssumption, FS_CardinalityType, FS_EmptySet
  <2>2. 0 \in 0 .. Cardinality(Worker) - 1 /\ 0 \in 0 .. Strikes
    BY <2>1, ConstantAssumption
  <2>. QED  BY <2>2 DEF Init, OwnerTypes
<1>2. EpochTypes
  BY DEF Init, EpochTypes, Epoch, Members
<1>3. CopyTypes
  <2>1. Seeded \in Value
    BY DEF Seeded, Value
  <2>. QED  BY <2>1 DEF Init, CopyTypes
<1>4. WorkerTypes
  BY DEF Init, WorkerTypes, Idle
<1>5. Failures
  <2>1. Faulty = {}
    BY DEF Init, Faulty
  <2>2. failures = 0 /\ 0 \in 0 .. MaxFailures
    BY ConstantAssumption DEF Init
  <2>3. Cardinality(Faulty) = 0
    BY <2>1, FS_EmptySet
  <2>. QED  BY <2>2, <2>3 DEF Failures, Faulty
<1>. QED  BY <1>1, <1>2, <1>3, <1>4, <1>5 DEF Types

LEMMA NextTypes ==
  ASSUME Types, [Next]_vars
  PROVE  Types'
<1>1. CASE UNCHANGED vars
  BY <1>1 DEF vars, Types, OwnerTypes, EpochTypes, CopyTypes, WorkerTypes, Failures, Faulty, Members
<1>2. ASSUME NEW o \in Owner, OwnerNext(o)  PROVE Types'
  BY <1>2, GossipKeeps, ReadVersionsKeeps, PullKeeps, AuditKeeps, TakeoverKeeps, FaultKeeps,
     ExpireKeeps DEF OwnerNext
<1>3. ASSUME NEW w \in Worker, WorkerNext(w)  PROVE Types'
  BY <1>3, PickKeeps, ReadBaseKeeps, CommitKeeps, CommitLostKeeps, PushKeeps, PushEndsKeeps,
     DieKeeps, ExpireKeeps DEF WorkerNext, WorkerStep
<1>. QED  BY <1>1, <1>2, <1>3 DEF Next, Rest

LEMMA TypesHold == Spec => []Types
<1>1. Types /\ [Next]_vars => Types'
  BY NextTypes
<1>. QED  BY <1>1, InitTypes, PTL DEF Spec

\* Whatever is lost, crashes or turns faulty, every variable of the swarm keeps
\* its type, the ranks of the takeovers stay within the workers and no owner
\* counts more debits than it needs to drop another (schedule/sharded.py, the
\* decentralized ParameterServer).
THEOREM TypeCorrect == Spec => []TypeOK
<1>1. Types => TypeOK
  BY DEF Types, OwnerTypes, EpochTypes, CopyTypes, WorkerTypes, Failures, Value, TypeOK, Members
<1>. QED  BY <1>1, TypesHold, PTL

-----------------------------------------------------------------------------
\* What moves the copies.

\* Something is confirmed to a reader, an owner or a worker.
Confirms(asked) ==
  \E t \in Gather(asked, Report) : \E r \in Confirm(t) :
    /\ copy' = copy /\ confirmed' = confirmed \cup {r}
    /\ read' = read \/ \E o \in Owner : read' = [read EXCEPT ![o] = r]

\* An owner takes over what it has read, or does not.
Adopted(o) ==
  /\ read' = [read EXCEPT ![o] = Silent] /\ confirmed' = confirmed
  /\ \/ copy' = copy
     \/ Newer(read[o].ver, copy[o].ver) /\ copy' = [copy EXCEPT ![o] = read[o]]

Moves ==
  \/ UNCHANGED <<copy, read, confirmed>>
  \/ \E o \in Owner : \E members \in SUBSET Owner :
       Derive(o, members) /\ UNCHANGED <<read, confirmed>>
  \/ \E asked \in SUBSET Owner : Confirms(asked)
  \/ \E o \in Owner : Adopted(o)
  \/ \E o : \E g \in Granted : Receive(o, g) /\ UNCHANGED <<read, confirmed>>

LEMMA GossipMoves ==
  ASSUME Types, NEW o \in Owner, Gossip(o)
  PROVE  /\ \E members \in SUBSET Owner : Derive(o, members) /\ UNCHANGED <<read, confirmed>>
         /\ Faulty \subseteq Faulty'
<1>. USE DEF Types
<1>1. PICK told \in {UNION S : S \in SUBSET ({dir[q] : q \in {q \in Members(o) \ {o} : Serving(q)}}
                                               \union {Tracker})} :
        Derive(o, {q \in (dir[o] \union {o} \union told) \ expired : debits[o][q] < Strikes})
  BY DEF Gossip
<1>2. told \subseteq Owner
  <2>1. \A q \in Members(o) \ {o} : dir[q] \subseteq Owner
    BY DEF OwnerTypes, EpochTypes, Members
  <2>2. Tracker \subseteq Owner
    BY DEF Tracker
  <2>3. \A S \in SUBSET ({dir[q] : q \in {q \in Members(o) \ {o} : Serving(q)}} \union {Tracker}) :
          UNION S \subseteq Owner
    BY <2>1, <2>2
  <2>. QED  BY <2>3
<1>. DEFINE members == {q \in (dir[o] \union {o} \union told) \ expired : debits[o][q] < Strikes}
<1>3. members \in SUBSET Owner
  BY <1>2 DEF OwnerTypes
<1>. HIDE DEF members
<1>4. UNCHANGED <<read, confirmed>> /\ state' = [state EXCEPT ![o] = IF @ = "off" THEN "up" ELSE @]
  BY DEF Gossip
<1>5. Faulty \subseteq Faulty'
  BY <1>4 DEF Faulty, OwnerTypes
<1>. QED  BY <1>1, <1>3, <1>4, <1>5 DEF members

LEMMA PullMoves ==
  ASSUME NEW o \in Owner, Types, Pull(o)
  PROVE  Adopted(o)
<1>1. PICK t : copy' = [copy EXCEPT ![o] = IF Adopts(o, Range(t)) THEN read[o] ELSE copy[o]]
  BY DEF Pull
<1>2. DOMAIN copy = Owner /\ [copy EXCEPT ![o] = copy[o]] = copy
  BY DEF Types, CopyTypes
<1>. QED  BY <1>1, <1>2 DEF Pull, Adopted, Adopts

\* Each step moves the copies in one of these ways; only one of an owner's own
\* changes its epoch, and a faulty owner stays so.
LEMMA NextMoves ==
  ASSUME Types, [Next]_vars
  PROVE  /\ Moves
         /\ Faulty \subseteq Faulty'
         /\ epoch' = epoch
              \/ \E o \in Owner : \E members \in SUBSET Owner :
                   Derive(o, members) /\ UNCHANGED <<read, confirmed>>
<1>1. ASSUME NEW o \in Owner, Gossip(o)
      PROVE  /\ \E q \in Owner : \E members \in SUBSET Owner :
                  Derive(q, members) /\ UNCHANGED <<read, confirmed>>
             /\ Faulty \subseteq Faulty'
  BY <1>1, GossipMoves
<1>2. ASSUME NEW o \in Owner, ReadVersions(o)
      PROVE  (\E asked \in SUBSET Owner : Confirms(asked)) /\ UNCHANGED <<epoch, state>>
  <2>1. Members(o) \in SUBSET Owner
    BY DEF Types, EpochTypes, Members
  <2>2. Confirms(Members(o))
    BY <1>2 DEF ReadVersions, Confirms
  <2>. QED  BY <1>2, <2>1, <2>2 DEF ReadVersions
<1>3. ASSUME NEW o \in Owner, Pull(o) PROVE Adopted(o) /\ UNCHANGED <<epoch, state>>
  BY <1>3, PullMoves DEF Pull
<1>4. ASSUME NEW w \in Worker, ReadBase(w)
      PROVE  /\ (\E asked \in SUBSET Owner : Confirms(asked)) \/ UNCHANGED <<copy, read, confirmed>>
             /\ UNCHANGED <<epoch, state>>
  <2>1. worker[w].view \in SUBSET Owner
    BY DEF Types, WorkerTypes
  <2>2. Confirms(worker[w].view) \/ UNCHANGED <<copy, read, confirmed>>
    BY <1>4 DEF ReadBase, Confirms, ownerVars
  <2>. QED  BY <1>4, <2>1, <2>2 DEF ReadBase, ownerVars
<1>5. ASSUME NEW w \in Worker, Push(w) \/ PushLost(w)
      PROVE  /\ \/ \E o : \E g \in Granted : Receive(o, g) /\ UNCHANGED <<read, confirmed>>
                \/ UNCHANGED <<copy, read, confirmed>>
             /\ UNCHANGED <<epoch, state>>
  <2>1. worker[w].grant \in Granted
    BY <1>5 DEF Types, WorkerTypes, Push, PushLost, Pushing
  <2>. QED  BY <1>5, <2>1 DEF Push, PushLost
<1>6. ASSUME NEW o \in Owner, NEW p \in Path, Takeover(o, p)
      PROVE  UNCHANGED <<copy, read, confirmed, epoch, state>>
  BY <1>6 DEF Takeover
<1>7. ASSUME NEW o \in Owner, Audit(o) PROVE UNCHANGED <<copy, read, confirmed, epoch, state>>
  BY <1>7 DEF Audit
<1>8. ASSUME NEW o \in Owner, Fault(o)
      PROVE  UNCHANGED <<copy, read, confirmed, epoch>> /\ Faulty \subseteq Faulty'
  BY <1>8 DEF Fault, Faulty, Types, OwnerTypes
<1>9. ASSUME NEW q \in Owner \cup Worker, Expire(q)
      PROVE  UNCHANGED <<copy, read, confirmed, epoch, state>>
  BY <1>9 DEF Expire, ownerVars
<1>10. ASSUME NEW w \in Worker,
              Pick(w) \/ Commit(w) \/ CommitLost(w) \/ PushEnds(w) \/ Die(w)
       PROVE  UNCHANGED <<copy, read, confirmed, epoch, state>>
  BY <1>10 DEF Pick, Commit, CommitLost, PushEnds, Die, ownerVars, Unheld
<1>11. CASE UNCHANGED vars
  BY <1>11 DEF vars, Moves, Faulty
<1>12. state' = state => Faulty' = Faulty
  BY DEF Faulty
<1>13. ASSUME NEW o \in Owner, OwnerNext(o)
       PROVE  /\ Moves /\ Faulty \subseteq Faulty'
              /\ epoch' = epoch
                   \/ \E q \in Owner : \E members \in SUBSET Owner :
                        Derive(q, members) /\ UNCHANGED <<read, confirmed>>
  BY <1>13, <1>1, <1>2, <1>3, <1>6, <1>7, <1>8, <1>9, <1>12 DEF OwnerNext, Moves
<1>14. ASSUME NEW w \in Worker, WorkerNext(w)
       PROVE  Moves /\ Faulty \subseteq Faulty' /\ epoch' = epoch
  BY <1>14, <1>4, <1>5, <1>9, <1>10, <1>12 DEF WorkerNext, WorkerStep, Moves
<1>. QED  BY <1>11, <1>13, <1>14 DEF Next, Rest

-----------------------------------------------------------------------------
\* Lies.  While fewer owners are faulty than make a quorum, copies, what was
\* confirmed and what was read have only bytes that grants made.

FewFaulty == Cardinality(Faulty) < Quorum

Pure == [ver : Nat \X Nat, bytes : Seq(Granted)]

Clean ==
  /\ copy \in [Owner -> Pure]
  /\ confirmed \in SUBSET Pure
  /\ read \in [Owner -> Pure \cup {Silent}]

\* A lie is no granted bytes.
LEMMA PoisonIsNotPure == Poison \notin Seq(Granted)
<1>1. Poison[1] = <<None, 0, None>> /\ 1 \in DOMAIN Poison
  BY DEF Poison
<1>2. <<None, 0, None>> \notin Granted
  BY ConstantAssumption DEF Granted
<1>3. Poison \in Seq(Granted) => Poison[1] \in Granted
  BY <1>1
<1>. QED  BY <1>1, <1>2, <1>3

\* An owner that is not faulty told what a quorum agrees on, and holds it.
LEMMA AgreedIsHeld ==
  ASSUME Types, FewFaulty, NEW asked \in SUBSET Owner, NEW t \in Gather(asked, Report),
         NEW r \in Confirm(t)
  PROVE  \E q \in Owner : copy[q] = r
<1>. DEFINE S == {o \in asked : t[o] = r}
<1>1. Cardinality(S) >= Quorum /\ r # Silent
  BY AgreedIsValue DEF Types
<1>2. PICK l : \A o \in asked : t[o] = Report(o) \/ (o \in Faulty /\ l \in Lies /\ t[o] = l)
  BY GatheredReports
<1>3. IsFiniteSet(Faulty) /\ Faulty \subseteq Owner
  <2>1. Faulty \subseteq Owner
    BY DEF Faulty
  <2>. QED  BY <2>1, ConstantAssumption, FS_Subset
<1>4. ~(S \subseteq Faulty)
  <2>. SUFFICES ASSUME S \subseteq Faulty PROVE FALSE
    OBVIOUS
  <2>. HIDE DEF S
  <2>1. /\ Cardinality(S) <= Cardinality(Faulty)
        /\ Cardinality(S) \in Nat /\ Cardinality(Faulty) \in Nat
    BY <1>3, FS_Subset, FS_CardinalityType
  <2>. QED  BY <1>1, <2>1, ConstantAssumption DEF FewFaulty
<1>5. PICK q \in S : q \notin Faulty
  BY <1>4
<1>6. t[q] = Report(q) /\ t[q] = r /\ q \in Owner
  BY <1>2, <1>5
<1>. QED  BY <1>1, <1>6 DEF Report

\* A quorum holds it when nobody lies.
LEMMA AgreedByHolders ==
  ASSUME Types, Faulty = {}, NEW asked \in SUBSET Owner, NEW t \in Gather(asked, Report),
         NEW r \in Confirm(t)
  PROVE  Cardinality({o \in Owner : copy[o] = r}) >= Quorum
<1>. DEFINE S == {o \in asked : t[o] = r}
            H == {o \in Owner : copy[o] = r}
<1>1. Cardinality(S) >= Quorum /\ r # Silent
  BY AgreedIsValue DEF Types
<1>2. \A o \in asked : t[o] = Report(o)
  BY GatheredReports
<1>3. S \subseteq H
  BY <1>1, <1>2 DEF Report
<1>4. H \subseteq Owner
  OBVIOUS
<1>. HIDE DEF S, H
<1>5. IsFiniteSet(H)
  BY <1>4, ConstantAssumption, FS_Subset
<1>6. Cardinality(S) <= Cardinality(H) /\ Cardinality(S) \in Nat /\ Cardinality(H) \in Nat
  BY <1>3, <1>5, FS_Subset, FS_CardinalityType
<1>. QED  BY <1>1, <1>6, ConstantAssumption DEF H

\* Fewer were faulty before a step after which they are.
LEMMA FewBefore ==
  ASSUME Types, Types', Faulty \subseteq Faulty', FewFaulty'
  PROVE  FewFaulty
<1>1. IsFiniteSet(Faulty')
  <2>1. Faulty' \subseteq Owner
    BY DEF Faulty
  <2>. QED  BY <2>1, ConstantAssumption, FS_Subset
<1>2. /\ Cardinality(Faulty) <= Cardinality(Faulty')
      /\ Cardinality(Faulty) \in Nat /\ Cardinality(Faulty') \in Nat
  BY <1>1, FS_Subset, FS_CardinalityType
<1>3. Cardinality(Faulty') < Quorum
  BY DEF FewFaulty
<1>. QED  BY <1>2, <1>3, ConstantAssumption DEF FewFaulty

\* What an owner adopts was read and confirmed, not silence.
LEMMA AdoptedWasRead ==
  ASSUME NEW o \in Owner, Newer(read[o].ver, copy[o].ver), copy[o].ver \in Nat \X Nat
  PROVE  read[o] # Silent
<1>. SUFFICES ASSUME read[o] = Silent PROVE FALSE
  OBVIOUS
<1>1. Newer(<<0, 0>>, copy[o].ver)
  BY DEF Silent
<1>. QED  BY <1>1 DEF Newer

LEMMA CleanStep ==
  ASSUME Types, Types', FewFaulty => Clean, [Next]_vars, FewFaulty'
  PROVE  Clean'
<1>1. Moves /\ Faulty \subseteq Faulty'
  BY NextMoves
<1>2. FewFaulty /\ Clean
  BY <1>1, FewBefore
<1>3. CASE UNCHANGED <<copy, read, confirmed>>
  BY <1>2, <1>3 DEF Clean
<1>4. ASSUME NEW o \in Owner, NEW members \in SUBSET Owner,
             Derive(o, members), UNCHANGED <<read, confirmed>>
      PROVE  Clean'
  <2>1. Seeded \in Pure
    BY DEF Seeded, Pure
  <2>2. copy' = copy \/ copy' = [copy EXCEPT ![o] = Seeded]
    BY <1>4 DEF Derive
  <2>. QED  BY <1>2, <1>4, <2>1, <2>2 DEF Clean
<1>5. ASSUME NEW asked \in SUBSET Owner, Confirms(asked) PROVE Clean'
  <2>a. PICK t \in Gather(asked, Report) : \E r \in Confirm(t) :
          /\ copy' = copy /\ confirmed' = confirmed \cup {r}
          /\ read' = read \/ \E o \in Owner : read' = [read EXCEPT ![o] = r]
    BY <1>5 DEF Confirms
  <2>1. PICK r \in Confirm(t) :
          /\ copy' = copy /\ confirmed' = confirmed \cup {r}
          /\ read' = read \/ \E o \in Owner : read' = [read EXCEPT ![o] = r]
    BY <2>a
  <2>2. r \in Pure
    <3>1. PICK q \in Owner : copy[q] = r
      BY <1>2, AgreedIsHeld
    <3>. QED  BY <1>2, <3>1 DEF Clean
  <2>. QED  BY <1>2, <2>1, <2>2 DEF Clean
<1>6. ASSUME NEW o \in Owner, Adopted(o) PROVE Clean'
  <2>1. copy' = copy \/ (read[o] # Silent /\ copy' = [copy EXCEPT ![o] = read[o]])
    BY <1>2, <1>6, AdoptedWasRead DEF Adopted, Clean, Pure
  <2>. QED  BY <1>2, <1>6, <2>1 DEF Adopted, Clean
<1>7. ASSUME NEW o, NEW g \in Granted, Receive(o, g), UNCHANGED <<read, confirmed>> PROVE Clean'
  <2>1. CASE ~Writes(o, g)
    BY <1>2, <1>7, <2>1 DEF Receive, Clean
  <2>2. CASE Writes(o, g)
    <3>. DEFINE new == [ver |-> Bumped(copy[o].ver, epoch[o].num), bytes |-> Append(copy[o].bytes, g)]
    <3>1. o \in Owner /\ copy' = [copy EXCEPT ![o] = new]
      BY <1>7, <2>2 DEF Receive, Writes, Types, OwnerTypes
    <3>2. copy[o].bytes \in Seq(Granted) /\ copy'[o] \in Value
      BY <1>2, <3>1 DEF Clean, Pure, Types, CopyTypes
    <3>3. copy'[o] = new
      BY <1>2, <3>1 DEF Clean
    <3>4. new.ver \in Nat \X Nat /\ new.bytes \in Seq(Granted)
      BY <3>2, <3>3, AppendProperties DEF Value
    <3>5. new \in Pure
      BY <3>4 DEF Pure
    <3>. HIDE DEF new
    <3>. QED  BY <1>2, <1>7, <3>1, <3>5 DEF Clean
  <2>. QED  BY <2>1, <2>2
<1>. QED  BY <1>1, <1>3, <1>4, <1>5, <1>6, <1>7 DEF Moves

LEMMA CleanHolds == Spec => [](Types /\ (FewFaulty => Clean))
<1>1. Init => Clean
  <2>1. Seeded \in Pure
    BY DEF Seeded, Pure
  <2>. QED  BY <2>1 DEF Init, Clean
<1>2. Types /\ Types' /\ (FewFaulty => Clean) /\ [Next]_vars => (FewFaulty => Clean)'
  BY CleanStep
<1>. QED  BY <1>1, <1>2, TypesHold, PTL DEF Spec

\* What is pure was not poisoned.
LEMMA CleanIsNotPoisoned == Clean => NeverPoisoned
<1>1. \A v \in Pure : v.bytes = <<>> \/ Head(v.bytes) # Head(Poison)
  <2>. SUFFICES ASSUME NEW v \in Pure, v.bytes # <<>>  PROVE Head(v.bytes) # Head(Poison)
    OBVIOUS
  <2>1. Head(v.bytes) \in Granted
    BY HeadTailProperties DEF Pure
  <2>2. Head(Poison) \notin Granted
    BY ConstantAssumption DEF Poison, Granted
  <2>. QED  BY <2>1, <2>2
<1>. QED  BY <1>1 DEF Clean, NeverPoisoned

\* Whatever is lost or crashes: while fewer owners are faulty than make a read
\* quorum, no reader has confirmed bytes that no grant produced, and no owner that
\* is up holds any (confirm_version of schedule/quorum.py, _replicate_once).
THEOREM NothingPoisonedIsConfirmed == Spec => [](FewFaulty => NeverPoisoned)
BY CleanHolds, CleanIsNotPoisoned, PTL

\* So it stays when fewer things can fail at all than make a quorum, as in the run.
THEOREM FewFailuresPoisonNothing ==
  ASSUME MaxFailures < Quorum
  PROVE  Spec => []NeverPoisoned
<1>1. Types => FewFaulty
  <2>. SUFFICES ASSUME Types PROVE FewFaulty
    OBVIOUS
  <2>1. IsFiniteSet(Faulty)
    <3>1. Faulty \subseteq Owner
      BY DEF Faulty
    <3>. QED  BY <3>1, ConstantAssumption, FS_Subset
  <2>2. Cardinality(Faulty) \in Nat /\ Cardinality(Faulty) <= failures /\ failures \in 0 .. MaxFailures
    BY <2>1, FS_CardinalityType DEF Types, Failures
  <2>. QED  BY <2>2, ConstantAssumption DEF FewFaulty
<1>. QED  BY <1>1, TypesHold, NothingPoisonedIsConfirmed, PTL

-----------------------------------------------------------------------------
\* What was confirmed is kept.  A swarm whose owners all started in epoch 0
\* counts the updates of a copy in its version while none of them has derived
\* another epoch.  A version that a quorum held when it was confirmed is then the
\* beginning of what a quorum holds ever after, and of all that is confirmed
\* later: two quorums of a majority have an owner in common.

Steady == Faulty = {} /\ \A o \in Owner : epoch[o].num = 0

Numbered == \A o \in Owner : epoch[o].num \in Nat

Counted(v) == v.ver = <<0, Len(v.bytes)>>

Holders(r) == {o \in Owner : IsPrefix(r.bytes, copy[o].bytes)}

Kept ==
  /\ \A o \in Owner : Counted(copy[o]) /\ read[o] \in confirmed \cup {Silent}
  /\ \A r \in confirmed : Counted(r) /\ Cardinality(Holders(r)) >= Quorum
  /\ \A r, q \in confirmed : IsPrefix(r.bytes, q.bytes) \/ IsPrefix(q.bytes, r.bytes)

\* PrefixFacts, element by element.
LEMMA PrefixByElements ==
  ASSUME NEW a \in Seq(Update), NEW b \in Seq(Update)
  PROVE  IsPrefix(a, b) <=> Len(a) <= Len(b) /\ \A i \in 1 .. Len(a) : a[i] = b[i]
<1>1. CASE Len(a) <= Len(b)
  <2>1. \A i \in 1 .. Len(a) : i \in 1 .. Len(b)
    BY <1>1
  <2>2. /\ SubSeq(a, 1, Len(a)) \in Seq(Update) /\ Len(SubSeq(a, 1, Len(a))) = Len(a)
        /\ \A i \in 1 .. Len(a) : SubSeq(a, 1, Len(a))[i] = a[i]
    BY SubSeqProperties
  <2>3. /\ SubSeq(b, 1, Len(a)) \in Seq(Update) /\ Len(SubSeq(b, 1, Len(a))) = Len(a)
        /\ \A i \in 1 .. Len(a) : SubSeq(b, 1, Len(a))[i] = b[i]
    BY <2>1, SubSeqProperties
  <2>4. SubSeq(a, 1, Len(a)) = SubSeq(b, 1, Len(a)) <=> \A i \in 1 .. Len(a) : a[i] = b[i]
    BY <2>2, <2>3, SeqEqual
  <2>. QED  BY <1>1, <2>4 DEF IsPrefix
<1>2. CASE ~(Len(a) <= Len(b))
  BY <1>2 DEF IsPrefix
<1>. QED  BY <1>1, <1>2

LEMMA PrefixFacts ==
  ASSUME NEW a \in Seq(Update), NEW b \in Seq(Update)
  PROVE  /\ IsPrefix(a, a)
         /\ \A g \in Update : IsPrefix(a, b) => IsPrefix(a, Append(b, g))
         /\ IsPrefix(a, b) /\ Len(b) <= Len(a) => a = b
<1>1. IsPrefix(a, a)
  BY PrefixByElements
<1>2. ASSUME NEW g \in Update, IsPrefix(a, b) PROVE IsPrefix(a, Append(b, g))
  <2>1. Append(b, g) \in Seq(Update) /\ Len(Append(b, g)) = Len(b) + 1
        /\ \A i \in 1 .. Len(b) : Append(b, g)[i] = b[i]
    BY AppendProperties
  <2>2. Len(a) <= Len(b) /\ \A i \in 1 .. Len(a) : a[i] = b[i]
    BY <1>2, PrefixByElements
  <2>3. Len(a) \in Nat /\ Len(b) \in Nat
    OBVIOUS
  <2>4. Len(a) <= Len(b) + 1 /\ \A i \in 1 .. Len(a) : i \in 1 .. Len(b)
    BY <2>2, <2>3
  <2>5. \A i \in 1 .. Len(a) : a[i] = Append(b, g)[i]
    BY <2>1, <2>2, <2>4
  <2>. QED  BY <2>1, <2>4, <2>5, PrefixByElements
<1>3. ASSUME IsPrefix(a, b), Len(b) <= Len(a) PROVE a = b
  <2>1. Len(a) <= Len(b) /\ (\A i \in 1 .. Len(a) : a[i] = b[i]) /\ Len(a) \in Nat /\ Len(b) \in Nat
    BY <1>3, PrefixByElements
  <2>2. Len(a) = Len(b)
    BY <1>3, <2>1
  <2>. QED  BY <2>1, <2>2, SeqEqual
<1>. QED  BY <1>1, <1>2, <1>3

\* Two quorums of a majority have an owner in common.
LEMMA QuorumsMeet ==
  ASSUME 2 * Quorum > Cardinality(Owner), NEW A \in SUBSET Owner, NEW B \in SUBSET Owner,
         Cardinality(A) >= Quorum, Cardinality(B) >= Quorum
  PROVE  A \cap B # {}
<1>1. IsFiniteSet(A) /\ IsFiniteSet(B) /\ IsFiniteSet(Owner)
  BY ConstantAssumption, FS_Subset
<1>2. Cardinality(A) \in Nat /\ Cardinality(B) \in Nat /\ Cardinality(Owner) \in Nat /\ Quorum \in Nat
  BY <1>1, FS_CardinalityType, ConstantAssumption
<1>3. Cardinality(A) + Cardinality(B) > Cardinality(Owner)
  BY <1>2
<1>. QED  BY <1>1, <1>3, FS_MajoritiesIntersect

\* Copies that only grow, or are taken over from what was confirmed later, keep
\* what was confirmed.
LEMMA HoldersStay ==
  ASSUME Kept, \A o \in Owner : Counted(copy'[o]) /\ read'[o] \in confirmed \cup {Silent},
         confirmed' = confirmed,
         \A r \in confirmed : \A o \in Owner :
           IsPrefix(r.bytes, copy[o].bytes) => IsPrefix(r.bytes, copy'[o].bytes)
  PROVE  Kept'
<1>1. ASSUME NEW r \in confirmed PROVE Cardinality(Holders(r)') >= Quorum
  <2>. DEFINE H == Holders(r)
              J == {o \in Owner : IsPrefix(r.bytes, copy'[o].bytes)}
  <2>1. H \subseteq J /\ J \subseteq Owner /\ Cardinality(H) >= Quorum
    BY DEF Holders, Kept
  <2>2. Holders(r)' = J
    BY DEF Holders
  <2>. HIDE DEF H, J
  <2>3. IsFiniteSet(J)
    BY <2>1, ConstantAssumption, FS_Subset
  <2>4. Cardinality(H) <= Cardinality(J) /\ Cardinality(H) \in Nat /\ Cardinality(J) \in Nat
    BY <2>1, <2>3, FS_Subset, FS_CardinalityType
  <2>. QED  BY <2>1, <2>2, <2>4, ConstantAssumption
<1>2. \A r \in confirmed : Counted(r)
  BY DEF Kept
<1>3. \A r, q \in confirmed : IsPrefix(r.bytes, q.bytes) \/ IsPrefix(q.bytes, r.bytes)
  BY DEF Kept
<1>4. \A r \in confirmed' : Counted(r) /\ Cardinality(Holders(r)') >= Quorum
  BY <1>1, <1>2
<1>. QED  BY <1>3, <1>4 DEF Kept

LEMMA SteadyBefore ==
  ASSUME Types, Numbered, [Next]_vars, Steady'
  PROVE  /\ Steady
         /\ \A o \in Owner : \A members \in SUBSET Owner : Derive(o, members) => copy' = copy
<1>1. /\ Faulty \subseteq Faulty'
      /\ epoch' = epoch \/ \E o \in Owner : \E members \in SUBSET Owner : Derive(o, members)
  BY NextMoves
<1>2. None \notin Nat
  BY ConstantAssumption
<1>3. ASSUME NEW o \in Owner, NEW members \in SUBSET Owner, Derive(o, members)
      PROVE  UNCHANGED <<epoch, active, copy>>
  <2>. SUFFICES ASSUME ~(epoch[o].num # None /\ members = Members(o)) PROVE FALSE
    BY <1>3 DEF Derive
  <2>1. epoch' = [epoch EXCEPT ![o] =
            Epoch(IF epoch[o].num = None THEN 0 ELSE epoch[o].num + 1, members, Members(o))]
    BY <1>3 DEF Derive
  <2>2. epoch[o].num \in Nat /\ epoch[o].num # None /\ DOMAIN epoch = Owner
    BY <1>2 DEF Numbered, Types, EpochTypes
  <2>3. epoch'[o].num = epoch[o].num + 1
    BY <2>1, <2>2 DEF Epoch
  <2>. QED  BY <2>2, <2>3 DEF Steady
<1>4. epoch' = epoch
  BY <1>1, <1>3
<1>. QED  BY <1>1, <1>3, <1>4 DEF Steady

LEMMA NumberedStep == Types /\ Numbered /\ [Next]_vars => Numbered'
<1>. SUFFICES ASSUME Types, Numbered, [Next]_vars PROVE Numbered'
  OBVIOUS
<1>1. epoch' = epoch \/ \E o \in Owner : \E members \in SUBSET Owner : Derive(o, members)
  BY NextMoves
<1>2. CASE epoch' = epoch
  BY <1>2 DEF Numbered
<1>3. ASSUME NEW o \in Owner, NEW members \in SUBSET Owner, Derive(o, members) PROVE Numbered'
  <2>1. CASE epoch[o].num # None /\ members = Members(o)
    BY <1>3, <2>1 DEF Derive, Numbered
  <2>2. CASE ~(epoch[o].num # None /\ members = Members(o))
    <3>. DEFINE n == IF epoch[o].num = None THEN 0 ELSE epoch[o].num + 1
    <3>1. n \in Nat /\ DOMAIN epoch = Owner
      BY DEF Numbered, Types, EpochTypes
    <3>2. epoch' = [epoch EXCEPT ![o] = Epoch(n, members, Members(o))]
      BY <1>3, <2>2 DEF Derive
    <3>. HIDE DEF n
    <3>3. \A q \in Owner : epoch'[q].num = epoch[q].num \/ epoch'[q].num = n
      BY <3>1, <3>2 DEF Epoch
    <3>. QED  BY <3>1, <3>3 DEF Numbered
  <2>. QED  BY <2>1, <2>2
<1>. QED  BY <1>1, <1>2, <1>3

LEMMA KeptStep ==
  ASSUME 2 * Quorum > Cardinality(Owner), Types, Types', Numbered, Steady => Kept, [Next]_vars, Steady'
  PROVE  Kept'
<1>1. Steady /\ Kept /\ Faulty = {}
  BY SteadyBefore DEF Steady
<1>2. Moves
  BY NextMoves
<1>3. /\ \A o \in Owner : copy[o].bytes \in Seq(Update) /\ copy[o] \in Value
      /\ \A r \in confirmed : r.bytes \in Seq(Update) /\ r \in Value
      /\ DOMAIN copy = Owner /\ DOMAIN read = Owner
  BY DEF Types, CopyTypes, Value
<1>4. CASE UNCHANGED <<copy, read, confirmed>>
  BY <1>1, <1>4 DEF Kept, Holders
<1>5. ASSUME NEW o \in Owner, NEW members \in SUBSET Owner,
             Derive(o, members), UNCHANGED <<read, confirmed>>
      PROVE  Kept'
  <2>1. copy' = copy
    BY <1>5, SteadyBefore
  <2>. QED  BY <1>4, <1>5, <2>1
<1>6. ASSUME NEW asked \in SUBSET Owner, Confirms(asked) PROVE Kept'
  <2>1. PICK t \in Gather(asked, Report) : \E r \in Confirm(t) :
          /\ copy' = copy /\ confirmed' = confirmed \cup {r}
          /\ read' = read \/ \E o \in Owner : read' = [read EXCEPT ![o] = r]
    BY <1>6 DEF Confirms
  <2>2. PICK r \in Confirm(t) :
          /\ copy' = copy /\ confirmed' = confirmed \cup {r}
          /\ read' = read \/ \E o \in Owner : read' = [read EXCEPT ![o] = r]
    BY <2>1
  <2>. DEFINE S == {o \in Owner : copy[o] = r}
  <2>3. Cardinality(S) >= Quorum /\ S \in SUBSET Owner
    BY <1>1, AgreedByHolders
  <2>4. \A o \in S : o \in Owner /\ copy[o] = r
    OBVIOUS
  <2>. HIDE DEF S
  <2>5. S # {}
    <3>. SUFFICES ASSUME S = {} PROVE FALSE
      OBVIOUS
    <3>. QED  BY <2>3, FS_EmptySet, ConstantAssumption
  <2>6. r.bytes \in Seq(Update) /\ Counted(r)
    BY <1>1, <1>3, <2>4, <2>5 DEF Kept
  <2>7. ASSUME NEW q \in confirmed PROVE IsPrefix(q.bytes, r.bytes)
    <3>1. Cardinality(Holders(q)) >= Quorum /\ Holders(q) \in SUBSET Owner
      BY <1>1 DEF Kept, Holders
    <3>2. PICK o \in Owner : o \in S /\ o \in Holders(q)
      BY <2>3, <3>1, QuorumsMeet
    <3>. QED  BY <2>4, <3>2 DEF Holders
  <2>8. IsPrefix(r.bytes, r.bytes)
    BY <2>6, PrefixFacts
  <2>9. Cardinality(Holders(r)) >= Quorum
    <3>1. S \subseteq Holders(r)
      BY <2>4, <2>8 DEF Holders
    <3>2. IsFiniteSet(Holders(r))
      <4>1. Holders(r) \subseteq Owner
        BY DEF Holders
      <4>. QED  BY <4>1, ConstantAssumption, FS_Subset
    <3>3. /\ Cardinality(S) <= Cardinality(Holders(r))
          /\ Cardinality(S) \in Nat /\ Cardinality(Holders(r)) \in Nat
      BY <3>1, <3>2, FS_Subset, FS_CardinalityType
    <3>. QED  BY <2>3, <3>3, ConstantAssumption
  <2>10. \A q : Holders(q)' = Holders(q)
    BY <2>2 DEF Holders
  <2>11. \A q \in confirmed' : Counted(q) /\ Cardinality(Holders(q)') >= Quorum
    BY <1>1, <2>2, <2>6, <2>9, <2>10 DEF Kept
  <2>12. \A q, u \in confirmed' : IsPrefix(q.bytes, u.bytes) \/ IsPrefix(u.bytes, q.bytes)
    BY <1>1, <2>2, <2>7, <2>8 DEF Kept
  <2>13. \A o \in Owner : Counted(copy'[o]) /\ read'[o] \in confirmed' \cup {Silent}
    BY <1>1, <1>3, <2>2 DEF Kept
  <2>. QED  BY <2>11, <2>12, <2>13 DEF Kept
<1>7. ASSUME NEW o \in Owner, Adopted(o) PROVE Kept'
  <2>1. /\ confirmed' = confirmed /\ read' = [read EXCEPT ![o] = Silent]
        /\ copy' = copy \/ (Newer(read[o].ver, copy[o].ver) /\ copy' = [copy EXCEPT ![o] = read[o]])
    BY <1>7 DEF Adopted
  <2>2. \A q \in Owner : read'[q] \in confirmed \cup {Silent}
    BY <1>1, <1>3, <2>1 DEF Kept
  <2>3. CASE copy' = copy
    BY <1>1, <2>1, <2>2, <2>3, HoldersStay DEF Kept
  <2>4. CASE Newer(read[o].ver, copy[o].ver) /\ copy' = [copy EXCEPT ![o] = read[o]]
    <3>. DEFINE new == read[o]
    <3>1. new \in confirmed
      BY <1>1, <1>3, <2>4, AdoptedWasRead DEF Kept, Value
    <3>2. Counted(new) /\ Counted(copy[o])
      BY <1>1, <3>1 DEF Kept
    <3>3. new.bytes \in Seq(Update) /\ copy[o].bytes \in Seq(Update)
      BY <1>3, <3>1
    <3>4. Len(copy[o].bytes) < Len(new.bytes)
      BY <2>4, <3>2 DEF Newer, Counted
    <3>5. copy'[o] = new /\ \A q \in Owner \ {o} : copy'[q] = copy[q]
      BY <1>3, <2>4
    <3>. HIDE DEF new
    <3>6. ASSUME NEW r \in confirmed, IsPrefix(r.bytes, copy[o].bytes)
          PROVE  IsPrefix(r.bytes, new.bytes)
      <4>. SUFFICES ASSUME IsPrefix(new.bytes, r.bytes) PROVE FALSE
        BY <1>1, <3>1 DEF Kept
      <4>1. r.bytes \in Seq(Update)
        BY <1>3
      <4>2. Len(r.bytes) <= Len(copy[o].bytes) /\ Len(new.bytes) <= Len(r.bytes)
        BY <3>3, <3>6, <4>1, PrefixByElements
      <4>3. Len(r.bytes) \in Nat /\ Len(copy[o].bytes) \in Nat /\ Len(new.bytes) \in Nat
        BY <3>3, <4>1
      <4>. QED  BY <3>4, <4>2, <4>3
    <3>7. \A r \in confirmed : \A q \in Owner :
            IsPrefix(r.bytes, copy[q].bytes) => IsPrefix(r.bytes, copy'[q].bytes)
      BY <3>5, <3>6
    <3>8. \A q \in Owner : Counted(copy'[q])
      BY <1>1, <3>2, <3>5 DEF Kept
    <3>. QED  BY <1>1, <2>1, <2>2, <3>7, <3>8, HoldersStay
  <2>. QED  BY <2>1, <2>3, <2>4
<1>8. ASSUME NEW o, NEW g \in Granted, Receive(o, g), UNCHANGED <<read, confirmed>> PROVE Kept'
  <2>1. CASE ~Writes(o, g)
    BY <1>4, <1>8, <2>1 DEF Receive
  <2>2. CASE Writes(o, g)
    <3>. DEFINE new == [ver |-> Bumped(copy[o].ver, epoch[o].num), bytes |-> Append(copy[o].bytes, g)]
    <3>1. o \in Owner /\ copy' = [copy EXCEPT ![o] = new]
      BY <1>8, <2>2 DEF Receive, Writes, Types, OwnerTypes
    <3>2. copy'[o] = new /\ \A q \in Owner \ {o} : copy'[q] = copy[q]
      BY <1>3, <3>1
    <3>3. copy[o].bytes \in Seq(Update) /\ g \in Update /\ copy[o].ver = <<0, Len(copy[o].bytes)>>
      BY <1>1, <1>3, <3>1 DEF Update, Kept, Counted
    <3>4. epoch[o].num = 0
      BY <1>1, <3>1 DEF Steady
    <3>5. Bumped(copy[o].ver, epoch[o].num) = <<0, Len(copy[o].bytes) + 1>>
      BY <3>3, <3>4 DEF Bumped
    <3>6. Len(Append(copy[o].bytes, g)) = Len(copy[o].bytes) + 1
      BY <3>3, AppendProperties
    <3>7. Counted(new)
      BY <3>5, <3>6 DEF Counted
    <3>8. \A r \in confirmed : IsPrefix(r.bytes, copy[o].bytes) => IsPrefix(r.bytes, new.bytes)
      BY <1>3, <3>3, PrefixFacts
    <3>. HIDE DEF new
    <3>9. \A r \in confirmed : \A q \in Owner :
            IsPrefix(r.bytes, copy[q].bytes) => IsPrefix(r.bytes, copy'[q].bytes)
      BY <3>2, <3>8
    <3>10. \A q \in Owner : Counted(copy'[q]) /\ read'[q] \in confirmed \cup {Silent}
      BY <1>1, <1>8, <3>2, <3>7 DEF Kept
    <3>. QED  BY <1>1, <1>8, <3>9, <3>10, HoldersStay
  <2>. QED  BY <2>1, <2>2
<1>. QED  BY <1>2, <1>4, <1>5, <1>6, <1>7, <1>8 DEF Moves

LEMMA KeptIsConfirmed ==
  ASSUME Types, Kept
  PROVE  ConfirmedIsKept
<1>. SUFFICES ASSUME NEW r \in confirmed, NEW q \in confirmed, ~Newer(r.ver, q.ver)
              PROVE  IsPrefix(r.bytes, q.bytes)
  BY DEF ConfirmedIsKept
<1>1. r.bytes \in Seq(Update) /\ q.bytes \in Seq(Update) /\ Counted(r) /\ Counted(q)
  BY DEF Kept, Types, CopyTypes, Value
<1>2. Len(r.bytes) <= Len(q.bytes) /\ Len(r.bytes) \in Nat /\ Len(q.bytes) \in Nat
  BY <1>1 DEF Newer, Counted
<1>3. CASE IsPrefix(q.bytes, r.bytes)
  <2>1. q.bytes = r.bytes
    BY <1>1, <1>2, <1>3, PrefixFacts
  <2>. QED  BY <1>1, <2>1, PrefixFacts
<1>. QED  BY <1>3 DEF Kept

\* A swarm that starts as run_local starts it, with a read quorum of a majority:
\* as long as no owner is faulty or has derived another epoch, whatever is lost,
\* dies or crashes, of two values confirmed to readers the older is the beginning
\* of the newer, and no version is confirmed with two contents.
THEOREM ConfirmedValuesAreKept ==
  ASSUME Bootstrapped, 2 * Quorum > Cardinality(Owner)
  PROVE  Spec => [](Steady => ConfirmedIsKept)
<1>1. Init => Numbered /\ Kept
  <2>. SUFFICES ASSUME Init PROVE Numbered /\ Kept
    OBVIOUS
  <2>1. Numbered
    BY DEF Init, Numbered, Epoch
  <2>2. Counted(Seeded)
    <3>1. Len(<<>>) = 0
      OBVIOUS
    <3>. QED  BY <3>1 DEF Counted, Seeded
  <2>. QED  BY <2>1, <2>2 DEF Init, Kept
<1>2. Types /\ Types' /\ Numbered /\ (Steady => Kept) /\ [Next]_vars => (Steady => Kept)'
  BY KeptStep
<1>. QED  BY <1>1, <1>2, NumberedStep, KeptIsConfirmed, TypesHold, PTL DEF Spec
=============================================================================
