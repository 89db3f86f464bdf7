-------------------------- MODULE MembershipProofs --------------------------
(***************************************************************************)
(* What holds of Membership for every number of owners, trackers, lives    *)
(* and ticks.                                                              *)
(***************************************************************************)
EXTENDS Membership, TLAPS

-----------------------------------------------------------------------------
\* Arithmetic.

LEMMA Constants ==
  /\ NumSeeds \in Nat \ {0} /\ 1 \in Seed
  /\ Ttl \in Nat \ {0} /\ BeatEvery \in Nat \ {0} /\ PollEvery \in Nat \ {0}
  /\ Grace \in Nat \ {0} /\ MinInterval \in Nat \ {0} /\ MaxPeers \in Nat \ {0}
  /\ MaxSession \in Nat \ {0} /\ MaxOutage \in Nat /\ MaxFailures \in Nat
  /\ MaxEvents \in Nat /\ MaxImports \in Nat
BY ConstantAssumption DEF Seed

LEMMA MaxOfTwo ==
  ASSUME NEW a \in Int, NEW b \in Int
  PROVE  Max({a, b}) = IF a >= b THEN a ELSE b
<1>1. \E x \in {a, b} : \A y \in {a, b} : x >= y
  OBVIOUS
<1>2. Max({a, b}) \in {a, b} /\ \A y \in {a, b} : Max({a, b}) >= y
  BY <1>1 DEF Max
<1>. QED  BY <1>2

\* The stamps of a session are three.
LEMMA Stamps ==
  /\ \A s \in Nat : SessionOf(3 * s) = s /\ SessionOf(3 * s + 1) = s /\ SessionOf(3 * s + 2) = s
  /\ \A m \in Nat : \A x \in 0 .. 3 * m + 2 : SessionOf(x) \in 0 .. m
BY DEF SessionOf

LEMMA CappedType ==
  ASSUME NEW bound \in Nat, NEW n \in 0 .. bound
  PROVE  Capped(n, bound) \in 0 .. bound
BY DEF Capped

-----------------------------------------------------------------------------
\* Types.

Entry == EntryOf({"peer", "tomb", "expelled"}, Ttl - 1) \cup {NoEntry}
Record == EpochRecord \cup {NoEpoch}

OwnersOK ==
  /\ proc \in [Peer -> {"up", "paused", "leaving", "down"}]
  /\ session \in [Peer -> 1 .. MaxSession]
  /\ at \in [Peer -> 0 .. NumSeeds]
  /\ beatAge \in [Peer -> 0 .. BeatEvery - 1]
  /\ goodbye \in [Peer -> 0 .. NumSeeds + 1]
  /\ hung \in [Peer -> 0 .. NumSeeds]
  /\ view \in [Peer -> Record]
  /\ \A p \in Peer : /\ goodbye[p] # 0 <=> proc[p] = "leaving"
                     /\ proc[p] = "down" => at[p] = 0 /\ hung[p] = 0 /\ view[p] = NoEpoch

TrackersOK ==
  /\ down \in [Seed -> -1 .. MaxOutage]
  /\ dir \in [Seed -> [Peer -> Entry]]
  /\ cached \in [Seed -> Record]
  /\ enrolled \in [Seed -> SUBSET Peer]
  /\ \A t \in Seed : ~Up(t) => dir[t] = [p \in Peer |-> NoEntry] /\ cached[t] = NoEpoch

SchedulerOK ==
  /\ sched \in {"up", "put", "down"}
  /\ pollAge \in 0 .. PollEvery
  /\ seen \in [Peer -> EntryOf({"peer"}, Grace) \cup {NoEntry}]
  /\ current \subseteq Peer \X (0 .. MaxSession)
  /\ bumpAge \in 0 .. MinInterval
  /\ epoch \in Record
  /\ floor \in Nat /\ saved \in Nat
  /\ sched # "down" => floor > epoch.num

HistoryOK ==
  /\ issues \in Nat
  /\ spent \in [failures : 0 .. MaxFailures, events : Nat, imports : Nat]

Types == OwnersOK /\ TrackersOK /\ SchedulerOK /\ HistoryOK

LEMMA NoEntryType == NoEntry \in Entry /\ NoEntry.kind = "none" /\ NoEntry.stamp = 0
BY DEF Entry, NoEntry

LEMMA RecordType ==
  /\ NoEpoch \in Record
  /\ \A r \in Record : r.num \in Nat \cup {-1} /\ r.issue \in Nat /\ (r = NoEpoch \/ r.num \in Nat)
BY DEF Record, EpochRecord, NoEpoch

LEMMA OwnersStep ==
  ASSUME Types, [Next]_vars
  PROVE  OwnersOK'
<1>. USE Constants DEF Types, OwnersOK
<1>1. CASE UNCHANGED <<owners, view>>
  BY <1>1 DEF owners
<1>2. CASE Tick
  <2>1. at' \in [Peer -> 0 .. NumSeeds] /\ \A p \in Peer : proc[p] # "up" => at'[p] = at[p]
    BY <1>2 DEF Tick, RoundDue
  <2>2. beatAge' \in [Peer -> 0 .. BeatEvery - 1]
    <3>1. \A p \in Peer : Running(p) /\ at[p] = 0 /\ ~RoundDue(p) => beatAge[p] + 1 \in 0 .. BeatEvery - 1
      BY DEF RoundDue
    <3>2. 0 \in 0 .. BeatEvery - 1
      OBVIOUS
    <3>. QED  BY <1>2, <3>1, <3>2 DEF Tick
  <2>. QED  BY <1>2, <2>1, <2>2 DEF Tick
<1>3. ASSUME NEW p \in Peer, Beat(p)  PROVE OwnersOK'
  <2>1. NextSeed(at[p]) \in 0 .. NumSeeds
    BY <1>3 DEF NextSeed, Beat
  <2>. QED  BY <1>3, <2>1 DEF Beat, Running
<1>4. ASSUME NEW p \in Peer, Pause(p) \/ Resume(p)  PROVE OwnersOK'
  BY <1>4 DEF Pause, Resume
<1>5. ASSUME NEW p \in Peer, Leave(p)  PROVE OwnersOK'
  BY <1>5 DEF Leave
<1>6. ASSUME NEW p \in Peer, SayGoodbye(p)  PROVE OwnersOK'
  BY <1>6 DEF SayGoodbye, Seed
<1>7. ASSUME NEW p \in Peer, GoDown(p)  PROVE OwnersOK'
  <2>1. 0 \in 0 .. BeatEvery - 1 /\ NoEpoch \in Record
    BY RecordType
  <2>. QED  BY <1>7, <2>1 DEF GoDown
<1>8. ASSUME NEW p \in Peer, Start(p)  PROVE OwnersOK'
  BY <1>8 DEF Start
<1>9. ASSUME NEW p \in Peer, AdoptEpoch(p)  PROVE OwnersOK'
  BY <1>9 DEF AdoptEpoch, SchedulerOK, owners
<1>10. ASSUME NEW t \in Seed, TrackerStep(t)  PROVE UNCHANGED <<owners, view>>
  BY <1>10 DEF TrackerStep, TrackerFails, TrackerStarts, Import, Expel, Enroll
<1>11. CASE SchedulerStep
  <2>1. UNCHANGED <<owners, view>>
    BY <1>11 DEF SchedulerStep, Poll, PollFails, PutEpoch, Checkpoint, SchedulerEnds,
                 SchedulerStarts
  <2>. QED  BY <1>1, <2>1
<1>12. ASSUME NEW p \in Peer, OwnerStep(p)  PROVE OwnersOK'
  BY <1>3, <1>4, <1>5, <1>6, <1>7, <1>8, <1>9, <1>12 DEF OwnerStep, Exit, Crash
<1>13. CASE UNCHANGED vars
  BY <1>1, <1>13 DEF vars
<1>. QED  BY <1>1, <1>2, <1>10, <1>11, <1>12, <1>13 DEF Next

\* An entry that a tracker takes.
LEMMA PutKeeps ==
  ASSUME TrackersOK, NEW t \in Seed, Up(t), NEW p \in Peer, NEW entry \in Entry,
         Put(t, p, entry), UNCHANGED <<down, cached, enrolled>>
  PROVE  TrackersOK'
BY DEF TrackersOK, Put, Up

LEMMA RegisterKeeps ==
  ASSUME TrackersOK, NEW t \in Seed, Up(t), NEW p \in Peer, NEW stamp \in 0 .. 3 * MaxSession + 2,
         NEW fresh, Register(t, p, stamp, fresh), UNCHANGED <<down, cached, enrolled>>
  PROVE  TrackersOK'
<1>1. CASE Admits(t, p, stamp, fresh)
  <2>1. Put(t, p, [kind |-> "peer", stamp |-> stamp, age |-> 0])
    BY <1>1 DEF Register
  <2>2. [kind |-> "peer", stamp |-> stamp, age |-> 0] \in Entry
    BY Constants DEF Entry, EntryOf
  <2>. QED  BY <2>1, <2>2, PutKeeps
<1>2. CASE ~Admits(t, p, stamp, fresh)
  BY <1>2 DEF Register, TrackersOK, Up
<1>. QED  BY <1>1, <1>2

LEMMA TrackersStep ==
  ASSUME Types, [Next]_vars
  PROVE  TrackersOK'
<1>. USE Constants DEF Types
<1>1. CASE UNCHANGED trackers
  BY <1>1 DEF trackers, TrackersOK, Up
<1>2. CASE Tick
  <2>1. \A t \in Seed, p \in Peer :
          dir'[t][p] \in Entry /\ (dir[t][p] = NoEntry => dir'[t][p] = NoEntry)
    <3>1. ASSUME NEW t \in Seed, NEW p \in Peer, dir[t][p] # NoEntry, dir[t][p].age # Ttl - 1
          PROVE  [dir[t][p] EXCEPT !.age = dir[t][p].age + 1] \in Entry
      <4>. DEFINE e == dir[t][p]
      <4>1. e \in EntryOf({"peer", "tomb", "expelled"}, Ttl - 1)
        BY <3>1 DEF TrackersOK, Entry
      <4>2. e.age \in 0 .. Ttl - 1 /\ e.age # Ttl - 1
        BY <3>1, <4>1 DEF EntryOf
      <4>3. e.age + 1 \in 0 .. Ttl - 1
        BY <4>2
      <4>. HIDE DEF e
      <4>4. [e EXCEPT !.age = e.age + 1] \in EntryOf({"peer", "tomb", "expelled"}, Ttl - 1)
        BY <4>1, <4>3 DEF EntryOf
      <4>. QED  BY <4>4 DEF Entry, e
    <3>. QED  BY <1>2, <3>1, NoEntryType DEF Tick
  <2>2. dir' \in [Seed -> [Peer -> Entry]]
    BY <1>2, <2>1 DEF Tick
  <2>3. down' \in [Seed -> -1 .. MaxOutage] /\ \A t \in Seed : down[t] = -1 <=> down'[t] = -1
    BY <1>2 DEF Tick, TrackersOK, Up
  <2>4. cached' = cached /\ enrolled' = enrolled
    BY <1>2 DEF Tick
  <2>5. ASSUME NEW t \in Seed, ~Up(t)'  PROVE dir'[t] = [p \in Peer |-> NoEntry]
    <3>1. \A p \in Peer : dir[t][p] = NoEntry
      BY <2>3, <2>5 DEF TrackersOK, Up
    <3>. QED  BY <1>2, <2>1, <3>1 DEF Tick
  <2>. QED  BY <2>2, <2>3, <2>4, <2>5 DEF TrackersOK, Up
<1>3. ASSUME NEW p \in Peer, Beat(p)  PROVE TrackersOK'
  <2>1. UNCHANGED <<down, cached, enrolled>> /\ at[p] \in Seed
    BY <1>3 DEF Beat, OwnersOK, Seed
  <2>2. CASE Up(at[p])
    <3>1. Registered(p) \in 0 .. 3 * MaxSession + 2
      BY DEF Registered, OwnersOK
    <3>. QED  BY <1>3, <2>1, <2>2, <3>1, RegisterKeeps DEF Beat
  <2>3. CASE ~Up(at[p])
    BY <1>1, <1>3, <2>1, <2>3 DEF Beat, trackers
  <2>. QED  BY <2>2, <2>3
<1>4. ASSUME NEW p \in Peer, SayGoodbye(p)  PROVE TrackersOK'
  <2>1. UNCHANGED <<down, cached, enrolled>> /\ goodbye[p] \in Seed
    BY <1>4 DEF SayGoodbye
  <2>2. CASE UNCHANGED dir
    BY <1>1, <2>1, <2>2 DEF trackers
  <2>3. CASE /\ Up(goodbye[p])
             /\ Put(goodbye[p], p, [kind |-> "tomb", stamp |-> Departed(p), age |-> 0])
    <3>1. [kind |-> "tomb", stamp |-> Departed(p), age |-> 0] \in Entry
      BY DEF Departed, OwnersOK, Entry, EntryOf
    <3>. QED  BY <2>1, <2>3, <3>1, PutKeeps
  <2>. QED  BY <1>4, <2>2, <2>3 DEF SayGoodbye, Deregister
<1>5. ASSUME NEW t \in Seed, NEW p \in Peer, Import(t, p)  PROVE TrackersOK'
  <2>1. PICK s \in 1 .. session[p] : Register(t, p, 3 * s, FALSE)
    BY <1>5 DEF Import
  <2>2. 3 * s \in 0 .. 3 * MaxSession + 2
    BY DEF OwnersOK
  <2>3. Up(t) /\ UNCHANGED <<down, cached, enrolled>>
    BY <1>5 DEF Import
  <2>. QED  BY <2>1, <2>2, <2>3, RegisterKeeps
<1>6. ASSUME NEW t \in Seed, NEW p \in Peer, Expel(t, p)  PROVE TrackersOK'
  <2>1. [kind |-> "expelled", stamp |-> dir[t][p].stamp, age |-> 0] \in Entry
    <3>1. dir[t][p] \in Entry
      BY DEF TrackersOK
    <3>2. dir[t][p].stamp \in 0 .. 3 * MaxSession + 2
      BY <3>1 DEF Entry, EntryOf, NoEntry
    <3>. QED  BY <3>2 DEF Entry, EntryOf
  <2>2. dir' = dir \/ Put(t, p, [kind |-> "expelled", stamp |-> dir[t][p].stamp, age |-> 0])
    BY <1>6 DEF Expel
  <2>3. dir' \in [Seed -> [Peer -> Entry]] /\ \A u \in Seed : u # t => dir'[u] = dir[u]
    <3>1. CASE dir' = dir
      BY <3>1 DEF TrackersOK
    <3>2. ASSUME NEW e \in Entry, Put(t, p, e)
          PROVE  dir' \in [Seed -> [Peer -> Entry]] /\ \A u \in Seed : u # t => dir'[u] = dir[u]
      BY <3>2 DEF Put, TrackersOK
    <3>. QED  BY <2>1, <2>2, <3>1, <3>2
  <2>4. Up(t) /\ enrolled' \in [Seed -> SUBSET Peer] /\ UNCHANGED <<down, cached>>
    BY <1>6 DEF Expel, TrackersOK
  <2>. QED  BY <2>3, <2>4 DEF TrackersOK, Up
<1>7. ASSUME NEW t \in Seed, NEW p \in Peer, Enroll(t, p)  PROVE TrackersOK'
  BY <1>7 DEF Enroll, TrackersOK, Up
<1>8. ASSUME NEW t \in Seed, TrackerFails(t) \/ TrackerStarts(t)  PROVE TrackersOK'
  <2>1. CASE TrackerFails(t)
    BY <2>1, NoEntryType, RecordType DEF TrackerFails, TrackersOK, Up
  <2>2. CASE TrackerStarts(t)
    BY <2>2 DEF TrackerStarts, TrackersOK, Up
  <2>. QED  BY <1>8, <2>1, <2>2
<1>9. CASE PutEpoch
  BY <1>9 DEF PutEpoch, TrackersOK, SchedulerOK, Up
<1>10. ASSUME NEW p \in Peer, OwnerStep(p)  PROVE TrackersOK'
  <2>1. CASE Pause(p) \/ Resume(p) \/ Leave(p) \/ GoDown(p) \/ Start(p) \/ AdoptEpoch(p)
    BY <1>1, <2>1 DEF Pause, Resume, Leave, GoDown, Start, AdoptEpoch
  <2>. QED  BY <1>3, <1>4, <1>10, <2>1 DEF OwnerStep, Exit, Crash
<1>11. CASE SchedulerStep
  <2>1. CASE Poll \/ PollFails \/ Checkpoint \/ SchedulerEnds \/ SchedulerStarts
    BY <1>1, <2>1 DEF Poll, PollFails, Checkpoint, SchedulerEnds, SchedulerStarts
  <2>. QED  BY <1>9, <1>11, <2>1 DEF SchedulerStep
<1>12. ASSUME NEW t \in Seed, TrackerStep(t)  PROVE TrackersOK'
  BY <1>5, <1>6, <1>7, <1>8, <1>12 DEF TrackerStep
<1>13. CASE UNCHANGED vars
  BY <1>1, <1>13 DEF vars, trackers
<1>. QED  BY <1>2, <1>10, <1>11, <1>12, <1>13 DEF Next

\* What the scheduler has seen, after a round of polling and after a tick.
Seen == EntryOf({"peer"}, Grace) \cup {NoEntry}

LEMMA ObservedType ==
  ASSUME Types
  PROVE  Observed \in [Peer -> Seen] /\ Signature(Observed) \subseteq Peer \X (0 .. MaxSession)
<1>. USE Constants
<1>1. Observed \in [Peer -> Seen]
  <2>1. ASSUME NEW p \in Peer, dir[1][p].kind = "peer"  PROVE [dir[1][p] EXCEPT !.age = 0] \in Seen
    <3>1. dir[1][p] \in Entry
      BY DEF Types, TrackersOK
    <3>2. dir[1][p] \in EntryOf({"peer", "tomb", "expelled"}, Ttl - 1)
      BY <2>1, <3>1, NoEntryType DEF Entry
    <3>. QED  BY <2>1, <3>2 DEF EntryOf, Seen
  <2>2. NoEntry \in Seen /\ \A p \in Peer : seen[p] \in Seen
    BY DEF Types, SchedulerOK, Seen
  <2>. QED  BY <2>1, <2>2 DEF Observed
<1>2. ASSUME NEW p \in Peer, Observed[p] # NoEntry
      PROVE  SessionOf(Observed[p].stamp) \in 0 .. MaxSession
  <2>1. Observed[p] \in EntryOf({"peer"}, Grace)
    BY <1>1, <1>2 DEF Seen
  <2>2. Observed[p].stamp \in 0 .. 3 * MaxSession + 2
    BY <2>1 DEF EntryOf
  <2>. QED  BY <2>2, Stamps
<1>. QED  BY <1>1, <1>2 DEF Signature

\* The record that a poll signs.
LEMMA SignedType ==
  ASSUME Types
  PROVE  /\ NextNumber \in Nat /\ NextNumber >= floor /\ NextNumber > epoch.num
         /\ [num |-> NextNumber, issue |-> issues + 1, owners |-> Signature(Observed)] \in Record
<1>1. floor \in Nat /\ epoch.num \in Int /\ issues \in Nat
  BY RecordType DEF Types, SchedulerOK, HistoryOK
<1>2. NextNumber = IF floor >= epoch.num + 1 THEN floor ELSE epoch.num + 1
  BY <1>1, MaxOfTwo DEF NextNumber
<1>3. NextNumber \in Nat /\ NextNumber >= floor /\ NextNumber > epoch.num
  BY <1>1, <1>2, RecordType DEF Types, SchedulerOK
<1>. QED  BY <1>1, <1>3, ObservedType DEF Record, EpochRecord

LEMMA SchedulerStays ==
  ASSUME Types, UNCHANGED scheduler
  PROVE  SchedulerOK'
BY DEF Types, SchedulerOK, scheduler, manager

LEMMA SchedulerKeeps ==
  ASSUME Types, [Next]_vars
  PROVE  SchedulerOK'
<1>. USE Constants
<1>1. CASE Tick
  <2>1. seen' \in [Peer -> Seen]
    <3>1. ASSUME NEW p \in Peer, seen[p] # NoEntry
          PROVE  [seen[p] EXCEPT !.age = Capped(seen[p].age, Grace)] \in Seen
      <4>1. seen[p] \in EntryOf({"peer"}, Grace)
        BY <3>1 DEF Types, SchedulerOK
      <4>2. Capped(seen[p].age, Grace) \in 0 .. Grace
        BY <4>1, CappedType DEF EntryOf
      <4>. QED  BY <4>1, <4>2 DEF EntryOf, Seen
    <3>. QED  BY <1>1, <3>1 DEF Tick, Seen
  <2>2. pollAge' \in 0 .. PollEvery /\ bumpAge' \in 0 .. MinInterval
    BY <1>1, CappedType DEF Tick, Types, SchedulerOK
  <2>. QED  BY <1>1, <2>1, <2>2 DEF Tick, Types, SchedulerOK, Seen
<1>2. CASE Poll
  <2>1. seen' \in [Peer -> Seen] /\ pollAge' = 0 /\ saved' = saved
    BY <1>2, ObservedType DEF Poll
  <2>2. CASE Due(Signature(Observed))
    <3>1. /\ current' = Signature(Observed) /\ bumpAge' = 0 /\ sched' = "put"
          /\ epoch' = [num |-> NextNumber, issue |-> issues + 1, owners |-> Signature(Observed)]
          /\ floor' = NextNumber + 1
      BY <1>2, <2>2 DEF Poll
    <3>2. epoch' \in Record /\ floor' \in Nat /\ floor' > epoch'.num
      BY <3>1, SignedType
    <3>. QED  BY <2>1, <3>1, <3>2, ObservedType DEF Types, SchedulerOK, Seen
  <2>3. CASE ~Due(Signature(Observed))
    <3>1. UNCHANGED <<current, bumpAge, epoch, floor, sched>>
      BY <1>2, <2>3 DEF Poll
    <3>. QED  BY <2>1, <3>1 DEF Types, SchedulerOK, Seen
  <2>. QED  BY <2>2, <2>3
<1>3. CASE PollFails \/ PutEpoch
  BY <1>3 DEF PollFails, PutEpoch, manager, Types, SchedulerOK
<1>4. CASE Checkpoint
  BY <1>4, RecordType DEF Checkpoint, manager, Types, SchedulerOK
<1>5. CASE SchedulerEnds
  <2>1. epoch.num + 1 \in Nat
    BY RecordType DEF Types, SchedulerOK
  <2>. QED  BY <1>5, <2>1, RecordType DEF SchedulerEnds, Types, SchedulerOK
<1>6. CASE SchedulerStarts
  <2>1. Resumed \in Record
    BY RecordType DEF Resumed, Types, TrackersOK
  <2>2. Resumed.num + 1 \in Nat /\ saved \in Nat
    BY <2>1, RecordType DEF Types, SchedulerOK
  <2>3. floor' \in Nat /\ floor' > epoch'.num /\ epoch' \in Record
    <3>1. epoch' = Resumed /\ floor' = Max({saved, Resumed.num + 1})
      BY <1>6 DEF SchedulerStarts
    <3>2. floor' = IF saved >= Resumed.num + 1 THEN saved ELSE Resumed.num + 1
      BY <2>2, <3>1, MaxOfTwo
    <3>. QED  BY <2>1, <2>2, <3>1, <3>2, RecordType
  <2>. QED  BY <1>6, <2>3 DEF SchedulerStarts, manager, Types, SchedulerOK
<1>7. ASSUME NEW p \in Peer, OwnerStep(p)  PROVE UNCHANGED scheduler
  BY <1>7 DEF OwnerStep, Beat, Pause, Resume, Leave, SayGoodbye, Exit, Crash, GoDown, Start,
              AdoptEpoch
<1>8. ASSUME NEW t \in Seed, TrackerStep(t)  PROVE UNCHANGED scheduler
  BY <1>8 DEF TrackerStep, TrackerFails, TrackerStarts, Import, Expel, Enroll
<1>9. CASE UNCHANGED vars
  <2>1. UNCHANGED scheduler
    BY <1>9 DEF vars
  <2>. QED  BY <2>1, SchedulerStays
<1>. QED
  BY <1>1, <1>2, <1>3, <1>4, <1>5, <1>6, <1>7, <1>8, <1>9, SchedulerStays DEF Next, SchedulerStep

LEMMA OnlyPollsSign ==
  ASSUME [Next]_vars
  PROVE  issues' = issues \/ Poll
<1>1. CASE Tick
  BY <1>1 DEF Tick
<1>2. ASSUME NEW p \in Peer, OwnerStep(p)  PROVE issues' = issues
  BY <1>2 DEF OwnerStep, Beat, Pause, Resume, Leave, SayGoodbye, Exit, Crash, GoDown, Start,
              AdoptEpoch, history
<1>3. ASSUME NEW t \in Seed, TrackerStep(t)  PROVE issues' = issues
  BY <1>3 DEF TrackerStep, TrackerFails, TrackerStarts, Import, Expel, Enroll, history
<1>4. CASE PollFails \/ PutEpoch \/ Checkpoint \/ SchedulerEnds \/ SchedulerStarts
  BY <1>4 DEF PollFails, PutEpoch, Checkpoint, SchedulerEnds, SchedulerStarts, history
<1>5. CASE UNCHANGED vars
  BY <1>5 DEF vars, history
<1>. QED  BY <1>1, <1>2, <1>3, <1>4, <1>5 DEF Next, SchedulerStep

LEMMA Spends ==
  ASSUME [Next]_vars
  PROVE  \/ spent' = spent \/ Event \/ Failure
         \/ spent' = [spent EXCEPT !.imports = spent.imports + 1]
<1>1. CASE Tick
  BY <1>1 DEF Tick
<1>2. ASSUME NEW p \in Peer, OwnerStep(p)  PROVE spent' = spent \/ Event
  BY <1>2 DEF OwnerStep, Beat, Pause, Resume, Leave, SayGoodbye, Exit, Crash, Start, AdoptEpoch
<1>3. ASSUME NEW t \in Seed, TrackerStep(t)
      PROVE  \/ spent' = spent \/ Event \/ Failure
             \/ spent' = [spent EXCEPT !.imports = spent.imports + 1]
  BY <1>3 DEF TrackerStep, TrackerFails, TrackerStarts, Import, Expel, Enroll
<1>4. CASE SchedulerStep
  BY <1>4 DEF SchedulerStep, Poll, PollFails, PutEpoch, Checkpoint, SchedulerEnds, SchedulerStarts
<1>5. CASE UNCHANGED vars
  BY <1>5 DEF vars
<1>. QED  BY <1>1, <1>2, <1>3, <1>4, <1>5 DEF Next

LEMMA HistoryKeeps ==
  ASSUME Types, [Next]_vars
  PROVE  HistoryOK'
<1>1. issues' \in Nat
  <2>1. issues' \in {issues, issues + 1}
    BY OnlyPollsSign DEF Poll
  <2>. QED  BY <2>1 DEF Types, HistoryOK
<1>2. \/ spent' = spent \/ Event \/ Failure
      \/ spent' = [spent EXCEPT !.imports = spent.imports + 1]
  BY Spends
<1>3. spent' \in [failures : 0 .. MaxFailures, events : Nat, imports : Nat]
  <2>1. spent \in [failures : 0 .. MaxFailures, events : Nat, imports : Nat]
    BY DEF Types, HistoryOK
  <2>2. CASE Failure
    <3>1. spent.failures + 1 \in 0 .. MaxFailures /\ spent.events + 1 \in Nat
      BY <2>1, <2>2, Constants DEF Failure
    <3>. QED  BY <2>1, <2>2, <3>1 DEF Failure
  <2>3. CASE Event \/ spent' = [spent EXCEPT !.imports = spent.imports + 1]
    <3>1. spent.events + 1 \in Nat /\ spent.imports + 1 \in Nat
      BY <2>1
    <3>. QED  BY <2>1, <2>3, <3>1 DEF Event
  <2>. QED  BY <1>2, <2>1, <2>2, <2>3
<1>. QED  BY <1>1, <1>3 DEF HistoryOK

LEMMA InitTypes == Init => Types
<1>. SUFFICES ASSUME Init  PROVE Types
  OBVIOUS
<1>. USE Constants, NoEntryType, RecordType
<1>1. 1 \in 1 .. MaxSession
  OBVIOUS
<1>2. OwnersOK
  BY <1>1 DEF Init, OwnersOK
<1>3. TrackersOK
  BY DEF Init, TrackersOK, Up
<1>4. SchedulerOK
  BY DEF Init, SchedulerOK, NoEpoch
<1>5. HistoryOK
  BY DEF Init, HistoryOK
<1>. QED  BY <1>2, <1>3, <1>4, <1>5 DEF Types

LEMMA TypesAlways == Spec => []Types
<1>1. Types /\ [Next]_vars => Types'
  BY OwnersStep, TrackersStep, SchedulerKeeps, HistoryKeeps DEF Types
<1>. QED  BY <1>1, InitTypes, PTL DEF Spec

\* Types and ranges; a process that is down has lost what it knew, one has said
\* goodbye only when it is leaving, and the scheduler's floor is above its epoch
\* (EpochManager, TrackerServer, start_tracker_heartbeat).
THEOREM TypeCorrect == Spec => []TypeOK
<1>1. Types => TypeOK
  BY DEF Types, OwnersOK, TrackersOK, SchedulerOK, HistoryOK, TypeOK, Record, Entry
<1>. QED  BY <1>1, TypesAlways, PTL

-----------------------------------------------------------------------------
\* Departures.  The first tracker only knows registrations that were signed before
\* their session's departure; what it knows of a departure, with its age, is the
\* tombstone that it keeps.

BeforeGoodbye == \A p \in Peer : goodbye[p] # 0 /\ at[p] = 1 => hung[p] = 1

\* e, if it is a registration, was signed before a departure.
Early(e) == e.kind = "peer" => \E s \in Nat : e.stamp = 3 * s

Tombs ==
  \A p \in Peer : left[p] # NotLeft =>
    dir[1][p] = [kind |-> "tomb", stamp |-> 3 * left[p].session + 1, age |-> left[p].age]

Listing ==
  /\ left \in [Peer -> [session : Nat, age : Nat]]
  /\ \A p \in Peer : Early(dir[1][p])
  /\ Tombs

SeenEarly == \A p \in Peer : Early(seen[p])

LEMMA BeforeGoodbyeKeeps ==
  ASSUME Types, BeforeGoodbye, [Next]_vars
  PROVE  BeforeGoodbye'
<1>. USE DEF Types, OwnersOK, BeforeGoodbye
<1>1. CASE UNCHANGED owners
  BY <1>1 DEF owners
<1>2. CASE Tick
  BY <1>2 DEF Tick
<1>3. ASSUME NEW p \in Peer, Beat(p)  PROVE BeforeGoodbye'
  <2>1. at[p] \in Nat \ {0} /\ NextSeed(at[p]) # 1
    BY <1>3, Constants DEF Beat, NextSeed
  <2>. QED  BY <1>3, <2>1 DEF Beat
<1>4. ASSUME NEW p \in Peer, Pause(p) \/ Resume(p) \/ Leave(p) \/ GoDown(p) \/ Start(p)
      PROVE  BeforeGoodbye'
  BY <1>4 DEF Pause, Resume, Leave, GoDown, Start
<1>5. ASSUME NEW p \in Peer, SayGoodbye(p)  PROVE BeforeGoodbye'
  BY <1>5 DEF SayGoodbye
<1>6. ASSUME NEW p \in Peer, OwnerStep(p)  PROVE BeforeGoodbye'
  <2>1. CASE AdoptEpoch(p)
    BY <1>1, <2>1 DEF AdoptEpoch
  <2>. QED  BY <1>3, <1>4, <1>5, <1>6, <2>1 DEF OwnerStep, Exit, Crash
<1>7. ASSUME NEW t \in Seed, TrackerStep(t)  PROVE UNCHANGED owners
  BY <1>7 DEF TrackerStep, TrackerFails, TrackerStarts, Import, Expel, Enroll
<1>8. CASE SchedulerStep
  <2>1. UNCHANGED owners
    BY <1>8 DEF SchedulerStep, Poll, PollFails, PutEpoch, Checkpoint, SchedulerEnds, SchedulerStarts
  <2>. QED  BY <1>1, <2>1
<1>9. CASE UNCHANGED vars
  BY <1>1, <1>9 DEF vars
<1>. QED  BY <1>1, <1>2, <1>6, <1>7, <1>8, <1>9 DEF Next

\* Nothing changes at the first tracker.
LEMMA ListingStays ==
  ASSUME Listing, dir'[1] = dir[1], left' = left
  PROVE  Listing'
<1>1. ASSUME NEW p \in Peer  PROVE Early(dir'[1][p])
  BY DEF Listing
<1>2. Tombs'
  BY DEF Listing, Tombs
<1>. QED  BY <1>1, <1>2 DEF Listing, Early

\* Something changes for one owner.
LEMMA ListingOf ==
  ASSUME Listing, NEW p \in Peer,
         left' \in [Peer -> [session : Nat, age : Nat]],
         \A q \in Peer \ {p} : dir'[1][q] = dir[1][q] /\ left'[q] = left[q],
         Early(dir'[1][p]),
         left'[p] # NotLeft =>
           dir'[1][p] = [kind |-> "tomb", stamp |-> 3 * left'[p].session + 1, age |-> left'[p].age]
  PROVE  Listing'
<1>1. ASSUME NEW q \in Peer  PROVE Early(dir'[1][q])
  BY DEF Listing
<1>2. ASSUME NEW q \in Peer, left'[q] # NotLeft
      PROVE  dir'[1][q] = [kind |-> "tomb", stamp |-> 3 * left'[q].session + 1, age |-> left'[q].age]
  <2>1. CASE q = p
    BY <1>2, <2>1
  <2>2. CASE q # p
    <3>1. dir'[1][q] = dir[1][q] /\ left'[q] = left[q]
      BY <2>2
    <3>. QED  BY <1>2, <3>1 DEF Listing, Tombs
  <2>. QED  BY <2>1, <2>2
<1>. QED  BY <1>1, <1>2 DEF Listing, Tombs, Early

\* A record that another session's departure does not keep out ends that departure.
LEMMA ListingTakes ==
  ASSUME Types, Listing, NEW t \in Seed, NEW p \in Peer, NEW stamp \in Nat, NEW fresh \in BOOLEAN,
         NEW s \in Nat, t = 1 => stamp = 3 * s,
         Register(t, p, stamp, fresh)
  PROVE  Listing'
<1>1. CASE ~Admits(t, p, stamp, fresh)
  BY <1>1, ListingStays DEF Register
<1>2. CASE t # 1 /\ Admits(t, p, stamp, fresh)
  <2>1. dir'[1] = dir[1] /\ left' = left
    BY <1>2, Constants DEF Register, Put, Types, TrackersOK
  <2>. QED  BY <2>1, ListingStays
<1>3. CASE t = 1 /\ Admits(t, p, stamp, fresh)
  <2>. DEFINE entry == [kind |-> "peer", stamp |-> stamp, age |-> 0]
  <2>1. dir'[1][p] = entry /\ \A q \in Peer \ {p} : dir'[1][q] = dir[1][q]
    BY <1>3, Constants DEF Register, Put, Types, TrackersOK
  <2>2. SessionOf(stamp) = s /\ stamp = 3 * s
    BY <1>3, Stamps
  <2>3. left' = IF SessionOf(stamp) <= left[p].session THEN left
                ELSE [left EXCEPT ![p] = NotLeft]
    BY <1>3 DEF Register
  <2>4. CASE left[p] = NotLeft
    <3>1. left' \in [Peer -> [session : Nat, age : Nat]] /\ \A q \in Peer : left'[q] = left[q]
      BY <2>3, <2>4 DEF Listing, NotLeft
    <3>2. Early(dir'[1][p])
      BY <2>1, <2>2 DEF Early
    <3>. QED  BY <2>1, <2>4, <3>1, <3>2, ListingOf
  <2>5. CASE left[p] # NotLeft
    <3>1. /\ dir[1][p] = [kind |-> "tomb", stamp |-> 3 * left[p].session + 1, age |-> left[p].age]
          /\ left[p].session \in Nat
      BY <2>5 DEF Listing, Tombs
    <3>2. dir[1][p] # NoEntry /\ dir[1][p].stamp = 3 * left[p].session + 1
      BY <3>1 DEF NoEntry
    <3>3. stamp > 3 * left[p].session + 1 \/ stamp = 3 * left[p].session + 1
      BY <1>3, <3>2 DEF Admits
    <3>4. ~(s <= left[p].session)
      BY <2>2, <3>1, <3>3
    <3>5. left' = [left EXCEPT ![p] = NotLeft]
      BY <2>2, <2>3, <3>4
    <3>6. left' \in [Peer -> [session : Nat, age : Nat]]
      BY <3>5 DEF Listing, NotLeft
    <3>7. left'[p] = NotLeft /\ \A q \in Peer \ {p} : left'[q] = left[q]
      BY <3>5 DEF Listing
    <3>8. Early(dir'[1][p])
      BY <2>1, <2>2 DEF Early
    <3>. QED  BY <2>1, <3>6, <3>7, <3>8, ListingOf
  <2>. QED  BY <2>4, <2>5
<1>. QED  BY <1>1, <1>2, <1>3

LEMMA ListingBuries ==
  ASSUME Types, Listing, NEW t \in Seed, NEW p \in Peer, Deregister(t, p, Departed(p))
  PROVE  Listing'
<1>1. CASE UNCHANGED <<dir, left>>
  BY <1>1, ListingStays
<1>2. CASE /\ Put(t, p, [kind |-> "tomb", stamp |-> Departed(p), age |-> 0])
           /\ left' = IF t = 1
                  THEN [left EXCEPT ![p] = [session |-> SessionOf(Departed(p)), age |-> 0]]
                  ELSE left
  <2>1. CASE t # 1
    <3>1. dir'[1] = dir[1] /\ left' = left
      BY <1>2, <2>1, Constants DEF Put, Types, TrackersOK
    <3>. QED  BY <3>1, ListingStays
  <2>2. CASE t = 1
    <3>1. session[p] \in Nat /\ SessionOf(Departed(p)) = session[p] /\ Departed(p) = 3 * session[p] + 1
      BY Stamps, Constants DEF Departed, Types, OwnersOK
    <3>2. left' = [left EXCEPT ![p] = [session |-> session[p], age |-> 0]]
      BY <1>2, <2>2, <3>1
    <3>3. /\ dir'[1][p] = [kind |-> "tomb", stamp |-> 3 * session[p] + 1, age |-> 0]
          /\ \A q \in Peer \ {p} : dir'[1][q] = dir[1][q]
      BY <1>2, <2>2, <3>1, Constants DEF Put, Types, TrackersOK
    <3>4. left' \in [Peer -> [session : Nat, age : Nat]]
      BY <3>1, <3>2 DEF Listing
    <3>5. /\ left'[p] = [session |-> session[p], age |-> 0]
          /\ \A q \in Peer \ {p} : left'[q] = left[q]
      BY <3>2 DEF Listing
    <3>6. left'[p].session = session[p] /\ left'[p].age = 0
      BY <3>5
    <3>7. Early(dir'[1][p])
      BY <3>3 DEF Early
    <3>. QED  BY <3>3, <3>4, <3>5, <3>6, <3>7, ListingOf
  <2>. QED  BY <2>1, <2>2
<1>. QED  BY <1>1, <1>2 DEF Deregister

\* The tombstone and what the tracker knows of the departure expire together.
LEMMA ListingAges ==
  ASSUME Types, Listing, Tick
  PROVE  Listing'
<1>1. left' \in [Peer -> [session : Nat, age : Nat]]
  <2>1. ASSUME NEW p \in Peer  PROVE [left[p] EXCEPT !.age = left[p].age + 1] \in [session : Nat, age : Nat]
    <3>1. left[p] \in [session : Nat, age : Nat]
      BY DEF Listing
    <3>. QED  BY <3>1
  <2>2. NotLeft \in [session : Nat, age : Nat]
    BY DEF NotLeft
  <2>. QED  BY <2>1, <2>2 DEF Tick
<1>2. ASSUME NEW p \in Peer
      PROVE  dir'[1][p] = NoEntry \/ dir'[1][p] = [dir[1][p] EXCEPT !.age = dir[1][p].age + 1]
  BY Constants DEF Tick
<1>3. ASSUME NEW p \in Peer  PROVE Early(dir'[1][p])
  <2>1. dir[1][p] \in Entry
    BY Constants DEF Types, TrackersOK
  <2>2. dir[1][p] \in [kind : {dir[1][p].kind}, stamp : {dir[1][p].stamp}, age : {dir[1][p].age}]
    BY <2>1 DEF Entry, EntryOf, NoEntry
  <2>3. [dir[1][p] EXCEPT !.age = dir[1][p].age + 1].kind = dir[1][p].kind
        /\ [dir[1][p] EXCEPT !.age = dir[1][p].age + 1].stamp = dir[1][p].stamp
    BY <2>2
  <2>4. Early(dir[1][p]) /\ Early(NoEntry)
    BY NoEntryType DEF Early, Listing
  <2>5. ASSUME NEW e, NEW f, Early(e), f.kind = e.kind, f.stamp = e.stamp  PROVE Early(f)
    BY <2>5 DEF Early
  <2>6. Early([dir[1][p] EXCEPT !.age = dir[1][p].age + 1])
    <3>. DEFINE f == [dir[1][p] EXCEPT !.age = dir[1][p].age + 1]
    <3>1. f.kind = dir[1][p].kind /\ f.stamp = dir[1][p].stamp
      BY <2>3
    <3>. HIDE DEF f
    <3>2. Early(f)
      BY <2>4, <2>5, <3>1
    <3>. QED  BY <3>2 DEF f
  <2>. QED  BY <1>2, <2>4, <2>6
<1>4. ASSUME NEW p \in Peer, left'[p] # NotLeft
      PROVE  dir'[1][p] = [kind |-> "tomb", stamp |-> 3 * left'[p].session + 1, age |-> left'[p].age]
  <2>1. left[p] # NotLeft /\ left[p].age # Ttl - 1 /\ left'[p] = [left[p] EXCEPT !.age = left[p].age + 1]
    BY <1>4 DEF Tick
  <2>2. left[p] \in [session : Nat, age : Nat]
    BY DEF Listing
  <2>3. left'[p].session = left[p].session /\ left'[p].age = left[p].age + 1
    BY <2>1, <2>2
  <2>4. dir[1][p] = [kind |-> "tomb", stamp |-> 3 * left[p].session + 1, age |-> left[p].age]
    BY <2>1 DEF Listing, Tombs
  <2>5. dir[1][p] # NoEntry /\ dir[1][p].age # Ttl - 1
    BY <2>1, <2>4 DEF NoEntry
  <2>6. dir'[1][p] = [dir[1][p] EXCEPT !.age = dir[1][p].age + 1]
    BY <2>5, Constants DEF Tick
  <2>. QED  BY <2>3, <2>4, <2>6
<1>. QED  BY <1>1, <1>3, <1>4 DEF Listing, Tombs, Early

LEMMA ListingKeeps ==
  ASSUME Types, BeforeGoodbye, Listing, [Next]_vars
  PROVE  Listing'
<1>1. CASE UNCHANGED <<dir, left>>
  BY <1>1, ListingStays
<1>2. ASSUME NEW p \in Peer, Beat(p)  PROVE Listing'
  <2>1. CASE ~Up(at[p])
    BY <1>1, <1>2, <2>1 DEF Beat
  <2>2. CASE Up(at[p])
    <3>1. at[p] \in Seed /\ session[p] \in Nat
      BY <1>2, Constants DEF Beat, Seed, Types, OwnersOK
    <3>2. Registered(p) \in Nat /\ (at[p] = 1 => Registered(p) = 3 * session[p])
      BY <3>1 DEF Registered, BeforeGoodbye
    <3>3. Register(at[p], p, Registered(p), TRUE)
      BY <1>2, <2>2 DEF Beat
    <3>. QED  BY <3>1, <3>2, <3>3, ListingTakes
  <2>. QED  BY <2>1, <2>2
<1>3. ASSUME NEW p \in Peer, SayGoodbye(p)  PROVE Listing'
  <2>1. goodbye[p] \in Seed
    BY <1>3 DEF SayGoodbye
  <2>. QED  BY <1>1, <1>3, <2>1, ListingBuries DEF SayGoodbye
<1>4. ASSUME NEW t \in Seed, NEW p \in Peer, Import(t, p)  PROVE Listing'
  <2>1. PICK s \in 1 .. session[p] : Register(t, p, 3 * s, FALSE)
    BY <1>4 DEF Import
  <2>2. s \in Nat /\ 3 * s \in Nat
    BY DEF Types, OwnersOK
  <2>. QED  BY <2>1, <2>2, ListingTakes
<1>5. ASSUME NEW t \in Seed, NEW p \in Peer, Expel(t, p)  PROVE Listing'
  <2>1. left' = left
    BY <1>5 DEF Expel
  <2>2. CASE dir'[1] = dir[1]
    BY <2>1, <2>2, ListingStays
  <2>3. CASE dir'[1] # dir[1]
    <3>1. t = 1 /\ dir[1][p].kind = "peer"
          /\ Put(t, p, [kind |-> "expelled", stamp |-> dir[1][p].stamp, age |-> 0])
      BY <1>5, <2>3, Constants DEF Expel, Put, Types, TrackersOK
    <3>2. /\ dir'[1][p] = [kind |-> "expelled", stamp |-> dir[1][p].stamp, age |-> 0]
          /\ \A q \in Peer \ {p} : dir'[1][q] = dir[1][q]
      BY <3>1, Constants DEF Put, Types, TrackersOK
    <3>3. Early(dir'[1][p])
      BY <3>2 DEF Early
    <3>4. left[p] = NotLeft
      <4>1. ASSUME left[p] # NotLeft  PROVE dir[1][p].kind = "tomb"
        <5>1. dir[1][p] = [kind |-> "tomb", stamp |-> 3 * left[p].session + 1, age |-> left[p].age]
          BY <4>1 DEF Listing, Tombs
        <5>. QED  BY <5>1
      <4>. QED  BY <3>1, <4>1
    <3>5. left' \in [Peer -> [session : Nat, age : Nat]]
      BY <2>1 DEF Listing
    <3>. QED  BY <2>1, <3>2, <3>3, <3>4, <3>5, ListingOf
  <2>. QED  BY <2>2, <2>3
<1>6. ASSUME NEW t \in Seed, TrackerFails(t)  PROVE Listing'
  <2>1. CASE t # 1
    <3>1. dir'[1] = dir[1] /\ left' = left
      BY <1>6, <2>1, Constants DEF TrackerFails, Types, TrackersOK
    <3>. QED  BY <3>1, ListingStays
  <2>2. CASE t = 1
    <3>1. /\ \A p \in Peer : dir'[1][p] = NoEntry /\ left'[p] = NotLeft
          /\ left' \in [Peer -> [session : Nat, age : Nat]]
      BY <1>6, <2>2, Constants DEF TrackerFails, Types, TrackersOK, NotLeft
    <3>. QED  BY <3>1, NoEntryType DEF Listing, Tombs, Early
  <2>. QED  BY <2>1, <2>2
<1>7. ASSUME NEW t \in Seed, TrackerStep(t)  PROVE Listing'
  <2>1. ASSUME NEW p \in Peer, TrackerStarts(t) \/ Enroll(t, p)  PROVE UNCHANGED <<dir, left>>
    BY <2>1 DEF TrackerStarts, Enroll, history
  <2>2. CASE TrackerStarts(t)
    BY <1>1, <2>2 DEF TrackerStarts, history
  <2>. QED  BY <1>1, <1>4, <1>5, <1>6, <1>7, <2>1, <2>2 DEF TrackerStep
<1>8. ASSUME NEW p \in Peer, OwnerStep(p)  PROVE Listing'
  <2>1. CASE Pause(p) \/ Resume(p) \/ Leave(p) \/ GoDown(p) \/ Start(p) \/ AdoptEpoch(p)
    BY <1>1, <2>1 DEF Pause, Resume, Leave, GoDown, Start, AdoptEpoch, trackers, history
  <2>. QED  BY <1>2, <1>3, <1>8, <2>1 DEF OwnerStep, Exit, Crash
<1>9. CASE SchedulerStep
  <2>1. UNCHANGED <<dir, left>>
    BY <1>9 DEF SchedulerStep, Poll, PollFails, PutEpoch, Checkpoint, SchedulerEnds,
                SchedulerStarts,
                trackers, history
  <2>. QED  BY <1>1, <2>1
<1>10. CASE UNCHANGED vars
  BY <1>1, <1>10 DEF vars, trackers, history
<1>. QED  BY <1>7, <1>8, <1>9, <1>10, ListingAges DEF Next

LEMMA ObservedEarly ==
  ASSUME Types, Listing, SeenEarly, NEW p \in Peer
  PROVE  Early(Observed[p])
<1>1. CASE dir[1][p].kind = "peer"
  <2>1. Observed[p] = [dir[1][p] EXCEPT !.age = 0]
    BY <1>1 DEF Observed
  <2>2. dir[1][p] \in Entry
    BY Constants DEF Types, TrackersOK
  <2>3. dir[1][p] \in EntryOf({"peer", "tomb", "expelled"}, Ttl - 1)
    BY <1>1, <2>2, NoEntryType DEF Entry
  <2>4. Observed[p].stamp = dir[1][p].stamp
    BY <2>1, <2>3 DEF EntryOf
  <2>. QED  BY <1>1, <2>4 DEF Early, Listing
<1>2. CASE dir[1][p].kind # "peer"
  <2>1. Observed[p] = NoEntry \/ Observed[p] = seen[p]
    BY <1>2 DEF Observed
  <2>. QED  BY <2>1, NoEntryType DEF SeenEarly, Early
<1>. QED  BY <1>1, <1>2

LEMMA SeenEarlyKeeps ==
  ASSUME Types, Listing, SeenEarly, [Next]_vars
  PROVE  SeenEarly'
<1>1. CASE UNCHANGED seen
  BY <1>1 DEF SeenEarly, Early
<1>2. CASE Tick
  <2>. SUFFICES ASSUME NEW p \in Peer  PROVE Early(seen'[p])
    BY DEF SeenEarly, Early
  <2>1. CASE seen[p] = NoEntry
    BY <1>2, <2>1, NoEntryType DEF Tick, Early
  <2>2. CASE seen[p] # NoEntry
    <3>1. seen'[p] = [seen[p] EXCEPT !.age = Capped(seen[p].age, Grace)]
      BY <1>2, <2>2 DEF Tick
    <3>2. seen[p] \in EntryOf({"peer"}, Grace)
      BY <2>2 DEF Types, SchedulerOK
    <3>3. seen'[p].kind = seen[p].kind /\ seen'[p].stamp = seen[p].stamp
      BY <3>1, <3>2 DEF EntryOf
    <3>. QED  BY <3>3 DEF SeenEarly, Early
  <2>. QED  BY <2>1, <2>2
<1>3. CASE Poll
  BY <1>3, ObservedEarly DEF Poll, SeenEarly, Early
<1>4. CASE SchedulerEnds
  BY <1>4, NoEntryType DEF SchedulerEnds, SeenEarly, Early
<1>5. CASE PollFails \/ PutEpoch \/ Checkpoint \/ SchedulerStarts
  BY <1>1, <1>5 DEF PollFails, PutEpoch, Checkpoint, SchedulerStarts, manager
<1>6. ASSUME NEW p \in Peer, OwnerStep(p)  PROVE UNCHANGED scheduler
  BY <1>6 DEF OwnerStep, Beat, Pause, Resume, Leave, SayGoodbye, Exit, Crash, GoDown, Start,
              AdoptEpoch
<1>7. ASSUME NEW t \in Seed, TrackerStep(t)  PROVE UNCHANGED scheduler
  BY <1>7 DEF TrackerStep, TrackerFails, TrackerStarts, Import, Expel, Enroll
<1>8. CASE UNCHANGED vars
  BY <1>1, <1>8 DEF vars, scheduler, manager
<1>. QED
  BY <1>1, <1>2, <1>3, <1>4, <1>5, <1>6, <1>7, <1>8 DEF Next, SchedulerStep, scheduler, manager

\* Only a poll signs a record: of the owners that it observed.
LEMMA Signs ==
  ASSUME Types, [Next]_vars, Signed
  PROVE  /\ Poll /\ Due(Signature(Observed))
         /\ epoch' = [num |-> NextNumber, issue |-> issues + 1, owners |-> Signature(Observed)]
<1>1. Poll
  BY OnlyPollsSign DEF Signed
<1>. QED  BY <1>1 DEF Poll, Signed

Departures == Types /\ BeforeGoodbye /\ Listing /\ SeenEarly

LEMMA DeparturesAlways == Spec => []Departures
<1>1. Init => Departures
  <2>. SUFFICES ASSUME Init  PROVE Departures
    OBVIOUS
  <2>1. BeforeGoodbye /\ SeenEarly
    BY NoEntryType DEF Init, BeforeGoodbye, SeenEarly, Early
  <2>2. Listing
    BY NoEntryType, Constants DEF Init, Listing, Tombs, Early, NotLeft
  <2>. QED  BY <2>1, <2>2, InitTypes DEF Departures
<1>2. Departures /\ [Next]_vars => Departures'
  BY OwnersStep, TrackersStep, SchedulerKeeps, HistoryKeeps, BeforeGoodbyeKeeps, ListingKeeps,
     SeenEarlyKeeps DEF Departures, Types
<1>. QED  BY <1>1, <1>2, PTL DEF Spec

\* Whatever others relay, whatever is still under way when an owner departs, and
\* whichever processes fail: while the first tracker knows of the departure, no
\* epoch is signed with the owner at the address that it departed from
\* (TrackerServer._deregister and _admit, EpochManager.observe).
THEOREM DepartedAreOut == Spec => DepartedStayOut
<1>1. ASSUME Departures, [Next]_vars, Signed, NEW p \in Peer, left[p] # NotLeft,
             NEW o \in epoch'.owners, o[1] = p
      PROVE  o[2] > left[p].session
  <2>1. o \in Signature(Observed)
    BY <1>1, Signs DEF Departures
  <2>2. Observed[p] # NoEntry /\ o[2] = SessionOf(Observed[p].stamp)
    BY <1>1, <2>1 DEF Signature
  <2>3. dir[1][p] = [kind |-> "tomb", stamp |-> 3 * left[p].session + 1, age |-> left[p].age]
    BY <1>1 DEF Departures, Listing, Tombs
  <2>4. Observed[p] = seen[p] /\ ~(dir[1][p].stamp > seen[p].stamp)
    <3>1. dir[1][p].kind = "tomb"
      BY <2>3
    <3>. QED  BY <2>2, <3>1 DEF Observed
  <2>5. seen[p] \in EntryOf({"peer"}, Grace)
    BY <1>1, <2>2, <2>4 DEF Departures, Types, SchedulerOK
  <2>6. PICK s \in Nat : seen[p].stamp = 3 * s
    BY <1>1, <2>5 DEF Departures, SeenEarly, Early, EntryOf
  <2>7. left[p].session \in Nat /\ dir[1][p].stamp = 3 * left[p].session + 1
    BY <1>1, <2>3 DEF Departures, Listing
  <2>8. s > left[p].session
    BY <2>4, <2>6, <2>7
  <2>. QED  BY <2>2, <2>4, <2>6, <2>8, Stamps
<1>2. Departures /\ [Next]_vars =>
        [ Signed => \A p \in Peer : left[p] # NotLeft =>
            \A o \in epoch'.owners : o[1] = p => o[2] > left[p].session ]_vars
  BY <1>1
<1>. QED  BY <1>2, DeparturesAlways, PTL DEF Spec, DepartedStayOut

-----------------------------------------------------------------------------
\* Epoch numbers, with at most one failure.

\* Records carry the issues signed so far.
Issued ==
  /\ \A p \in Peer : view[p].issue <= issues
  /\ epoch.issue <= issues
  /\ cached[1].issue <= issues

\* While nothing has failed, the first tracker has the scheduler's record, or the
\* one before; a scheduler that comes after a failure resumes with that one, and
\* what owners have adopted is at most the next.
Superseding ==
  /\ sched # "down" => \A p \in Peer : view[p].num <= floor
  /\ sched = "down" => Up(1) /\ \A p \in Peer : view[p].num <= cached[1].num + 1
  /\ spent.failures = 0 =>
       /\ Up(1) /\ sched # "down"
       /\ \A p \in Peer : view[p].num <= epoch.num
       /\ epoch.num <= cached[1].num + (IF sched = "put" THEN 1 ELSE 0)
       /\ floor = epoch.num + 1

Epochs == Types /\ Issued /\ Superseding

LEMMA RecordsType ==
  ASSUME Types
  PROVE  /\ \A p \in Peer : view[p] \in Record /\ view[p].num \in Int /\ view[p].num >= -1
                            /\ view[p].issue \in Nat
         /\ epoch \in Record /\ epoch.num \in Int /\ epoch.num >= -1 /\ epoch.issue \in Nat
         /\ cached[1] \in Record /\ cached[1].num \in Int /\ cached[1].num >= -1
         /\ cached[1].issue \in Nat
         /\ issues \in Nat /\ floor \in Nat /\ saved \in Nat /\ floor \in Int
         /\ spent.failures \in Nat /\ spent.failures <= MaxFailures
<1>1. \A r \in Record : r.num \in Int /\ r.num >= -1 /\ r.issue \in Nat
  BY RecordType
<1>2. spent.failures \in 0 .. MaxFailures
  BY DEF Types, HistoryOK
<1>. QED
  BY <1>1, <1>2, Constants DEF Types, OwnersOK, TrackersOK, SchedulerOK, HistoryOK

LEMMA EpochsStay ==
  ASSUME Issued, Superseding, UNCHANGED <<view, sched, epoch, floor, issues>>,
         cached'[1] = cached[1], Up(1)' <=> Up(1), spent'.failures = spent.failures
  PROVE  (Issued /\ Superseding)'
BY DEF Issued, Superseding

LEMMA OutsideStays ==
  ASSUME Types, Event \/ spent' = [spent EXCEPT !.imports = spent.imports + 1] \/ spent' = spent
  PROVE  spent'.failures = spent.failures
BY DEF Types, HistoryOK, Event

LEMMA FailureCounts ==
  ASSUME Types, Failure
  PROVE  spent'.failures = spent.failures + 1
BY DEF Types, HistoryOK, Failure

LEMMA OwnerEpochs ==
  ASSUME Epochs, NEW p \in Peer, OwnerStep(p)
  PROVE  (Issued /\ Superseding)'
<1>. USE DEF Epochs
<1>1. CASE Beat(p) \/ Pause(p) \/ Resume(p) \/ Leave(p) \/ SayGoodbye(p) \/ Start(p)
  <2>1. UNCHANGED <<view, sched, epoch, floor, issues, cached, down>>
    BY <1>1 DEF Beat, Pause, Resume, Leave, SayGoodbye, Start, scheduler, trackers, history
  <2>2. Event \/ spent' = spent
    BY <1>1 DEF Beat, Pause, Resume, Leave, SayGoodbye, Start
  <2>. QED  BY <2>1, <2>2, OutsideStays, EpochsStay DEF Up
<1>2. ASSUME NEW r \in Record, view' = [view EXCEPT ![p] = r],
             UNCHANGED <<sched, epoch, floor, issues, cached, down>>, Event \/ spent' = spent,
             r = NoEpoch \/ (r = epoch /\ sched # "down")
      PROVE  (Issued /\ Superseding)'
  <2>1. spent'.failures = spent.failures
    BY <1>2, OutsideStays
  <2>2. r.issue <= issues /\ r.num \in Int /\ r.num >= -1 /\ r.issue \in Nat
    BY <1>2, RecordsType, RecordType DEF Issued, NoEpoch
  <2>3. \A q \in Peer : view'[q] = IF q = p THEN r ELSE view[q]
    BY <1>2 DEF Types, OwnersOK
  <2>4. r.num <= epoch.num
    BY <1>2, RecordsType DEF NoEpoch
  <2>5. sched # "down" => r.num <= floor
    BY <2>2, <2>4, RecordsType DEF Types, SchedulerOK
  <2>6. sched = "down" => r.num <= cached[1].num + 1
    BY <1>2, RecordsType DEF NoEpoch
  <2>7. Issued'
    BY <1>2, <2>2, <2>3 DEF Issued
  <2>8. Superseding'
    BY <1>2, <2>1, <2>3, <2>4, <2>5, <2>6 DEF Superseding, Up
  <2>. QED  BY <2>7, <2>8
<1>3. CASE Exit(p) \/ Crash(p)
  <2>1. /\ view' = [view EXCEPT ![p] = NoEpoch]
        /\ UNCHANGED <<sched, epoch, floor, issues, cached, down>>
    BY <1>3 DEF Exit, Crash, GoDown, scheduler, trackers
  <2>2. Event \/ spent' = spent
    BY <1>3 DEF Exit, Crash
  <2>. QED  BY <1>2, <2>1, <2>2, RecordType
<1>4. CASE AdoptEpoch(p)
  BY <1>2, <1>4, RecordsType DEF AdoptEpoch, scheduler, trackers, history
<1>. QED  BY <1>1, <1>3, <1>4 DEF OwnerStep

LEMMA TrackerEpochs ==
  ASSUME Epochs, MaxFailures <= 1, NEW t \in Seed, TrackerStep(t)
  PROVE  (Issued /\ Superseding)'
<1>. USE DEF Epochs
<1>1. ASSUME NEW p \in Peer, Import(t, p) \/ Expel(t, p) \/ Enroll(t, p)
      PROVE  (Issued /\ Superseding)'
  <2>1. UNCHANGED <<view, sched, epoch, floor, issues, cached, down>>
    BY <1>1 DEF Import, Expel, Enroll, scheduler, history
  <2>2. Event \/ spent' = [spent EXCEPT !.imports = spent.imports + 1] \/ spent' = spent
    BY <1>1 DEF Import, Expel, Enroll
  <2>. QED  BY <2>1, <2>2, OutsideStays, EpochsStay DEF Up
<1>2. CASE TrackerStarts(t)
  <2>1. UNCHANGED <<view, sched, epoch, floor, issues, cached, spent>>
    BY <1>2 DEF TrackerStarts, scheduler, history
  <2>2. Up(1) => Up(1)'
    BY <1>2 DEF TrackerStarts, Up, Types, TrackersOK
  <2>. QED  BY <2>1, <2>2 DEF Issued, Superseding
<1>3. CASE TrackerFails(t)
  <2>1. UNCHANGED <<view, sched, epoch, floor, issues>> /\ Failure
    BY <1>3 DEF TrackerFails, scheduler
  <2>2. spent.failures = 0 /\ spent'.failures = 1
    BY <2>1, FailureCounts, RecordsType, Constants DEF Failure
  <2>3. cached'[1] = cached[1] \/ cached'[1] = NoEpoch
    BY <1>3, Constants DEF TrackerFails, Types, TrackersOK
  <2>4. Issued'
    BY <2>1, <2>3, RecordsType DEF Issued, NoEpoch
  <2>. QED  BY <2>1, <2>2, <2>4 DEF Superseding
<1>. QED  BY <1>1, <1>2, <1>3 DEF TrackerStep

LEMMA SchedulerEpochs ==
  ASSUME Epochs, MaxFailures <= 1, SchedulerStep
  PROVE  (Issued /\ Superseding)'
<1>. USE DEF Epochs
<1>1. CASE Poll
  <2>1. /\ sched = "up" /\ Up(1)
        /\ UNCHANGED <<view, cached, down, spent>>
    BY <1>1 DEF Poll, trackers
  <2>2. CASE Due(Signature(Observed))
    <3>1. /\ sched' = "put" /\ issues' = issues + 1 /\ floor' = NextNumber + 1
          /\ epoch' = [num |-> NextNumber, issue |-> issues + 1, owners |-> Signature(Observed)]
      BY <1>1, <2>2 DEF Poll
    <3>2. epoch'.num = NextNumber /\ epoch'.issue = issues + 1
      BY <3>1
    <3>3. NextNumber \in Int /\ NextNumber >= floor
      BY SignedType
    <3>4. spent.failures = 0 => NextNumber = epoch.num + 1
      <4>1. spent.failures = 0 => floor = epoch.num + 1
        BY DEF Superseding
      <4>. QED  BY <4>1, RecordsType, MaxOfTwo DEF NextNumber
    <3>5. Issued'
      BY <2>1, <3>1, <3>2, RecordsType DEF Issued
    <3>6. \A p \in Peer : view[p].num <= floor
      BY <2>1 DEF Superseding
    <3>7. \A p \in Peer : view[p].num <= NextNumber + 1
      BY <3>3, <3>6, RecordsType
    <3>8. spent.failures = 0 =>
            /\ \A p \in Peer : view[p].num <= NextNumber
            /\ NextNumber <= cached[1].num + 1
      BY <2>1, <3>3, <3>4, <3>6, RecordsType DEF Superseding
    <3>9. Superseding'
      BY <2>1, <3>1, <3>2, <3>7, <3>8 DEF Superseding, Up
    <3>. QED  BY <3>5, <3>9
  <2>3. CASE ~Due(Signature(Observed))
    <3>1. UNCHANGED <<view, sched, epoch, floor, issues, cached, down, spent>>
      BY <1>1, <2>1, <2>3 DEF Poll
    <3>. QED  BY <3>1, EpochsStay DEF Up
  <2>. QED  BY <2>2, <2>3
<1>2. CASE PollFails \/ Checkpoint
  <2>1. UNCHANGED <<view, sched, epoch, floor, issues, cached, down, spent>>
    BY <1>2 DEF PollFails, Checkpoint, trackers, manager, history
  <2>. QED  BY <2>1, EpochsStay DEF Up
<1>3. CASE PutEpoch
  <2>1. /\ sched = "put" /\ sched' = "up"
        /\ UNCHANGED <<view, down, epoch, floor, issues, spent>>
    BY <1>3 DEF PutEpoch, history
  <2>2. \/ cached'[1] = epoch /\ Up(1)
        \/ cached'[1] = cached[1] /\ ~(Up(1) /\ EpochNewer(epoch, cached[1]))
    BY <1>3, Constants DEF PutEpoch, Types, TrackersOK
  <2>3. Issued'
    BY <2>1, <2>2 DEF Issued
  <2>4. spent.failures = 0 => epoch.num <= cached'[1].num
    BY <2>1, <2>2, RecordsType DEF Superseding, EpochNewer
  <2>5. spent.failures = 0 => epoch.num <= cached'[1].num + 0
    BY <2>2, <2>4, RecordsType
  <2>6. Superseding'
    BY <2>1, <2>5 DEF Superseding, Up
  <2>. QED  BY <2>3, <2>6
<1>4. CASE SchedulerEnds
  <2>1. /\ sched # "down" /\ sched' = "down" /\ epoch' = NoEpoch /\ Failure
        /\ UNCHANGED <<view, down, cached, issues>>
    BY <1>4 DEF SchedulerEnds, trackers, history
  <2>2. spent.failures = 0 /\ spent'.failures = 1
    BY <2>1, FailureCounts, RecordsType, Constants DEF Failure
  <2>3. Issued'
    BY <2>1, RecordsType DEF Issued, NoEpoch
  <2>4. \A p \in Peer : view[p].num <= cached[1].num + 1
    BY <2>2, RecordsType DEF Superseding
  <2>. QED  BY <2>1, <2>2, <2>3, <2>4 DEF Superseding, Up
<1>5. CASE SchedulerStarts
  <2>1. /\ sched = "down" /\ sched' = "up" /\ epoch' = Resumed
        /\ floor' = Max({saved, Resumed.num + 1})
        /\ UNCHANGED <<view, down, cached, issues, spent>>
    BY <1>5 DEF SchedulerStarts, trackers, history
  <2>2. Up(1) /\ Resumed = cached[1] /\ spent.failures # 0
        /\ \A p \in Peer : view[p].num <= cached[1].num + 1
    BY <2>1 DEF Superseding, Resumed
  <2>3. floor' >= cached[1].num + 1 /\ floor' \in Int
    BY <2>1, <2>2, RecordsType, MaxOfTwo
  <2>4. \A p \in Peer : view[p].num <= floor'
    BY <2>2, <2>3, RecordsType
  <2>5. Issued'
    BY <2>1, <2>2 DEF Issued
  <2>. QED  BY <2>1, <2>2, <2>4, <2>5 DEF Superseding
<1>. QED  BY <1>1, <1>2, <1>3, <1>4, <1>5 DEF SchedulerStep

LEMMA InitEpochs == Init => Epochs
<1>. SUFFICES ASSUME Init  PROVE Epochs
  OBVIOUS
<1>1. NoEpoch.num = -1 /\ NoEpoch.issue = 0
  BY DEF NoEpoch
<1>2. Issued /\ Superseding
  BY <1>1, Constants DEF Init, Issued, Superseding, Up
<1>. QED  BY <1>2, InitTypes DEF Epochs

LEMMA NextEpochs ==
  ASSUME Epochs, MaxFailures <= 1, [Next]_vars
  PROVE  Epochs'
<1>1. Types'
  BY OwnersStep, TrackersStep, SchedulerKeeps, HistoryKeeps DEF Epochs, Types
<1>2. CASE Tick
  <2>1. UNCHANGED <<view, sched, epoch, floor, issues, cached, spent>>
    BY <1>2 DEF Tick
  <2>2. Up(1)' <=> Up(1)
    BY <1>2, Constants DEF Tick, Up, Epochs, Types, TrackersOK
  <2>. QED  BY <1>1, <2>1, <2>2, EpochsStay DEF Epochs
<1>3. CASE UNCHANGED vars
  <2>1. UNCHANGED <<view, sched, epoch, floor, issues, cached, down, spent>>
    BY <1>3 DEF vars, trackers, scheduler, history
  <2>. QED  BY <1>1, <2>1, EpochsStay DEF Epochs, Up
<1>. QED  BY <1>1, <1>2, <1>3, OwnerEpochs, TrackerEpochs, SchedulerEpochs DEF Next, Epochs

LEMMA EpochsAlways ==
  ASSUME MaxFailures <= 1
  PROVE  Spec => []Epochs
BY InitEpochs, NextEpochs, PTL DEF Spec

\* With one failure at most, of the scheduler or of a tracker, whatever owners do:
\* a record that is signed is newer than what any owner has adopted, so that no
\* owner is left behind with a record of the scheduler's former life
\* (publish_epoch and _load_state of Scheduler, epoch_newer).
THEOREM EpochsGoOn ==
  ASSUME MaxFailures <= 1
  PROVE  Spec => EpochsSupersede
<1>1. ASSUME Epochs, [Next]_vars, Signed, NEW p \in Peer
      PROVE  EpochNewer(epoch', view[p])
  <2>1. Poll /\ epoch' = [num |-> NextNumber, issue |-> issues + 1, owners |-> Signature(Observed)]
    BY <1>1, Signs DEF Epochs
  <2>2. epoch'.num = NextNumber /\ epoch'.issue = issues + 1
    BY <2>1
  <2>3. NextNumber >= floor /\ NextNumber \in Int
    BY <1>1, SignedType DEF Epochs
  <2>4. view[p].num <= floor /\ view[p].issue <= issues
    BY <1>1, <2>1 DEF Epochs, Superseding, Issued, Poll
  <2>5. NextNumber > view[p].num \/ NextNumber = view[p].num
    BY <1>1, <2>3, <2>4, RecordsType DEF Epochs
  <2>6. issues + 1 > view[p].issue
    BY <1>1, <2>4, RecordsType DEF Epochs
  <2>. QED  BY <2>2, <2>5, <2>6 DEF EpochNewer
<1>2. Epochs /\ [Next]_vars => [ Signed => \A p \in Peer : EpochNewer(epoch', view[p]) ]_vars
  BY <1>1
<1>. QED  BY <1>2, EpochsAlways, PTL DEF Spec, EpochsSupersede

-----------------------------------------------------------------------------
\* Owners that the first tracker heard of lately, with at most one failure.

Ages == silent \in [Peer -> 0 .. Grace] /\ listed \in [Peer -> 0 .. PollEvery + 1]

Fresh(p) == proc[p] # "leaving" /\ silent[p] + PollEvery < Grace

\* The scheduler has seen p, and less than a poll interval before p was last heard of.
Kept(p) == seen[p] # NoEntry /\ seen[p].age <= silent[p] + PollEvery

OnList(p) == dir[1][p].kind = "peer" /\ dir[1][p].age <= silent[p]

\* A scheduler that never failed has seen what was on the list at its last poll,
\* an owner heard of lately included; if the tracker has it no more, the tracker
\* is what failed, and the scheduler still knows.
Recent(p) ==
  /\ spent.failures = 0 /\ dir[1][p].kind = "peer" /\ listed[p] > pollAge
     => seen[p] # NoEntry /\ seen[p].age <= pollAge
  /\ proc[p] # "leaving" /\ silent[p] < Grace => dir[1][p].kind # "tomb"
  /\ spent.failures = 0 /\ Fresh(p) => Kept(p)
  /\ Fresh(p) /\ silent[p] < Ttl
     => OnList(p) \/ (spent.failures # 0 /\ sched # "down" /\ Kept(p))

Live == Epochs /\ Ages /\ \A p \in Peer : Recent(p)

LEMMA AgeTypes ==
  ASSUME Types, Ages, NEW p \in Peer
  PROVE  /\ silent[p] \in Nat /\ silent[p] <= Grace
         /\ listed[p] \in Nat /\ listed[p] <= PollEvery + 1
         /\ pollAge \in Nat /\ pollAge <= PollEvery
         /\ dir[1][p] \in Entry /\ dir[1][p].age \in Nat /\ dir[1][p].age <= Ttl - 1
         /\ seen[p].age \in Nat /\ seen[p].age <= Grace
         /\ Grace \in Nat \ {0} /\ PollEvery \in Nat \ {0} /\ Ttl \in Nat \ {0}
<1>1. dir[1][p] \in Entry /\ seen[p] \in EntryOf({"peer"}, Grace) \cup {NoEntry}
  BY Constants DEF Types, TrackersOK, SchedulerOK
<1>2. dir[1][p].age \in 0 .. Ttl - 1
  BY <1>1, Constants DEF Entry, EntryOf, NoEntry
<1>3. seen[p].age \in 0 .. Grace
  BY <1>1, Constants DEF EntryOf, NoEntry
<1>4. silent[p] \in 0 .. Grace /\ listed[p] \in 0 .. PollEvery + 1 /\ pollAge \in 0 .. PollEvery
  BY DEF Ages, Types, SchedulerOK
<1>. QED  BY <1>1, <1>2, <1>3, <1>4, Constants

\* Nothing that matters of p changes, or p is not heard of any more.
LEMMA RecentStays ==
  ASSUME NEW p \in Peer, Recent(p),
         dir'[1][p] = dir[1][p], listed'[p] = listed[p], seen'[p] = seen[p], pollAge' = pollAge,
         spent'.failures = spent.failures, sched # "down" => sched' # "down",
         \/ silent'[p] = Grace
         \/ silent'[p] = silent[p] /\ (proc'[p] # "leaving" => proc[p] # "leaving")
  PROVE  Recent(p)'
<1>1. CASE silent'[p] = Grace
  <2>1. ~(silent'[p] + PollEvery < Grace) /\ ~(silent'[p] < Grace)
    BY <1>1, Constants
  <2>. QED  BY <2>1 DEF Recent, Fresh
<1>2. CASE silent'[p] = silent[p] /\ (proc'[p] # "leaving" => proc[p] # "leaving")
  BY <1>2 DEF Recent, Fresh, Kept, OnList
<1>. QED  BY <1>1, <1>2

LEMMA RecentTakes ==
  ASSUME Live, NEW t \in Seed, NEW p \in Peer, NEW stamp, NEW fresh,
         Register(t, p, stamp, fresh), UNCHANGED <<proc, seen, pollAge, sched>>,
         spent'.failures = spent.failures
  PROVE  Ages' /\ \A q \in Peer : Recent(q)'
<1>. USE DEF Live, Epochs
<1>1. CASE UNCHANGED <<listed, silent>> /\ dir'[1] = dir[1]
  BY <1>1, RecentStays DEF Ages
<1>2. CASE t # 1 \/ ~Admits(t, p, stamp, fresh)
  <2>1. UNCHANGED <<listed, silent>> /\ dir'[1] = dir[1]
    BY <1>2, Constants DEF Register, Put, Types, TrackersOK
  <2>. QED  BY <1>1, <2>1
<1>3. CASE t = 1 /\ Admits(t, p, stamp, fresh)
  <2>1. /\ dir'[1][p] = [kind |-> "peer", stamp |-> stamp, age |-> 0]
        /\ \A q \in Peer \ {p} : dir'[1][q] = dir[1][q]
    BY <1>3, Constants DEF Register, Put, Types, TrackersOK
  <2>2. listed' = IF dir[1][p].kind = "peer" THEN listed ELSE [listed EXCEPT ![p] = 0]
    BY <1>3 DEF Register
  <2>3. silent' = IF listed'[p] <= PollEvery THEN silent ELSE [silent EXCEPT ![p] = 0]
    BY <1>3 DEF Register
  <2>4. Ages'
    BY <2>2, <2>3, Constants DEF Ages
  <2>5. \A q \in Peer \ {p} : listed'[q] = listed[q] /\ silent'[q] = silent[q]
    BY <2>2, <2>3 DEF Ages
  <2>6. listed'[p] = IF dir[1][p].kind = "peer" THEN listed[p] ELSE 0
    BY <2>2 DEF Ages
  <2>7. silent'[p] = silent[p] \/ (silent'[p] = 0 /\ ~(listed'[p] <= PollEvery))
    BY <2>3 DEF Ages
  <2>8. dir'[1][p].kind = "peer" /\ dir'[1][p].age = 0
    BY <2>1
  <2>9. spent.failures = 0 /\ listed'[p] > pollAge => seen[p] # NoEntry /\ seen[p].age <= pollAge
    BY <2>6, AgeTypes DEF Recent
  <2>10. silent'[p] \in Nat
    BY <2>7, AgeTypes
  <2>11. spent.failures = 0 /\ Fresh(p)' => Kept(p)'
    <3>1. CASE silent'[p] = silent[p]
      BY <3>1 DEF Recent, Fresh, Kept
    <3>2. CASE silent'[p] = 0 /\ ~(listed'[p] <= PollEvery)
      <4>1. listed'[p] > pollAge
        BY <2>6, <3>2, AgeTypes
      <4>. QED  BY <2>9, <3>2, <4>1, AgeTypes DEF Kept
    <3>. QED  BY <2>7, <3>1, <3>2
  <2>12. Recent(p)'
    BY <2>8, <2>9, <2>10, <2>11, Constants DEF Recent, OnList
  <2>13. \A q \in Peer \ {p} : Recent(q)'
    BY <2>1, <2>5, RecentStays
  <2>. QED  BY <2>4, <2>12, <2>13
<1>. QED  BY <1>2, <1>3

LEMMA LiveOwners ==
  ASSUME Live, NEW p \in Peer, OwnerStep(p)
  PROVE  Ages' /\ \A q \in Peer : Recent(q)'
<1>. USE DEF Live, Epochs
<1>0. ASSUME UNCHANGED <<dir, listed, seen, pollAge, sched>>, Event \/ spent' = spent,
             silent' = silent \/ silent' = [silent EXCEPT ![p] = Grace],
             silent' = silent => \A q \in Peer : proc'[q] # "leaving" => proc[q] # "leaving",
             \A q \in Peer \ {p} : proc'[q] = proc[q]
      PROVE  Ages' /\ \A q \in Peer : Recent(q)'
  <2>1. spent'.failures = spent.failures
    BY <1>0, OutsideStays
  <2>2. Ages'
    BY <1>0, Constants DEF Ages
  <2>3. ASSUME NEW q \in Peer  PROVE Recent(q)'
    <3>1. \/ silent'[q] = Grace
          \/ silent'[q] = silent[q] /\ (proc'[q] # "leaving" => proc[q] # "leaving")
      BY <1>0 DEF Ages
    <3>. QED  BY <1>0, <2>1, <3>1, RecentStays
  <2>. QED  BY <2>2, <2>3
<1>1. CASE Beat(p)
  <2>1. UNCHANGED <<proc, seen, pollAge, sched, spent>> /\ at[p] \in Seed
    BY <1>1, Constants DEF Beat, scheduler, manager, Types, OwnersOK, Seed
  <2>2. CASE Up(at[p])
    BY <1>1, <2>1, <2>2, RecentTakes DEF Beat
  <2>3. CASE ~Up(at[p])
    BY <1>0, <1>1, <2>1, <2>3 DEF Beat
  <2>. QED  BY <2>2, <2>3
<1>2. CASE Pause(p) \/ Resume(p) \/ Leave(p) \/ Start(p) \/ AdoptEpoch(p)
  <2>1. UNCHANGED <<dir, listed, silent, seen, pollAge, sched>> /\ (Event \/ spent' = spent)
    BY <1>2 DEF Pause, Resume, Leave, Start, AdoptEpoch, trackers, scheduler, manager, history
  <2>2. \A q \in Peer : (proc'[q] # "leaving" => proc[q] # "leaving") /\ (q # p => proc'[q] = proc[q])
    BY <1>2 DEF Pause, Resume, Leave, Start, AdoptEpoch, owners, Types, OwnersOK
  <2>. QED  BY <1>0, <2>1, <2>2
<1>3. CASE Exit(p) \/ Crash(p)
  <2>1. /\ UNCHANGED <<dir, listed, seen, pollAge, sched>>
        /\ silent' = [silent EXCEPT ![p] = Grace]
        /\ proc' = [proc EXCEPT ![p] = "down"]
    BY <1>3 DEF Exit, Crash, GoDown, trackers, scheduler, manager
  <2>2. Event \/ spent' = spent
    BY <1>3 DEF Exit, Crash
  <2>4. Ages' /\ silent'[p] = Grace /\ \A q \in Peer \ {p} : silent'[q] = silent[q] /\ proc'[q] = proc[q]
    BY <2>1, Constants DEF Ages, Types, OwnersOK
  <2>5. spent'.failures = spent.failures
    BY <2>2, OutsideStays
  <2>. QED  BY <2>1, <2>4, <2>5, RecentStays
<1>4. CASE SayGoodbye(p)
  <2>1. /\ UNCHANGED <<proc, listed, silent, seen, pollAge, sched, spent>>
        /\ proc[p] = "leaving" /\ goodbye[p] \in Seed
    BY <1>4 DEF SayGoodbye, scheduler, manager
  <2>2. CASE dir'[1] = dir[1]
    BY <2>1, <2>2, RecentStays DEF Ages
  <2>3. CASE dir'[1] # dir[1]
    <3>1. /\ dir'[1][p] = [kind |-> "tomb", stamp |-> Departed(p), age |-> 0]
          /\ \A q \in Peer \ {p} : dir'[1][q] = dir[1][q]
      BY <1>4, <2>1, <2>3, Constants DEF SayGoodbye, Deregister, Put, Types, TrackersOK
    <3>2. dir'[1][p].kind = "tomb"
      BY <3>1
    <3>3. Recent(p)'
      BY <2>1, <3>2 DEF Recent, Fresh
    <3>. QED  BY <2>1, <3>1, <3>3, RecentStays DEF Ages
  <2>. QED  BY <2>2, <2>3
<1>. QED  BY <1>1, <1>2, <1>3, <1>4 DEF OwnerStep

LEMMA LiveTrackers ==
  ASSUME Live, MaxFailures <= 1, NEW t \in Seed, TrackerStep(t)
  PROVE  Ages' /\ \A q \in Peer : Recent(q)'
<1>. USE DEF Live, Epochs
<1>1. ASSUME NEW p \in Peer, Import(t, p)  PROVE Ages' /\ \A q \in Peer : Recent(q)'
  <2>1. PICK s \in 1 .. session[p] : Register(t, p, 3 * s, FALSE)
    BY <1>1 DEF Import
  <2>2. UNCHANGED <<proc, seen, pollAge, sched>>
    BY <1>1 DEF Import, owners, scheduler, manager
  <2>3. spent'.failures = spent.failures
    BY <1>1, OutsideStays DEF Import
  <2>. QED  BY <2>1, <2>2, <2>3, RecentTakes
<1>2. ASSUME NEW p \in Peer, Expel(t, p)  PROVE Ages' /\ \A q \in Peer : Recent(q)'
  <2>1. UNCHANGED <<proc, seen, pollAge, sched, listed>>
    BY <1>2 DEF Expel, owners, scheduler, manager
  <2>2. spent'.failures = spent.failures
    BY <1>2, OutsideStays DEF Expel
  <2>3. silent' = (IF t = 1 THEN [silent EXCEPT ![p] = Grace] ELSE silent)
    BY <1>2 DEF Expel
  <2>4. Ages'
    BY <2>1, <2>3, Constants DEF Ages
  <2>5. \A q \in Peer : silent'[q] = Grace \/ silent'[q] = silent[q]
    BY <2>3 DEF Ages
  <2>6. CASE dir'[1] = dir[1]
    BY <2>1, <2>2, <2>4, <2>5, <2>6, RecentStays
  <2>7. CASE dir'[1] # dir[1]
    <3>1. /\ t = 1
          /\ dir'[1][p] = [kind |-> "expelled", stamp |-> dir[1][p].stamp, age |-> 0]
          /\ \A q \in Peer \ {p} : dir'[1][q] = dir[1][q]
      BY <1>2, <2>7, Constants DEF Expel, Put, Types, TrackersOK
    <3>2. silent'[p] = Grace /\ dir'[1][p].kind = "expelled"
      BY <2>3, <3>1 DEF Ages
    <3>3. ~(silent'[p] + PollEvery < Grace) /\ ~(silent'[p] < Grace)
      BY <3>2, Constants
    <3>4. Recent(p)'
      BY <3>2, <3>3 DEF Recent, Fresh
    <3>. QED  BY <2>1, <2>2, <2>4, <2>5, <3>1, <3>4, RecentStays
  <2>. QED  BY <2>6, <2>7
<1>3. ASSUME NEW p \in Peer, Enroll(t, p) \/ TrackerStarts(t)
      PROVE  Ages' /\ \A q \in Peer : Recent(q)'
  <2>1. UNCHANGED <<proc, dir, seen, pollAge, sched, listed, silent, spent>>
    BY <1>3 DEF Enroll, TrackerStarts, owners, scheduler, manager, history
  <2>. QED  BY <2>1, RecentStays DEF Ages
<1>4. CASE TrackerFails(t)
  <2>1. UNCHANGED <<proc, seen, pollAge, sched, listed, silent>> /\ Failure
    BY <1>4 DEF TrackerFails, owners, scheduler, manager
  <2>2. spent.failures = 0 /\ spent'.failures = 1
    BY <2>1, FailureCounts, RecordsType, Constants DEF Failure
  <2>3. sched # "down"
    BY <2>2 DEF Superseding
  <2>4. \A q \in Peer : dir'[1][q] = dir[1][q] \/ dir'[1][q] = NoEntry
    BY <1>4, Constants DEF TrackerFails, Types, TrackersOK
  <2>5. ASSUME NEW q \in Peer  PROVE Recent(q)'
    <3>1. Fresh(q) => Kept(q)
      BY <2>2 DEF Recent
    <3>2. proc[q] # "leaving" /\ silent[q] < Grace => dir'[1][q].kind # "tomb"
      BY <2>4, NoEntryType DEF Recent
    <3>. QED  BY <2>1, <2>2, <2>3, <3>1, <3>2 DEF Recent, Fresh, Kept
  <2>. QED  BY <2>1, <2>5 DEF Ages
<1>5. CASE TrackerStarts(t)
  <2>1. UNCHANGED <<proc, dir, seen, pollAge, sched, listed, silent, spent>>
    BY <1>5 DEF TrackerStarts, owners, scheduler, manager, history
  <2>. QED  BY <2>1, RecentStays DEF Ages
<1>. QED  BY <1>1, <1>2, <1>3, <1>4, <1>5 DEF TrackerStep

\* A poll keeps what the scheduler knows of an owner heard of lately.
LEMMA PollKnows ==
  ASSUME Types, Ages, NEW p \in Peer, Recent(p), Fresh(p), Kept(p)
  PROVE  Observed[p] # NoEntry /\ Observed[p].age <= silent[p] + PollEvery
<1>1. silent[p] < Grace /\ seen[p].age < Grace /\ dir[1][p].kind # "tomb"
  BY AgeTypes DEF Fresh, Kept, Recent
<1>2. CASE dir[1][p].kind = "peer"
  <2>1. Observed[p] = [dir[1][p] EXCEPT !.age = 0]
    BY <1>2 DEF Observed
  <2>2. dir[1][p] \in EntryOf({"peer", "tomb", "expelled"}, Ttl - 1)
    BY <1>2, AgeTypes, NoEntryType DEF Entry
  <2>3. Observed[p].kind = "peer" /\ Observed[p].age = 0
    BY <1>2, <2>1, <2>2 DEF EntryOf
  <2>. QED  BY <2>3, NoEntryType, AgeTypes
<1>3. CASE dir[1][p].kind # "peer"
  <2>1. Observed[p] = seen[p]
    BY <1>1, <1>3, AgeTypes DEF Observed
  <2>. QED  BY <2>1 DEF Kept
<1>. QED  BY <1>2, <1>3

LEMMA ListedIsObserved ==
  ASSUME Types, Ages, NEW p \in Peer, dir[1][p].kind = "peer"
  PROVE  Observed[p] # NoEntry /\ Observed[p].age = 0
<1>1. Observed[p] = [dir[1][p] EXCEPT !.age = 0]
  BY DEF Observed
<1>2. dir[1][p] \in EntryOf({"peer", "tomb", "expelled"}, Ttl - 1)
  BY AgeTypes, NoEntryType DEF Entry
<1>3. Observed[p].kind = "peer" /\ Observed[p].age = 0
  BY <1>1, <1>2 DEF EntryOf
<1>. QED  BY <1>3, NoEntryType

LEMMA LiveScheduler ==
  ASSUME Live, MaxFailures <= 1, SchedulerStep
  PROVE  Ages' /\ \A q \in Peer : Recent(q)'
<1>. USE DEF Live, Epochs
<1>1. UNCHANGED <<proc, dir, listed, silent>>
  BY DEF SchedulerStep, Poll, PollFails, PutEpoch, Checkpoint, SchedulerEnds, SchedulerStarts,
         owners, trackers, history
<1>2. Ages'
  BY <1>1 DEF Ages
<1>. SUFFICES ASSUME NEW p \in Peer  PROVE Recent(p)'
  BY <1>2
<1>3. CASE Poll
  <2>1. /\ UNCHANGED spent /\ seen' = Observed /\ pollAge' = 0
        /\ sched = "up" /\ sched' # "down"
    BY <1>3 DEF Poll
  <2>2. seen'[p] = Observed[p]
    BY <2>1
  <2>3. dir[1][p].kind = "peer" => seen'[p] # NoEntry /\ seen'[p].age <= pollAge'
    BY <2>1, <2>2, ListedIsObserved
  <2>4. Fresh(p) /\ Kept(p) => Kept(p)'
    BY <1>1, <2>2, PollKnows DEF Kept
  <2>. QED  BY <1>1, <2>1, <2>3, <2>4 DEF Recent, Fresh, OnList
<1>4. CASE PollFails
  <2>1. UNCHANGED <<seen, sched, spent>> /\ ~Up(1)
    BY <1>4 DEF PollFails, manager
  <2>2. spent.failures # 0
    BY <2>1 DEF Superseding
  <2>. QED  BY <1>1, <2>1, <2>2 DEF Recent, Fresh, Kept, OnList
<1>5. CASE PutEpoch \/ Checkpoint
  <2>1. UNCHANGED <<seen, pollAge, spent>> /\ sched' # "down"
    BY <1>5 DEF PutEpoch, Checkpoint, manager
  <2>. QED  BY <1>1, <2>1, RecentStays
<1>6. CASE SchedulerEnds
  <2>1. spent.failures = 0 /\ spent'.failures = 1
    BY <1>6, FailureCounts, RecordsType, Constants DEF SchedulerEnds, Failure
  <2>. QED  BY <1>1, <2>1 DEF Recent, Fresh, OnList
<1>7. CASE SchedulerStarts
  <2>1. UNCHANGED <<seen, pollAge, spent>> /\ sched = "down"
    BY <1>7 DEF SchedulerStarts, manager
  <2>2. spent.failures # 0
    BY <2>1 DEF Superseding
  <2>. QED  BY <1>1, <2>1, <2>2 DEF Recent, Fresh, Kept, OnList
<1>. QED  BY <1>3, <1>4, <1>5, <1>6, <1>7 DEF SchedulerStep

LEMMA LiveTick ==
  ASSUME Live, Tick
  PROVE  Ages' /\ \A q \in Peer : Recent(q)'
<1>. USE DEF Live, Epochs
<1>1. UNCHANGED <<proc, sched, spent>> /\ sched # "put" /\ (sched = "up" => pollAge < PollEvery)
  BY DEF Tick
<1>2. silent' = [p \in Peer |-> Capped(silent[p], Grace)]
  BY DEF Tick
<1>3. ASSUME NEW p \in Peer  PROVE listed'[p] \in 0 .. PollEvery + 1
                                    /\ (dir'[1][p].kind = "peer" => listed'[p] = Capped(listed[p], PollEvery + 1))
  <2>1. listed[p] \in 0 .. PollEvery + 1 /\ PollEvery + 1 \in Nat
    BY Constants DEF Ages
  <2>2. Capped(listed[p], PollEvery + 1) \in 0 .. PollEvery + 1
    BY <2>1, CappedType
  <2>3. listed'[p] = IF dir'[1][p].kind = "peer" THEN Capped(listed[p], PollEvery + 1) ELSE 0
    BY DEF Tick
  <2>. QED  BY <2>1, <2>2, <2>3
<1>4. Ages'
  <2>1. \A p \in Peer : Capped(silent[p], Grace) \in 0 .. Grace
    BY Constants, CappedType DEF Ages
  <2>2. listed' \in [Peer -> 0 .. PollEvery + 1]
    BY <1>3 DEF Tick
  <2>. QED  BY <1>2, <2>1, <2>2 DEF Ages
<1>. SUFFICES ASSUME NEW p \in Peer  PROVE Recent(p)'
  BY <1>4
<1>5. silent'[p] = (IF silent[p] < Grace THEN silent[p] + 1 ELSE Grace)
  BY <1>2 DEF Capped
<1>6. dir'[1][p] = IF dir[1][p] = NoEntry \/ dir[1][p].age = Ttl - 1 THEN NoEntry
                   ELSE [dir[1][p] EXCEPT !.age = dir[1][p].age + 1]
  BY Constants DEF Tick
<1>7. /\ dir'[1][p].kind # "none" =>
           /\ dir'[1][p].kind = dir[1][p].kind /\ dir'[1][p].age = dir[1][p].age + 1
      /\ dir[1][p].kind # "none" /\ dir[1][p].age # Ttl - 1 => dir'[1][p].kind = dir[1][p].kind
  <2>1. CASE dir[1][p] = NoEntry \/ dir[1][p].age = Ttl - 1
    <3>1. dir'[1][p].kind = "none" /\ (dir[1][p] = NoEntry => dir[1][p].kind = "none")
      BY <1>6, <2>1, NoEntryType
    <3>. QED  BY <2>1, <3>1
  <2>2. CASE ~(dir[1][p] = NoEntry \/ dir[1][p].age = Ttl - 1)
    <3>1. dir[1][p] \in EntryOf({"peer", "tomb", "expelled"}, Ttl - 1)
      BY <2>2, AgeTypes DEF Entry
    <3>2. dir'[1][p] = [dir[1][p] EXCEPT !.age = dir[1][p].age + 1]
      BY <1>6, <2>2
    <3>. QED  BY <3>1, <3>2 DEF EntryOf
  <2>. QED  BY <2>1, <2>2
<1>8. seen[p] # NoEntry => /\ seen'[p] # NoEntry
                           /\ seen'[p].age = IF seen[p].age < Grace THEN seen[p].age + 1 ELSE Grace
  <2>. SUFFICES ASSUME seen[p] # NoEntry
                PROVE  /\ seen'[p] # NoEntry
                       /\ seen'[p].age = IF seen[p].age < Grace THEN seen[p].age + 1 ELSE Grace
    OBVIOUS
  <2>1. seen'[p] = [seen[p] EXCEPT !.age = Capped(seen[p].age, Grace)]
    BY DEF Tick
  <2>2. seen[p] \in EntryOf({"peer"}, Grace)
    BY DEF Types, SchedulerOK
  <2>3. seen'[p].kind = "peer" /\ seen'[p].age = Capped(seen[p].age, Grace)
    BY <2>1, <2>2 DEF EntryOf
  <2>. QED  BY <2>3, NoEntryType DEF Capped
<1>9. Fresh(p)' => Fresh(p) /\ silent'[p] = silent[p] + 1
  BY <1>1, <1>5, AgeTypes DEF Fresh
<1>10. Fresh(p)' /\ Kept(p) => Kept(p)'
  BY <1>8, <1>9, AgeTypes DEF Fresh, Kept
<1>11. spent.failures = 0 /\ dir'[1][p].kind = "peer" /\ listed'[p] > pollAge'
       => seen'[p] # NoEntry /\ seen'[p].age <= pollAge'
  <2>. SUFFICES ASSUME spent.failures = 0, dir'[1][p].kind = "peer", listed'[p] > pollAge'
                PROVE  seen'[p] # NoEntry /\ seen'[p].age <= pollAge'
    OBVIOUS
  <2>1. sched = "up" /\ pollAge < PollEvery
    BY <1>1 DEF Superseding, Types, SchedulerOK
  <2>2. pollAge' = pollAge + 1
    BY <2>1, AgeTypes DEF Tick, Capped
  <2>3. listed'[p] = (IF listed[p] < PollEvery + 1 THEN listed[p] + 1 ELSE PollEvery + 1)
    BY <1>3 DEF Capped
  <2>4. listed[p] > pollAge
    BY <2>1, <2>2, <2>3, AgeTypes
  <2>5. seen[p] # NoEntry /\ seen[p].age <= pollAge
    BY <1>7, <2>4 DEF Recent
  <2>. QED  BY <1>8, <2>2, <2>5, AgeTypes
<1>12. proc[p] # "leaving" /\ silent'[p] < Grace => dir'[1][p].kind # "tomb"
  BY <1>5, <1>7, AgeTypes DEF Recent
<1>13. Fresh(p)' /\ silent'[p] < Ttl /\ OnList(p) => OnList(p)'
  <2>. SUFFICES ASSUME Fresh(p)', silent'[p] < Ttl, OnList(p)  PROVE OnList(p)'
    OBVIOUS
  <2>1. dir[1][p].age # Ttl - 1
    BY <1>9, AgeTypes DEF OnList
  <2>2. dir'[1][p].kind = "peer" /\ dir'[1][p].age = dir[1][p].age + 1
    BY <1>7, <2>1 DEF OnList
  <2>. QED  BY <1>9, <2>2, AgeTypes DEF OnList
<1>14. silent'[p] < Ttl /\ Fresh(p)' => silent[p] < Ttl
  BY <1>9, AgeTypes
<1>. QED  BY <1>1, <1>9, <1>10, <1>11, <1>12, <1>13, <1>14 DEF Recent

LEMMA LiveAlways ==
  ASSUME MaxFailures <= 1
  PROVE  Spec => []Live
<1>1. Init => Live
  <2>. SUFFICES ASSUME Init  PROVE Ages /\ \A p \in Peer : Recent(p)
    BY InitEpochs DEF Live
  <2>1. Ages
    BY Constants DEF Init, Ages
  <2>2. \A p \in Peer : silent[p] = Grace /\ dir[1][p] = NoEntry
    BY Constants DEF Init
  <2>3. ~(Grace + PollEvery < Grace) /\ ~(Grace < Grace)
    BY Constants
  <2>. QED  BY <2>1, <2>2, <2>3, NoEntryType DEF Recent, Fresh
<1>2. Live /\ [Next]_vars => Live'
  <2>. SUFFICES ASSUME Live, [Next]_vars  PROVE Live'
    OBVIOUS
  <2>1. Epochs'
    BY NextEpochs DEF Live
  <2>2. CASE UNCHANGED vars
    <3>1. UNCHANGED <<proc, dir, listed, silent, seen, pollAge, sched, spent>>
      BY <2>2 DEF vars, owners, trackers, scheduler, manager, history
    <3>. QED  BY <2>1, <3>1, RecentStays DEF Live, Ages
  <2>. QED  BY <2>1, <2>2, LiveTick, LiveOwners, LiveTrackers, LiveScheduler DEF Next, Live
<1>. QED  BY <1>1, <1>2, PTL DEF Spec

\* With one failure at most, of the scheduler or of a tracker: an owner that runs,
\* and that the first tracker heard of lately, is in the next epoch, suspended or
\* not, whatever became of its registration (EpochManager.observe with its grace,
\* watch_tracker, TrackerServer._admit).
THEOREM LiveOwnersAreKept ==
  ASSUME MaxFailures <= 1
  PROVE  Spec => LiveOwnersStay
<1>1. ASSUME Live, [Next]_vars, Signed, NEW p \in Peer, proc[p] \in {"up", "paused"},
             silent[p] < Ttl, silent[p] + PollEvery < Grace
      PROVE  \E o \in epoch'.owners : o[1] = p
  <2>1. epoch'.owners = Signature(Observed)
    BY <1>1, Signs DEF Live, Epochs
  <2>2. Types /\ Ages /\ Recent(p) /\ Fresh(p)
    BY <1>1 DEF Live, Epochs, Fresh
  <2>3. OnList(p) \/ Kept(p)
    BY <1>1, <2>2 DEF Recent
  <2>4. Observed[p] # NoEntry
    BY <2>2, <2>3, PollKnows, ListedIsObserved DEF OnList
  <2>5. <<p, SessionOf(Observed[p].stamp)>> \in Signature(Observed)
    BY <2>4 DEF Signature
  <2>. QED  BY <2>1, <2>5
<1>2. Live /\ [Next]_vars =>
        [ Signed =>
            \A p \in Peer :
              /\ \E o \in epoch.owners : o[1] = p
              /\ proc[p] \in {"up", "paused"}
              /\ silent[p] < Ttl /\ silent[p] + PollEvery < Grace
              => \E o \in epoch'.owners : o[1] = p ]_vars
  BY <1>1
<1>. QED  BY <1>2, LiveAlways, PTL DEF Spec, LiveOwnersStay

=============================================================================
