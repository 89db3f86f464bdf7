----------------------------- MODULE Membership -----------------------------
(***************************************************************************)
(* Membership of the dynamic owners (schedule/tracker.py,                  *)
(* schedule/ownership.py, and what Scheduler and ParameterServer of        *)
(* schedule/sharded.py do about it, with rendezvous ownership).            *)
(*                                                                         *)
(* Owners register with every tracker of a list of seeds, over and over:   *)
(* a registration lives for a TTL.  A departing owner deregisters, which   *)
(* leaves a tombstone.  The scheduler polls the first tracker and          *)
(* publishes an epoch, a numbered set of owners, when the set changed:     *)
(* with a grace period for owners it no longer sees and a minimum time     *)
(* between epochs.  It caches the record on the tracker, for its own next  *)
(* life.  Owners poll the scheduler for it.  Trackers, the scheduler and   *)
(* owners crash; none of them keeps anything but the scheduler's           *)
(* checkpoint.                                                             *)
(*                                                                         *)
(* Time goes in ticks, kept as ages.  All the registrations an owner signs *)
(* in one life (session) carry one stamp, its departure a higher one, and  *)
(* what it signs after that one higher still.  Its port, and so its        *)
(* address, is another in each session.  Signatures hold, and the          *)
(* reputation gate passes everybody.                                       *)
(***************************************************************************)
EXTENDS Integers, FiniteSets, Sequences, FiniteSetsExt

CONSTANTS
  Peer,         \* the owners
  NumSeeds,     \* the trackers are 1 .. NumSeeds; the scheduler polls the first
  Ttl,          \* ttl of a registration, in ticks
  BeatEvery,    \* interval of the owners' heartbeats
  PollEvery,    \* poll_interval of the scheduler
  Grace,        \* owner_grace
  MinInterval,  \* min_epoch_interval
  MaxPeers,     \* max_peers of a tracker
  MaxSession,   \* bound on the lives of an owner
  MaxOutage,    \* bound on the ticks a tracker stays down
  MaxFailures,  \* bound on crashes of trackers and the scheduler
  MaxEvents,    \* bound on these and all else that happens from outside: suspensions,
                \* departures and crashes of owners, expulsions
  MaxImports    \* bound on the records relayed

ASSUME ConstantAssumption ==
  /\ IsFiniteSet(Peer) /\ Peer # {}
  /\ NumSeeds \in Nat \ {0}
  /\ {Ttl, BeatEvery, PollEvery, Grace, MinInterval, MaxPeers, MaxSession} \subseteq Nat \ {0}
  /\ {MaxOutage, MaxFailures, MaxEvents, MaxImports} \subseteq Nat

Seed == 1 .. NumSeeds

VARIABLES
  (* The owner processes. *)
  proc,      \* owner -> "up", "paused" (suspended), "leaving" or "down"
  session,   \* owner -> the number of its life
  at,        \* owner -> the seed its heartbeat thread is about to register with, or 0
  beatAge,   \* owner -> ticks since its last round of registrations ended
  goodbye,   \* owner -> the seed it is about to deregister from, or 0
  hung,      \* owner -> the seed it was registering with when it began to leave, or 0
  view,      \* owner -> the epoch record it has adopted, or NoEpoch
  (* The trackers. *)
  down,      \* seed -> ticks it has been down, or -1 while it is up
  dir,       \* seed -> owner -> its entry in _peers, or NoEntry
  cached,    \* seed -> its _epoch, or NoEpoch
  enrolled,  \* seed -> _enrolled
  (* The scheduler. *)
  sched,     \* "up", "put" (about to cache its new record on the tracker) or "down"
  pollAge,   \* ticks since its last poll
  seen,      \* _seen of its EpochManager: owner -> stamp and age, or NoEntry
  current,   \* _current: the owner set of the last bump, {} for None
  bumpAge,   \* ticks since _last_bump, MinInterval if there is none
  epoch,     \* _epoch_record, or NoEpoch
  floor,     \* _epoch_floor
  saved,     \* the floor that its checkpoint restores
  (* History and bounds. *)
  issues,    \* the number of epoch records signed
  listed,    \* owner -> ticks that the first tracker has listed it, without a break
  silent,    \* owner -> ticks since the first tracker took a registration of this life,
             \* of an owner that it had listed for longer than a poll interval
  left,      \* owner -> the session whose departure the first tracker knows of, and
             \* for how long it has
  spent      \* how many failures, events and imports there were

owners == <<proc, session, at, beatAge, goodbye, hung>>
trackers == <<down, dir, cached, enrolled>>
manager == <<seen, current, bumpAge>>
scheduler == <<sched, pollAge, manager, epoch, floor, saved>>
history == <<issues, listed, silent, left>>
vars == <<owners, view, trackers, scheduler, history, spent>>

NoEntry == [kind |-> "none", stamp |-> 0, age |-> 0]
NoEpoch == [num |-> -1, issue |-> 0, owners |-> {}]
NotLeft == [session |-> 0, age |-> 0]

Up(t) == down[t] = -1
Running(p) == proc[p] # "down"

\* Stamps: registrations of session s, its departure, and registrations later.
Registered(p) ==
  IF goodbye[p] = 0 \/ at[p] = hung[p] THEN 3 * session[p] ELSE 3 * session[p] + 2
Departed(p) == 3 * session[p] + 1
SessionOf(stamp) == stamp \div 3

Capped(n, bound) == IF n < bound THEN n + 1 ELSE bound

Event ==
  /\ spent.events < MaxEvents
  /\ spent' = [spent EXCEPT !.events = @ + 1]

Failure ==
  /\ spent.failures < MaxFailures /\ spent.events < MaxEvents
  /\ spent' = [spent EXCEPT !.failures = @ + 1, !.events = @ + 1]

-----------------------------------------------------------------------------
Init ==
  /\ proc = [p \in Peer |-> "up"]
  /\ session = [p \in Peer |-> 1]
  /\ at = [p \in Peer |-> 1]
  /\ beatAge = [p \in Peer |-> 0]
  /\ goodbye = [p \in Peer |-> 0]
  /\ hung = [p \in Peer |-> 0]
  /\ view = [p \in Peer |-> NoEpoch]
  /\ down = [t \in Seed |-> -1]
  /\ dir = [t \in Seed |-> [p \in Peer |-> NoEntry]]
  /\ cached = [t \in Seed |-> NoEpoch]
  /\ enrolled = [t \in Seed |-> Peer]
  /\ sched = "up"
  /\ pollAge = PollEvery
  /\ seen = [p \in Peer |-> NoEntry]
  /\ current = {}
  /\ bumpAge = MinInterval
  /\ epoch = NoEpoch
  /\ floor = 0
  /\ saved = 0
  /\ issues = 0
  /\ listed = [p \in Peer |-> 0]
  /\ silent = [p \in Peer |-> Grace]
  /\ left = [p \in Peer |-> NotLeft]
  /\ spent = [failures |-> 0, events |-> 0, imports |-> 0]

-----------------------------------------------------------------------------
\* The tracker's handlers.

Entries(t) == {p \in Peer : dir[t][p] # NoEntry}

Put(t, p, entry) == dir' = [dir EXCEPT ![t][p] = entry]

\* Mutant of Admits: an older copy displaces what the tracker has.
AdmitsAny(t, p, stamp, fresh) == p \in enrolled[t]

\* _admit and _register: a record is taken if its peer is enrolled, it is newer
\* than the entry, and there is room.  A record that was signed just now is
\* newer than another of the same session.
Admits(t, p, stamp, fresh) ==
  /\ p \in enrolled[t]
  /\ \/ dir[t][p] = NoEntry /\ Cardinality(Entries(t)) < MaxPeers
     \/ /\ dir[t][p] # NoEntry
        /\ \/ stamp > dir[t][p].stamp
           \/ fresh /\ stamp = dir[t][p].stamp

Register(t, p, stamp, fresh) ==
  IF Admits(t, p, stamp, fresh)
  THEN /\ Put(t, p, [kind |-> "peer", stamp |-> stamp, age |-> 0])
       /\ IF t # 1 THEN UNCHANGED <<listed, silent, left>>
          ELSE /\ listed' = IF dir[t][p].kind = "peer" THEN listed
                            ELSE [listed EXCEPT ![p] = 0]
               /\ silent' = IF listed'[p] <= PollEvery THEN silent
                            ELSE [silent EXCEPT ![p] = 0]
               /\ left' = IF SessionOf(stamp) <= left[p].session THEN left
                          ELSE [left EXCEPT ![p] = NotLeft]
  ELSE UNCHANGED <<dir, listed, silent, left>>

\* _deregister: a tombstone, unless something newer is known.
Deregister(t, p, stamp) ==
  IF dir[t][p] = NoEntry \/ stamp > dir[t][p].stamp
  THEN /\ Put(t, p, [kind |-> "tomb", stamp |-> stamp, age |-> 0])
       /\ left' = IF t = 1
                  THEN [left EXCEPT ![p] = [session |-> SessionOf(stamp), age |-> 0]]
                  ELSE left
  ELSE UNCHANGED <<dir, left>>

\* _import of a relayed record, one of a session that is over or about to be: what
\* a copy of the present one does, its owner does too.
Import(t, p) ==
  /\ Up(t)
  /\ spent.imports < MaxImports
  /\ spent' = [spent EXCEPT !.imports = @ + 1]
  /\ \E s \in 1 .. session[p] :
       /\ s < session[p] \/ proc[p] \in {"leaving", "down"}
       /\ Admits(t, p, 3 * s, FALSE) /\ Register(t, p, 3 * s, FALSE)
  /\ UNCHANGED <<owners, view, down, cached, enrolled, scheduler, issues>>

\* expel: the enrollment goes and the record, if there is one, turns into a
\* tombstone with the time of the tracker, which is not surfaced.
Expel(t, p) ==
  /\ Up(t) /\ p \in enrolled[t]
  /\ Event
  /\ enrolled' = [enrolled EXCEPT ![t] = @ \ {p}]
  /\ IF dir[t][p].kind = "peer"
     THEN Put(t, p, [kind |-> "expelled", stamp |-> dir[t][p].stamp, age |-> 0])
     ELSE UNCHANGED dir
  /\ silent' = IF t = 1 THEN [silent EXCEPT ![p] = Grace] ELSE silent
  /\ UNCHANGED <<owners, view, down, cached, scheduler, issues, listed, left>>

\* enroll.
Enroll(t, p) ==
  /\ Up(t) /\ p \notin enrolled[t]
  /\ enrolled' = [enrolled EXCEPT ![t] = @ \cup {p}]
  /\ UNCHANGED <<owners, view, down, dir, cached, scheduler, history, spent>>

\* The process ends, with all it knew; another one is started in its place,
\* with the same enrollments.
TrackerFails(t) ==
  /\ Up(t)
  /\ Failure
  /\ down' = [down EXCEPT ![t] = 0]
  /\ dir' = [dir EXCEPT ![t] = [p \in Peer |-> NoEntry]]
  /\ cached' = [cached EXCEPT ![t] = NoEpoch]
  /\ left' = IF t = 1 THEN [p \in Peer |-> NotLeft] ELSE left
  /\ UNCHANGED <<owners, view, enrolled, scheduler, issues, listed, silent>>

TrackerStarts(t) ==
  /\ ~Up(t)
  /\ down' = [down EXCEPT ![t] = -1]
  /\ UNCHANGED <<owners, view, dir, cached, enrolled, scheduler, history, spent>>

-----------------------------------------------------------------------------
\* The owners: heartbeats, suspensions, departures, crashes, restarts.

NextSeed(t) == IF t = NumSeeds THEN 0 ELSE t + 1

\* beat(): the interval since the last round of registrations is over.
RoundDue(p) == Running(p) /\ at[p] = 0 /\ beatAge[p] = BeatEvery - 1

\* _multi_home_register: one seed after the other, each with a record signed for
\* it; one that is away is skipped.
Beat(p) ==
  /\ Running(p) /\ at[p] # 0
  /\ at' = [at EXCEPT ![p] = NextSeed(at[p])]
  /\ IF Up(at[p]) THEN Register(at[p], p, Registered(p), TRUE)
     ELSE UNCHANGED <<dir, listed, silent, left>>
  /\ UNCHANGED <<proc, session, beatAge, goodbye, hung, view, down, cached, enrolled,
                 scheduler, issues, spent>>

\* pause_heartbeat, resume_heartbeat.
Pause(p) ==
  /\ proc[p] = "up"
  /\ Event
  /\ proc' = [proc EXCEPT ![p] = "paused"]
  /\ UNCHANGED <<session, at, beatAge, goodbye, hung, view, trackers, scheduler, history>>

Resume(p) ==
  /\ proc[p] = "paused"
  /\ proc' = [proc EXCEPT ![p] = "up"]
  /\ UNCHANGED <<session, at, beatAge, goodbye, hung, view, trackers, scheduler, history,
                 spent>>

\* shutdown(graceful=True) pauses the heartbeat thread and waits for it; not for
\* long, if it hangs on a tracker that is away.
Leave(p) ==
  /\ proc[p] \in {"up", "paused"}
  /\ at[p] # 0 => ~Up(at[p])
  /\ proc' = [proc EXCEPT ![p] = "leaving"]
  /\ goodbye' = [goodbye EXCEPT ![p] = 1]
  /\ hung' = [hung EXCEPT ![p] = at[p]]
  /\ Event
  /\ UNCHANGED <<session, at, beatAge, view, trackers, scheduler, history>>

\* It deregisters from one seed after the other.
SayGoodbye(p) ==
  /\ proc[p] = "leaving" /\ goodbye[p] \in Seed
  /\ goodbye' = [goodbye EXCEPT ![p] = @ + 1]
  /\ IF Up(goodbye[p]) THEN Deregister(goodbye[p], p, Departed(p))
     ELSE UNCHANGED <<dir, left>>
  /\ UNCHANGED <<proc, session, at, beatAge, hung, view, down, cached, enrolled, scheduler,
                 issues, listed, silent, spent>>

\* The process is gone, and its heartbeat thread with it.
GoDown(p) ==
  /\ proc' = [proc EXCEPT ![p] = "down"]
  /\ at' = [at EXCEPT ![p] = 0]
  /\ beatAge' = [beatAge EXCEPT ![p] = 0]
  /\ goodbye' = [goodbye EXCEPT ![p] = 0]
  /\ hung' = [hung EXCEPT ![p] = 0]
  /\ view' = [view EXCEPT ![p] = NoEpoch]
  /\ silent' = [silent EXCEPT ![p] = Grace]
  /\ UNCHANGED <<session, trackers, scheduler, issues, listed, left>>

Exit(p) == proc[p] = "leaving" /\ goodbye[p] > NumSeeds /\ GoDown(p) /\ UNCHANGED spent
Crash(p) == proc[p] \in {"up", "paused"} /\ Event /\ GoDown(p)

\* start_tracker_heartbeat of a new process, which registers at once.
Start(p) ==
  /\ proc[p] = "down" /\ session[p] < MaxSession
  /\ proc' = [proc EXCEPT ![p] = "up"]
  /\ session' = [session EXCEPT ![p] = @ + 1]
  /\ at' = [at EXCEPT ![p] = 1]
  /\ UNCHANGED <<beatAge, goodbye, hung, view, trackers, scheduler, history, spent>>

-----------------------------------------------------------------------------
\* The scheduler.

\* epoch_newer: by number, then by the time of signing.
EpochNewer(a, b) == a.num > b.num \/ (a.num = b.num /\ a.issue > b.issue)

\* Mutant of Observed: owners that are not listed are forgotten at once.
ObservedListed ==
  [p \in Peer |-> IF dir[1][p].kind = "peer" THEN [dir[1][p] EXCEPT !.age = 0] ELSE NoEntry]

\* observe, its first half: what is listed has been seen just now; a tombstone
\* newer than the record that was seen removes it, and so does the grace.
Observed ==
  [p \in Peer |->
     CASE dir[1][p].kind = "peer" -> [dir[1][p] EXCEPT !.age = 0]
       [] dir[1][p].kind = "tomb" /\ dir[1][p].stamp > seen[p].stamp -> NoEntry
       [] OTHER -> IF seen[p].age >= Grace THEN NoEntry ELSE seen[p]]

Signature(s) == {<<p, SessionOf(s[p].stamp)>> : p \in {q \in Peer : s[q] # NoEntry}}

\* Mutant of Due: an owner at another address is no change.
DueForOthers(signature) ==
  /\ signature # {} /\ {o[1] : o \in signature} # {o[1] : o \in current}
  /\ bumpAge >= MinInterval

\* Its second half: a changed set is due, unless it is empty or the last bump
\* was a moment ago.
Due(signature) ==
  /\ signature # {} /\ signature # current
  /\ bumpAge >= MinInterval

\* publish_epoch: the number is above the floor and the record it has.
NextNumber == Max({floor, epoch.num + 1})

\* One round of the thread that watches the tracker, up to put_epoch.
Poll ==
  /\ sched = "up" /\ pollAge = PollEvery /\ Up(1)
  /\ pollAge' = 0
  /\ seen' = Observed
  /\ LET signature == Signature(Observed) IN
     IF Due(signature)
     THEN /\ current' = signature
          /\ bumpAge' = 0
          /\ epoch' = [num |-> NextNumber, issue |-> issues + 1, owners |-> signature]
          /\ floor' = NextNumber + 1
          /\ issues' = issues + 1
          /\ sched' = "put"
     ELSE UNCHANGED <<current, bumpAge, epoch, floor, issues, sched>>
  /\ UNCHANGED <<owners, view, trackers, saved, listed, silent, left, spent>>

\* The tracker is away.
PollFails ==
  /\ sched = "up" /\ ~Up(1) /\ pollAge = PollEvery
  /\ pollAge' = 0
  /\ UNCHANGED <<owners, view, trackers, sched, manager, epoch, floor, saved, history,
                 spent>>

\* put_epoch and the tracker's _epoch_put; if it fails, it is not tried again.
PutEpoch ==
  /\ sched = "put"
  /\ sched' = "up"
  /\ cached' = IF Up(1) /\ EpochNewer(epoch, cached[1]) THEN [cached EXCEPT ![1] = epoch]
               ELSE cached
  /\ UNCHANGED <<owners, view, down, dir, enrolled, pollAge, manager, epoch, floor, saved,
                 history, spent>>

\* _checkpoint_cluster, what it keeps of the epoch; tasks that make one due are
\* only served under an epoch.
Checkpoint ==
  /\ sched # "down" /\ epoch # NoEpoch /\ saved # epoch.num + 1
  /\ saved' = epoch.num + 1
  /\ UNCHANGED <<owners, view, trackers, sched, pollAge, manager, epoch, floor, history,
                 spent>>

\* The process crashes, or is stopped: then fit writes a last checkpoint, with
\* the record it has, if any.
SchedulerEnds ==
  /\ sched # "down"
  /\ Failure
  /\ sched' = "down"
  /\ pollAge' = PollEvery
  /\ seen' = [p \in Peer |-> NoEntry]
  /\ current' = {}
  /\ bumpAge' = MinInterval
  /\ epoch' = NoEpoch
  /\ floor' = 0
  /\ saved' \in {saved, epoch.num + 1}
  /\ UNCHANGED <<owners, view, trackers, history>>

\* Mutant of Resumed: the new process does not ask the tracker.
ResumedNothing == NoEpoch

\* The record it had cached on the tracker, if that answers now.
Resumed == IF Up(1) THEN cached[1] ELSE NoEpoch

\* It is started again, to resume: _load_state, then watch_tracker.
SchedulerStarts ==
  /\ sched = "down"
  /\ sched' = "up"
  /\ epoch' = Resumed
  /\ floor' = Max({saved, epoch'.num + 1})
  /\ UNCHANGED <<owners, view, trackers, pollAge, manager, saved, history, spent>>

\* _poll_epoch and apply_epoch of an owner.
AdoptEpoch(p) ==
  /\ proc[p] \in {"up", "paused"} /\ sched # "down"
  /\ EpochNewer(epoch, view[p])
  /\ view' = [view EXCEPT ![p] = epoch]
  /\ UNCHANGED <<owners, trackers, scheduler, history, spent>>

-----------------------------------------------------------------------------
\* Time passes, unless something is due: a registration is only under way for
\* longer if its tracker is away, polls are on time, and the tracker's operator
\* does not wait for ever.  Rounds of registrations fall due; a suspended owner
\* leaves its round out.
Tick ==
  /\ \A p \in Peer : Running(p) /\ at[p] # 0 => ~Up(at[p])
  /\ sched = "up" => pollAge < PollEvery
  /\ sched # "put"
  /\ \A t \in Seed : down[t] < MaxOutage
  /\ beatAge' = [p \in Peer |-> IF Running(p) /\ at[p] = 0 /\ ~RoundDue(p)
                                THEN beatAge[p] + 1 ELSE 0]
  /\ at' = [p \in Peer |-> IF RoundDue(p) /\ proc[p] = "up" THEN 1 ELSE at[p]]
  /\ pollAge' = Capped(pollAge, PollEvery)
  /\ bumpAge' = Capped(bumpAge, MinInterval)
  /\ seen' = [p \in Peer |-> IF seen[p] = NoEntry THEN NoEntry
                             ELSE [seen[p] EXCEPT !.age = Capped(@, Grace)]]
  /\ dir' = [t \in Seed |-> [p \in Peer |->
               IF dir[t][p] = NoEntry \/ dir[t][p].age = Ttl - 1 THEN NoEntry
               ELSE [dir[t][p] EXCEPT !.age = @ + 1]]]
  /\ down' = [t \in Seed |-> IF Up(t) THEN -1 ELSE down[t] + 1]
  /\ listed' = [p \in Peer |-> IF dir'[1][p].kind = "peer" THEN Capped(listed[p], PollEvery + 1)
                               ELSE 0]
  /\ silent' = [p \in Peer |-> Capped(silent[p], Grace)]
  /\ left' = [p \in Peer |-> IF left[p] = NotLeft \/ left[p].age = Ttl - 1 THEN NotLeft
                             ELSE [left[p] EXCEPT !.age = @ + 1]]
  /\ UNCHANGED <<proc, session, goodbye, hung, view, cached, enrolled, sched, current, epoch,
                 floor, saved, issues, spent>>

OwnerStep(p) ==
  \/ Beat(p)
  \/ Pause(p) \/ Resume(p)
  \/ Leave(p) \/ SayGoodbye(p) \/ Exit(p)
  \/ Crash(p) \/ Start(p)
  \/ AdoptEpoch(p)

TrackerStep(t) ==
  \/ TrackerFails(t) \/ TrackerStarts(t)
  \/ \E p \in Peer : Import(t, p) \/ Expel(t, p) \/ Enroll(t, p)

SchedulerStep ==
  \/ Poll \/ PollFails \/ PutEpoch
  \/ Checkpoint
  \/ SchedulerEnds \/ SchedulerStarts

Next ==
  \/ Tick
  \/ \E p \in Peer : OwnerStep(p)
  \/ \E t \in Seed : TrackerStep(t)
  \/ SchedulerStep

Spec == Init /\ [][Next]_vars

\* Threads run and time passes; trackers and the scheduler are started again.
\* Nobody has to start an owner, wake it up or enroll it.
Fairness ==
  /\ WF_vars(Tick)
  /\ WF_vars(Poll \/ PollFails \/ PutEpoch)
  /\ WF_vars(SchedulerStarts)
  /\ \A t \in Seed : WF_vars(TrackerStarts(t))
  /\ \A p \in Peer :
       /\ WF_vars(Beat(p))
       /\ WF_vars(SayGoodbye(p) \/ Exit(p))
       /\ WF_vars(AdoptEpoch(p))

FairSpec == Spec /\ Fairness

-----------------------------------------------------------------------------
(* Properties *)

EntryOf(kinds, bound) ==
  [kind : kinds, stamp : 0 .. 3 * MaxSession + 2, age : 0 .. bound]
EpochRecord == [num : Nat, issue : Nat, owners : SUBSET (Peer \X (0 .. MaxSession))]

\* Ranges, what goes with a process being down or leaving, and what the
\* scheduler's epoch and floor have to do with each other.
TypeOK ==
  /\ proc \in [Peer -> {"up", "paused", "leaving", "down"}]
  /\ session \in [Peer -> 1 .. MaxSession]
  /\ \A p \in Peer :
       /\ at[p] \in 0 .. NumSeeds /\ goodbye[p] \in 0 .. NumSeeds + 1
       /\ hung[p] \in 0 .. NumSeeds /\ beatAge[p] \in 0 .. BeatEvery - 1
       /\ goodbye[p] # 0 <=> proc[p] = "leaving"
       /\ proc[p] = "down" => at[p] = 0 /\ hung[p] = 0 /\ view[p] = NoEpoch
  /\ view \in [Peer -> EpochRecord \cup {NoEpoch}]
  /\ down \in [Seed -> -1 .. MaxOutage]
  /\ dir \in [Seed -> [Peer -> EntryOf({"peer", "tomb", "expelled"}, Ttl - 1) \cup {NoEntry}]]
  /\ cached \in [Seed -> EpochRecord \cup {NoEpoch}]
  /\ enrolled \in [Seed -> SUBSET Peer]
  /\ sched \in {"up", "put", "down"}
  /\ pollAge \in 0 .. PollEvery
  /\ seen \in [Peer -> EntryOf({"peer"}, Grace) \cup {NoEntry}]
  /\ current \subseteq Peer \X (0 .. MaxSession)
  /\ bumpAge \in 0 .. MinInterval
  /\ epoch \in EpochRecord \cup {NoEpoch}
  /\ floor \in Nat /\ saved \in Nat
  /\ sched # "down" => floor > epoch.num
  /\ \A t \in Seed : ~Up(t) => dir[t] = [p \in Peer |-> NoEntry] /\ cached[t] = NoEpoch

Signed == issues' # issues

\* An owner of the epoch that runs, and that the first tracker heard of lately,
\* is in the next one, at whatever address, even though the tracker or the
\* scheduler was replaced, or it was suspended, in between.  "Lately" is within
\* the TTL (a new scheduler knows only what is listed) and, as a poll may come
\* late in its interval, a poll less than the grace.  With at most one failure of a
\* tracker or the scheduler.  (EpochManager.observe: "a flapping owner causes no
\* bump".)
LiveOwnersStay ==
  [][ Signed =>
        \A p \in Peer :
          /\ \E o \in epoch.owners : o[1] = p
          /\ proc[p] \in {"up", "paused"}
          /\ silent[p] < Ttl /\ silent[p] + PollEvery < Grace
          => \E o \in epoch'.owners : o[1] = p ]_vars

\* While the first tracker knows of a departure, no epoch is signed with the
\* owner that departed: not with the copies of its record that others relay, not
\* with what its heartbeat thread still sends.  (shutdown(graceful=True) of
\* ParameterServer: a register in flight is refused behind the tombstone.)
DepartedStayOut ==
  [][ Signed =>
        \A p \in Peer : left[p] # NotLeft =>
          \A o \in epoch'.owners : o[1] = p => o[2] > left[p].session ]_vars

\* A record that is signed supersedes what every owner has adopted, also when
\* the scheduler was replaced: otherwise the owners would never adopt it.  With
\* at most one failure (of the scheduler, or of the tracker).
EpochsSupersede ==
  [][ Signed => \A p \in Peer : EpochNewer(epoch', view[p]) ]_vars

\* Who should own modules, when nothing happens any more.
Members ==
  {<<p, session[p]>> : p \in {q \in Peer : proc[q] = "up" /\ q \in enrolled[1]}}

\* Once crashes, departures and returns are over, the epoch is of the owners
\* that are there, at their present addresses, and all of them have adopted it
\* (if there are any: an epoch of nobody is never published).
Converges ==
  <>[]( \/ Members = {}
        \/ /\ epoch.owners = Members
           /\ \A o \in Members : view[o[1]] = epoch )
=============================================================================
