------------------------------ MODULE Sharded ------------------------------
(***************************************************************************)
(* A sharded run under one epoch (schedule/sharded.py): the scheduler that *)
(* leases path-tasks and counts their commits, the workers that fetch,     *)
(* train, commit and push, the parameter servers that hold the modules,    *)
(* and the cluster checkpoint that a restarted run resumes from.           *)
(*                                                                         *)
(* The bytes of a module are abstracted to the set of leases whose update  *)
(* it has absorbed, and a version to how many these are; the epoch is the  *)
(* first of its run, flagged bootstrap.  A lease token is a path and a     *)
(* number that occurs nowhere else.  A request and its answer are one      *)
(* step.  A lease expires when nobody renews it, or as a fault although    *)
(* its worker lives.  Audits, epoch changes, the order of two updates of   *)
(* one module, payload encodings and the data plane are left out (see      *)
(* Audit, Membership and Replication).                                     *)
(***************************************************************************)
EXTENDS Integers, FiniteSets, Sequences, FiniteSetsExt, Functions

CONSTANTS
  Path,            \* the paths of the topology
  Key,             \* the module keys
  Keys,            \* path -> the keys of its modules
  NumOwners,       \* parameter servers are 1 .. NumOwners, in address order
  IOThreads,       \* the number of I/O threads of each, which run its handlers
  Replicas,        \* key -> its owners in rank order, the primary first
  Dir,             \* owner -> the directory its checkpoint files go to
  Worker,
  Slow,            \* the workers whose measured rate is too low
  Leavers,         \* the workers that may be told to leave
  NumGenerations,  \* updates per path, as the scheduler is first told (fit)
  MoreGenerations, \* the same, after a restart
  StalenessBound,
  CheckpointEvery, \* 0: no checkpoints
  MaxToken,        \* bound on the number of tokens of a path in use at once
  MaxFaults,       \* bound on the number of faults
  NoFile, Torn, NoLease  \* model values: no file, no readable one, no lease

Owner == 1 .. NumOwners
IOThread == 1 .. IOThreads
Token == Path \X (1 .. MaxToken)

ASSUME ConstantAssumption ==
  /\ IsFiniteSet(Path)
  /\ NoLease \notin Token /\ Torn # NoFile /\ \A S \in SUBSET Token : S \notin {NoFile, Torn}
  /\ Keys \in [Path -> (SUBSET Key) \ {{}}] /\ DOMAIN Dir = Owner
  /\ \A k \in Key : Replicas[k] \in Seq(Owner) \ {<<>>} /\ IsInjective(Replicas[k])
  /\ Slow \subseteq Worker /\ Leavers \subseteq Worker
  /\ {NumOwners, IOThreads, NumGenerations, MoreGenerations, StalenessBound, CheckpointEvery,
      MaxToken, MaxFaults} \subseteq Nat

VARIABLES
  (* The scheduler. *)
  sch,       \* "gated" by its manifest, "serving", "closing" (the last checkpoint),
             \* "over" (it has shut down), or "down" (it crashed)
  T,         \* _T
  target,    \* _target
  completed, \* path -> _completed
  lease,     \* path -> its _lease token while it is in _inflight, or NoLease
  issued,    \* path -> _issued
  measured,  \* the workers in _worker_rate
  resting,   \* the slow workers let through less than a cooldown ago (_parked)
  floor,     \* _manifest: key -> version, -1 for none
  lastCkpt,  \* fit's last_ckpt
  ckpt,      \* the cluster checkpoint in progress: the owners left to ask, the I/O
             \* thread of the first that handles the request (0: none yet), what the
             \* others said they hold
  (* Its files. *)
  saved,     \* scheduler.pt
  manifest,  \* manifest.json
  (* The parameter servers. *)
  up,        \* owner -> is its process running
  active,    \* owner -> _active
  content,   \* owner -> key -> the updates its module has absorbed
  written,   \* owner -> key -> _saved_versions, -1 for none
  seen,      \* owner -> _seen_grants
  saving,    \* owner -> I/O thread -> the call of save_modules it is in: the
             \* snapshot, the keys whose files are left to replace, those whose
             \* temporary file another call has taken, and whether another call
             \* has run at the same time
  overdue,   \* owner -> the checkpoint requests that no scheduler waits for any
             \* more and no thread has got to yet
  file,      \* directory -> key -> the contents of its module file
  (* The workers. *)
  worker,    \* worker -> where it is, with what
  (* History. *)
  granted,   \* the accepted leases: their token, and the generations they were
             \* trained and counted as
  counted,   \* the tokens the scheduler's clock accounts for
  dropped,   \* the tokens whose update was given up
  late,      \* the directories an owner wrote to when no scheduler waited for it
  overtaken, \* the keys of which two calls of save_modules that ran at the same time
             \* left an older file than they found or meant to write, or a torn one
  crashed,   \* the owners that went down at least once
  faults     \* the number of faults

clock == <<T, target, completed, lease, issued, measured, resting>>
checkpoint == <<floor, lastCkpt, ckpt, saved, manifest>>
servers == <<up, active, content, written, seen, saving, overdue, file>>
history == <<granted, counted, dropped, late, overtaken, crashed>>
vars == <<sch, clock, checkpoint, servers, worker, history, faults>>

-----------------------------------------------------------------------------
Version == Nat \cup {-1}
Primary(k) == Replicas[k][1]
Holds(o) == {k \in Key : o \in Range(Replicas[k])}
Ver(o, k) == Cardinality(content[o][k])
Directory == Range(Dir)

NoVersions == [k \in Key |-> -1]
NoCkpt == [at |-> "none", left |-> <<>>, by |-> 0, held |-> NoVersions]
NoSave == [on |-> FALSE, left |-> {}, taken |-> {}, crossed |-> FALSE,
           state |-> [k \in Key |-> {}]]
NoClock == [T |-> -1, completed |-> [p \in Path |-> 0], counted |-> {}]

Idle == [at |-> "idle", connected |-> TRUE, token |-> NoLease, gen |-> -1,
         todo |-> {}, failed |-> {}, again |-> FALSE]
Away == [Idle EXCEPT !.connected = FALSE]

Init ==
  /\ sch = "serving"
  /\ T = 0
  /\ target = NumGenerations * Cardinality(Path)
  /\ completed = [p \in Path |-> 0]
  /\ lease = [p \in Path |-> NoLease]
  /\ issued = [p \in Path |-> 0]
  /\ measured = {}
  /\ resting = {}
  /\ floor = NoVersions
  /\ lastCkpt = 0
  /\ ckpt = NoCkpt
  /\ saved = NoClock
  /\ manifest = NoVersions
  /\ up = [o \in Owner |-> TRUE]
  /\ active = [o \in Owner |-> Holds(o)]
  /\ content = [o \in Owner |-> [k \in Key |-> {}]]
  /\ written = [o \in Owner |-> NoVersions]
  /\ seen = [o \in Owner |-> {}]
  /\ saving = [o \in Owner |-> [t \in IOThread |-> NoSave]]
  /\ overdue = [o \in Owner |-> 0]
  /\ file = [d \in Directory |-> [k \in Key |-> NoFile]]
  /\ worker = [w \in Worker |-> Idle]
  /\ granted = {}
  /\ counted = {}
  /\ dropped = {}
  /\ late = {}
  /\ overtaken = {}
  /\ crashed = {}
  /\ faults = 0

\* Something goes wrong.
Fault == faults < MaxFaults /\ faults' = faults + 1

-----------------------------------------------------------------------------
\* The scheduler: leases.

SchedulerUp == sch \in {"gated", "serving", "closing"}

Eligible == {p \in Path : lease[p] = NoLease}

InUse ==
  {lease[p] : p \in Path} \cup {worker[w].token : w \in Worker}
    \cup (UNION {seen[o] : o \in Owner}) \cup {g.token : g \in granted}

\* A uuid: no lease, worker or server knows it.
Unused(p) == {n \in 1 .. MaxToken : <<p, n>> \notin InUse}

\* _too_slow_locked: only a worker whose rate was measured.
TooSlow(w) == w \in measured /\ w \in Slow

\* _next_task: a lease of a path that is furthest behind; of two such the one
\* the worker is warm for.  A slow worker is let through once per cooldown,
\* whether or not there is a path for it.
Request(w) ==
  /\ worker[w].at = "idle" /\ worker[w].connected
  /\ sch = "serving" /\ T < target
  /\ TooSlow(w) => w \notin resting
  /\ resting' = IF TooSlow(w) THEN resting \cup {w} ELSE resting \ {w}
  /\ \/ /\ Eligible = {} /\ TooSlow(w)
        /\ UNCHANGED <<lease, issued, worker>>
     \/ \E p \in Eligible :
          /\ \A q \in Eligible : completed[p] <= completed[q]
          /\ \E n \in Unused(p) :
               /\ \A m \in Unused(p) : n <= m
               /\ lease' = [lease EXCEPT ![p] = <<p, n>>]
               /\ worker' = [worker EXCEPT ![w] =
                    [Idle EXCEPT !.at = "leased", !.token = <<p, n>>, !.gen = completed[p]]]
          /\ issued' = [issued EXCEPT ![p] = T]
  /\ UNCHANGED <<sch, T, target, completed, measured, checkpoint, servers, history, faults>>

\* The cooldown of a parked worker ends: it lasts longer than its own task.
Rested(w) ==
  /\ w \in resting
  /\ resting' = resting \ {w}
  /\ UNCHANGED <<sch, T, target, completed, lease, issued, measured, checkpoint, servers,
                 worker, history, faults>>

\* A worker that holds the path's lease and whose heartbeats arrive.
Renewed(p) ==
  \E w \in Worker : /\ worker[w].at \in {"leased", "trained"}
                    /\ worker[w].connected /\ worker[w].token = lease[p]

\* Mutant of Freed: the path stays in flight.
FreedLater(p) == [lease EXCEPT ![p] = @]

\* The path's lease is void, the path can be leased again.
Freed(p) == [lease EXCEPT ![p] = NoLease]

\* _reclaim_inflight_locked: a lease nobody renews; or one whose worker beats
\* too slowly.
Reclaim(p) ==
  /\ SchedulerUp /\ lease[p] # NoLease
  /\ IF Renewed(p) THEN Fault ELSE UNCHANGED faults
  /\ lease' = Freed(p)
  /\ UNCHANGED <<sch, T, target, completed, issued, measured, resting, checkpoint, servers,
                 worker, history>>

-----------------------------------------------------------------------------
\* The worker: fetch and train, commit, leave.

\* A replica serves the keys it has active (_fetch); a worker takes any.
Served(k) == \E o \in Range(Replicas[k]) : up[o] /\ k \in active[o]

\* fetch_keys and _train_path.
Train(w) ==
  /\ worker[w].at = "leased"
  /\ \A k \in Keys[worker[w].token[1]] : Served(k)
  /\ worker' = [worker EXCEPT ![w].at = "trained"]
  /\ UNCHANGED <<sch, clock, checkpoint, servers, history, faults>>

\* No replica could serve a key: the worker reconnects.  Its lease expires.
FetchFails(w) ==
  /\ worker[w].at = "leased"
  /\ \E k \in Keys[worker[w].token[1]] : ~Served(k)
  /\ worker' = [worker EXCEPT ![w] = Away]
  /\ UNCHANGED <<sch, clock, checkpoint, servers, history, faults>>

\* Mutant of Fenced: any commit for a path that is in flight.
FencedByPath(token) == lease[token[1]] # NoLease

\* The lease-token fence of _commit and _nack.
Fenced(token) == lease[token[1]] = token

\* _commit, of a task whose loss is finite.  The scheduler counts the update
\* and grants its push; or the lease is stale, by age or because it is not the
\* path's current one.
Accept(w) ==
  LET token == worker[w].token
      p == token[1]
  IN  /\ Fenced(token) /\ T - issued[p] <= StalenessBound
      /\ lease' = Freed(p)
      /\ T' = T + 1
      /\ completed' = [completed EXCEPT ![p] = @ + 1]
      /\ measured' = measured \cup {w}
      /\ granted' = granted \cup {[token |-> token, gen |-> worker[w].gen, as |-> completed[p]]}
      /\ counted' = counted \cup {token}
      /\ \/ /\ worker' = [worker EXCEPT ![w].at = "push", ![w].todo = Keys[p]]
            /\ UNCHANGED <<dropped, faults>>
         \/ /\ Fault   \* the answer does not reach the worker
            /\ worker' = [worker EXCEPT ![w] = Away]
            /\ dropped' = dropped \cup {token}

Refuse(w) ==
  LET token == worker[w].token
      p == token[1]
      stale == T - issued[p] > StalenessBound
  IN  /\ \/ (~Fenced(token) \/ stale) /\ UNCHANGED faults
         \/ Fault   \* the loss is not finite
      /\ lease' = IF Fenced(token) THEN Freed(p) ELSE lease
      /\ worker' = [worker EXCEPT ![w] = Idle]
      /\ UNCHANGED <<T, completed, measured, granted, counted, dropped>>

Commit(w) ==
  /\ worker[w].at = "trained" /\ worker[w].connected
  /\ SchedulerUp
  /\ Accept(w) \/ Refuse(w)
  /\ UNCHANGED <<sch, target, issued, resting, checkpoint, servers, late, overtaken,
                 crashed>>

\* A worker whose scheduler is gone lets its task go and reconnects; one that
\* is told to stop, or finds nobody, ends.
Disconnect(w) ==
  /\ worker[w].at = "trained" /\ ~(worker[w].connected /\ SchedulerUp)
  /\ worker' = [worker EXCEPT ![w] = Away]
  /\ UNCHANGED <<sch, clock, checkpoint, servers, history, faults>>

Reconnect(w) ==
  /\ worker[w].at = "idle"
  /\ \/ /\ SchedulerUp /\ ~worker[w].connected
        /\ worker' = [worker EXCEPT ![w] = Idle]
     \/ /\ sch = "over"
        /\ worker' = [worker EXCEPT ![w] = [Away EXCEPT !.at = "gone"]]
  /\ UNCHANGED <<sch, clock, checkpoint, servers, history, faults>>

\* stop_event: between two tasks, or with a lease just taken, which it hands
\* back (_nack).
Leave(w) ==
  /\ w \in Leavers
  /\ worker[w].at \in {"idle", "leased"}
  /\ LET token == worker[w].token
     IN  lease' = IF worker[w].at = "leased" /\ worker[w].connected /\ SchedulerUp
                       /\ Fenced(token)
                  THEN Freed(token[1]) ELSE lease
  /\ worker' = [worker EXCEPT ![w] = [Away EXCEPT !.at = "gone"]]
  /\ UNCHANGED <<sch, T, target, completed, issued, measured, resting, checkpoint, servers,
                 history, faults>>

\* The worker's process dies; another one takes its place, with a new id.
WorkerCrash(w) ==
  /\ worker[w].at \in {"leased", "trained", "push"}
  /\ Fault
  /\ worker' = [worker EXCEPT ![w] = Away]
  /\ dropped' = IF worker[w].at = "push" THEN dropped \cup {worker[w].token} ELSE dropped
  /\ measured' = measured \ {w}
  /\ resting' = resting \ {w}
  /\ UNCHANGED <<sch, T, target, completed, lease, issued, checkpoint, servers, granted,
                 counted, late, overtaken, crashed>>

-----------------------------------------------------------------------------
\* The worker: push.

\* Mutant of Target: one server gets everything.
TargetOneServer(k) == 1

\* _push_group: writes go to the first of the replica list.
Target(k) == Primary(k)

\* The keys a server applies a granted push to; it uses the grant up also
\* where it applies nothing (_push, _primary_locked).
Applies(o, keys) == {k \in keys : k \in active[o] /\ Primary(k) = o}

Absorb(o, keys, token) ==
  content' = [content EXCEPT
    ![o] = [k \in Key |-> IF k \in keys THEN @[k] \cup {token} ELSE @[k]]]

\* One request of _push_group: to one server, for all the keys it is primary
\* of.  It is refused as a replay, or applied to the keys that are active; the
\* keys it skipped, and all of them if no answer came, are to be pushed again.
Push(w) ==
  /\ worker[w].at = "push"
  /\ \E o \in {Target(k) : k \in worker[w].todo} :
       LET token == worker[w].token
           keys == {k \in worker[w].todo : Target(k) = o}
           lands == up[o] /\ token \notin seen[o]
           landed == IF lands THEN Applies(o, keys) ELSE {}
           skipped == IF ~up[o] THEN keys ELSE IF lands THEN keys \ landed ELSE {}
           After(failed) == [worker EXCEPT ![w].todo = @ \ keys, ![w].failed = @ \cup failed]
       IN  \/ /\ Absorb(o, landed, token)
              /\ seen' = IF up[o] THEN [seen EXCEPT ![o] = @ \cup {token}] ELSE seen
              /\ \/ worker' = After(skipped) /\ UNCHANGED faults
                 \/ worker' = After(keys) /\ skipped # keys /\ Fault  \* the answer is lost
           \/ /\ up[o] /\ Fault   \* the request is lost
              /\ worker' = After(keys)
              /\ UNCHANGED <<content, seen>>
  /\ UNCHANGED <<sch, clock, checkpoint, up, active, written, saving, overdue, file,
                 history>>

\* All requests were answered or given up.  What failed goes once more to the
\* primaries the scheduler now names; a second failure drops the update.
PushEnds(w) ==
  /\ worker[w].at = "push" /\ worker[w].todo = {}
  /\ LET asks == worker[w].connected /\ SchedulerUp
     IN  \/ /\ worker[w].failed = {}
            /\ worker' = [worker EXCEPT ![w] = [Idle EXCEPT !.connected = worker[w].connected]]
            /\ UNCHANGED dropped
         \/ /\ worker[w].failed # {} /\ ~worker[w].again /\ asks
            /\ worker' = [worker EXCEPT ![w].todo = worker[w].failed, ![w].failed = {},
                                        ![w].again = TRUE]
            /\ UNCHANGED dropped
         \/ /\ worker[w].failed # {} /\ (worker[w].again \/ ~asks)
            /\ worker' = [worker EXCEPT
                 ![w] = [Idle EXCEPT !.connected = worker[w].connected /\ worker[w].again]]
            /\ dropped' = dropped \cup {worker[w].token}
  /\ UNCHANGED <<sch, clock, checkpoint, servers, granted, counted, late, overtaken, crashed,
                 faults>>

-----------------------------------------------------------------------------
\* The cluster checkpoint (_checkpoint_cluster, in fit's thread): the owners
\* persist one after the other, then the manifest is written, then the clock.

\* Mutant of Unsaved: a key is written once.
UnsavedOnce(o) == {k \in Holds(o) : written[o][k] = -1}

\* save_modules skips the versions this process has written, or loaded.
Unsaved(o) == {k \in Holds(o) : written[o][k] # Ver(o, k)}

\* fit's thread waits for the answer of owner o; the I/O thread t is at it.
Waits(o) == ckpt.at = "owners" /\ ckpt.left # <<>> /\ Head(ckpt.left) = o
Waited(o, t) == Waits(o) /\ ckpt.by = t

NextOwner == [ckpt EXCEPT !.left = Tail(@), !.by = 0]

\* The calls of save_modules that write to the directory of o, but for t's.
Fellows(o, t) ==
  {f \in Owner \X IOThread : /\ f # <<o, t>> /\ Dir[f[1]] = Dir[o]
                             /\ saving[f[1]][f[2]].on}

\* save_modules, under the lock: an I/O thread gets to a request and copies what
\* is not on disk.  Any idle thread may, they are alike: the first.
StartSave(o, t) ==
  /\ up[o] /\ ~saving[o][t].on
  /\ \A s \in 1 .. t - 1 : saving[o][s].on
  /\ \/ /\ Waits(o) /\ ckpt.by = 0
        /\ ckpt' = [ckpt EXCEPT !.by = t]
        /\ UNCHANGED overdue
     \/ /\ overdue[o] > 0
        /\ overdue' = [overdue EXCEPT ![o] = @ - 1]
        /\ UNCHANGED ckpt
  /\ saving' = [q \in Owner |-> [s \in IOThread |->
       IF q = o /\ s = t
       THEN [on |-> TRUE, left |-> Unsaved(o), taken |-> {}, crossed |-> Fellows(o, t) # {},
             state |-> content[o]]
       ELSE [saving[q][s] EXCEPT !.crossed = @ \/ <<q, s>> \in Fellows(o, t)]]]
  /\ UNCHANGED <<sch, clock, floor, lastCkpt, saved, manifest, up, active, content, written, seen,
                 file, worker, history, faults>>

\* Is x an older state than y, or none that can be read?
Older(x, y) ==
  \/ x = Torn
  \/ x # NoFile /\ y \notin {NoFile, Torn} /\ Cardinality(x) < Cardinality(y)

\* Thread t of o leaves x in the file of k.
Puts(o, t, k, x) ==
  /\ file' = [file EXCEPT ![Dir[o]][k] = x]
  /\ late' = IF Waited(o, t) THEN late ELSE late \cup {Dir[o]}
  /\ overtaken' =
       IF saving[o][t].crossed /\ (Older(x, saving[o][t].state[k]) \/ Older(x, file[Dir[o]][k]))
       THEN overtaken \cup {k} ELSE overtaken

\* save_modules, without the lock: torch.save to the temporary file, os.replace,
\* _saved_versions.  Fellows with the same file left may have the temporary file
\* open: then its bytes are anybody's or a mix, and theirs is gone.
WriteFile(o, t, k) ==
  /\ k \in saving[o][t].left
  /\ \E open \in SUBSET {f \in Fellows(o, t) : k \in saving[f[1]][f[2]].left} :
       /\ k \in saving[o][t].taken => open # {}
       /\ \E x \in {saving[f[1]][f[2]].state[k] : f \in open \cup {<<o, t>>}}
                   \cup (IF open = {} THEN {} ELSE {Torn}) :
            Puts(o, t, k, x)
       /\ saving' = [q \in Owner |-> [s \in IOThread |->
            IF q = o /\ s = t THEN [saving[o][t] EXCEPT !.left = @ \ {k}]
            ELSE [saving[q][s] EXCEPT !.taken = IF <<q, s>> \in open THEN @ \cup {k} ELSE @]]]
  /\ written' = [written EXCEPT ![o][k] = Cardinality(saving[o][t].state[k])]
  /\ UNCHANGED <<sch, clock, checkpoint, up, active, content, seen, overdue, worker, granted,
                 counted, dropped, crashed, faults>>

\* os.replace finds no temporary file: what was written went to the file that
\* took its place.  The handler ends without an answer.
RenameFails(o, t, k) ==
  /\ k \in saving[o][t].left \cap saving[o][t].taken
  /\ \E x \in {file[Dir[o]][k], saving[o][t].state[k], Torn} : Puts(o, t, k, x)
  /\ saving' = [saving EXCEPT ![o][t] = NoSave]
  /\ ckpt' = IF Waited(o, t) THEN NextOwner ELSE ckpt
  /\ UNCHANGED <<sch, clock, floor, lastCkpt, saved, manifest, up, active, content, written, seen,
                 overdue, worker, granted, counted, dropped, crashed, faults>>

\* The owner tells the versions it copied; nobody may be listening.
SaveEnds(o, t) ==
  /\ saving[o][t].on /\ saving[o][t].left = {}
  /\ saving' = [saving EXCEPT ![o][t] = NoSave]
  /\ ckpt' = IF Waited(o, t)
             THEN [NextOwner EXCEPT !.held = [k \in Key |->
                     IF k \in Holds(o) THEN Max({@[k], Cardinality(saving[o][t].state[k])})
                                       ELSE @[k]]]
             ELSE ckpt
  /\ UNCHANGED <<sch, clock, floor, lastCkpt, saved, manifest, up, active, content, written, seen,
                 overdue, file, worker, history, faults>>

Ask == [NoCkpt EXCEPT !.at = "owners", !.left = [i \in 1 .. NumOwners |-> i]]

Snapshot == [T |-> T, completed |-> completed, counted |-> counted]

\* Mutant of Clock: the clock as it was when the checkpoint began.
ClockBefore == [T |-> lastCkpt, completed |-> saved.completed, counted |-> saved.counted]

\* What scheduler.pt gets: the clock once the owners have persisted.
Clock == Snapshot

CheckpointBegins ==
  /\ sch = "serving" /\ T < target
  /\ CheckpointEvery > 0 /\ T - lastCkpt >= CheckpointEvery
  /\ ckpt.at = "none"
  /\ ckpt' = Ask
  /\ UNCHANGED <<sch, clock, floor, lastCkpt, saved, manifest, servers, worker, history, faults>>

\* The next owner cannot be reached.
OwnerAway ==
  /\ \E o \in Owner : Waits(o) /\ ~up[o]
  /\ ckpt' = NextOwner
  /\ UNCHANGED <<sch, clock, floor, lastCkpt, saved, manifest, servers, worker, history, faults>>

\* It has not answered within the timeout: the request is still in its socket,
\* or a thread is at it, and goes on.
GiveUp ==
  /\ Fault
  /\ \E o \in Owner : /\ Waits(o) /\ up[o]
                       /\ overdue' = [overdue EXCEPT ![o] = IF ckpt.by = 0 THEN @ + 1 ELSE @]
  /\ ckpt' = NextOwner
  /\ UNCHANGED <<sch, clock, floor, lastCkpt, saved, manifest, up, active, content, written, seen,
                 saving, file, worker, history>>

WriteManifest ==
  /\ ckpt.at = "owners" /\ ckpt.left = <<>>
  /\ ckpt' = [ckpt EXCEPT !.at = "clock"]
  /\ IF ckpt.held # NoVersions
     THEN manifest' = ckpt.held /\ floor' = ckpt.held
     ELSE UNCHANGED <<manifest, floor>>
  /\ UNCHANGED <<sch, clock, lastCkpt, saved, servers, worker, history, faults>>

WriteClock ==
  /\ ckpt.at = "clock"
  /\ saved' = Clock
  /\ ckpt' = NoCkpt
  /\ lastCkpt' = T
  /\ sch' = IF sch = "closing" THEN "over" ELSE sch
  /\ UNCHANGED <<clock, floor, manifest, servers, worker, history, faults>>

\* fit's loop sees the target reached: it stops serving and checkpoints once
\* more.  Commits of leases that are out are still accepted.
StopServing ==
  /\ sch = "serving" /\ T >= target /\ ckpt.at = "none"
  /\ IF CheckpointEvery > 0 THEN sch' = "closing" /\ ckpt' = Ask
                            ELSE sch' = "over" /\ UNCHANGED ckpt
  /\ UNCHANGED <<clock, floor, lastCkpt, saved, manifest, servers, worker, history, faults>>

\* The scheduler's process dies, between any two steps of its threads.
SchedulerCrash ==
  /\ SchedulerUp
  /\ Fault
  /\ sch' = "down"
  /\ lease' = [p \in Path |-> NoLease]
  /\ issued' = [p \in Path |-> 0]
  /\ measured' = {} /\ resting' = {}
  /\ T' = Max({saved.T, 0})
  /\ completed' = saved.completed
  /\ counted' = saved.counted
  /\ ckpt' = NoCkpt
  /\ worker' = [w \in Worker |-> [worker[w] EXCEPT !.connected = FALSE]]
  /\ \/ UNCHANGED overdue
     \/ \E o \in Owner : /\ Waits(o) /\ up[o] /\ ckpt.by = 0   \* the request was sent
                          /\ overdue' = [overdue EXCEPT ![o] = @ + 1]
  /\ UNCHANGED <<target, floor, lastCkpt, saved, manifest, up, active, content, written, seen,
                 saving, file, granted, dropped, late, overtaken, crashed>>

\* It is started again to resume (fit, _load_state).  Without scheduler.pt the
\* manifest is not read either.
SchedulerStarts ==
  /\ sch = "down"
  /\ floor' = IF saved = NoClock THEN NoVersions ELSE manifest
  /\ target' = T + MoreGenerations * Cardinality(Path)
  /\ lastCkpt' = T
  /\ sch' = IF floor' = NoVersions THEN "serving" ELSE "gated"
  /\ UNCHANGED <<T, completed, lease, issued, measured, resting, ckpt, saved, manifest,
                 servers, worker, history, faults>>

\* _recovery_ready: some live owner serves each key at the manifest's version.
RecoveryReady ==
  \A k \in Key : floor[k] = -1 \/ \E o \in Range(Replicas[k]) :
    up[o] /\ k \in active[o] /\ Ver(o, k) >= floor[k]

GateOpens ==
  /\ sch = "gated" /\ RecoveryReady
  /\ sch' = "serving"
  /\ UNCHANGED <<clock, checkpoint, servers, worker, history, faults>>

-----------------------------------------------------------------------------
\* The parameter servers: crash, restart, replication.

\* The process dies, its threads in the middle of whatever they write.
OwnerCrash(o) ==
  /\ up[o] /\ Fault
  /\ up' = [up EXCEPT ![o] = FALSE]
  /\ active' = [active EXCEPT ![o] = {}]
  /\ content' = [content EXCEPT ![o] = [k \in Key |-> {}]]
  /\ written' = [written EXCEPT ![o] = NoVersions]
  /\ seen' = [seen EXCEPT ![o] = {}]
  /\ saving' = [saving EXCEPT ![o] = [t \in IOThread |-> NoSave]]
  /\ overdue' = [overdue EXCEPT ![o] = 0]
  /\ ckpt' = IF Waits(o) /\ ckpt.by # 0 THEN NextOwner ELSE ckpt
  /\ crashed' = crashed \cup {o}
  /\ UNCHANGED <<sch, clock, floor, lastCkpt, saved, manifest, file, worker, granted, counted,
                 dropped, late, overtaken>>

\* It is started again on its directory.  A key that still has the seeded
\* state is served at once, as the epoch is flagged bootstrap; another one
\* after a replication pass (__init__, apply_epoch).  A torn file fails the
\* first attempt to apply the epoch; the next finds the module built, from seed.
OwnerStarts(o) ==
  LET readable(k) == k \in Holds(o) /\ file[Dir[o]][k] \notin {NoFile, Torn}
      loaded(k) == IF readable(k) THEN file[Dir[o]][k] ELSE {}
  IN  /\ ~up[o]
      /\ up' = [up EXCEPT ![o] = TRUE]
      /\ content' = [content EXCEPT ![o] = [k \in Key |-> loaded(k)]]
      /\ active' = [active EXCEPT ![o] = {k \in Holds(o) : loaded(k) = {}}]
      /\ written' = [written EXCEPT ![o] = [k \in Key |->
           IF readable(k) THEN Cardinality(loaded(k)) ELSE -1]]
      /\ UNCHANGED <<sch, clock, checkpoint, seen, saving, overdue, file, worker, history, faults>>

\* A replication pass of one key (_replicate_once; Replication has its steps):
\* every owner but an active primary asks its fellows and adopts the newest
\* state; a syncing key becomes active once somebody answered.
Replicate(o, k) ==
  LET fellows == Range(Replicas[k]) \ {o}
  IN  /\ up[o] /\ k \in Holds(o) /\ ~(Primary(k) = o /\ k \in active[o])
      /\ \/ fellows = {} /\ UNCHANGED content
         \/ \E s \in fellows :   \* has the newest state of those that answer
              /\ up[s]
              /\ content' = [content EXCEPT
                   ![o][k] = IF Ver(s, k) > Ver(o, k) THEN content[s][k] ELSE @]
      /\ active' = [active EXCEPT ![o] = @ \cup {k}]
      /\ UNCHANGED <<sch, clock, checkpoint, up, written, seen, saving, overdue, file, worker,
                     history, faults>>

-----------------------------------------------------------------------------
WorkerStep(w) ==
  \/ Request(w)
  \/ Rested(w)
  \/ Train(w)
  \/ FetchFails(w)
  \/ Commit(w)
  \/ Disconnect(w)
  \/ Reconnect(w)
  \/ Push(w)
  \/ PushEnds(w)

\* An I/O thread of a parameter server.
SaveStep(o, t) ==
  \/ StartSave(o, t)
  \/ \E k \in Key : WriteFile(o, t, k) \/ RenameFails(o, t, k)
  \/ SaveEnds(o, t)

OwnerStep(o) ==
  \/ OwnerStarts(o)
  \/ \E t \in IOThread : SaveStep(o, t)
  \/ \E k \in Key : Replicate(o, k)

\* fit's thread.
FitStep ==
  \/ CheckpointBegins
  \/ OwnerAway
  \/ WriteManifest
  \/ WriteClock
  \/ StopServing
  \/ SchedulerStarts
  \/ GateOpens

Next ==
  \/ \E w \in Worker : WorkerStep(w) \/ Leave(w) \/ WorkerCrash(w)
  \/ \E p \in Path : Reclaim(p)
  \/ FitStep
  \/ GiveUp
  \/ SchedulerCrash
  \/ \E o \in Owner : OwnerStep(o) \/ OwnerCrash(o)

Spec == Init /\ [][Next]_vars

\* The threads run; leases nobody renews are reclaimed; processes that died are
\* started again, a scheduler before its workers tire of reconnecting.
Fairness ==
  /\ \A w \in Worker : WF_vars(WorkerStep(w)) /\ WF_vars(Rested(w))
  /\ \A p \in Path : WF_vars(Reclaim(p) /\ ~Renewed(p))
  /\ WF_vars(FitStep)
  /\ \A o \in Owner : /\ WF_vars(OwnerStarts(o))
                      /\ \A t \in IOThread : WF_vars(SaveStep(o, t))
                      /\ \A k \in Key : WF_vars(Replicate(o, k))

FairSpec == Spec /\ Fairness

-----------------------------------------------------------------------------
\* Properties.

\* A worker holds a lease token from when it takes it to when it is done with it.
WorkerState ==
  {x \in [at : {"idle", "leased", "trained", "push", "gone"}, connected : BOOLEAN,
          token : Token \cup {NoLease}, gen : Version, todo : SUBSET Key, failed : SUBSET Key,
          again : BOOLEAN] :
     x.token # NoLease <=> x.at \in {"leased", "trained", "push"}}

\* An idle thread has no file left to replace.
SaveState ==
  {x \in [on : BOOLEAN, left : SUBSET Key, taken : SUBSET Key, crossed : BOOLEAN,
          state : [Key -> SUBSET Token]] : ~x.on => x.left = {}}

ClockTypes ==
  /\ T \in Nat /\ target \in Nat
  /\ completed \in [Path -> Nat] /\ issued \in [Path -> Nat]
  /\ lease \in [Path -> Token \cup {NoLease}]
  /\ \A p \in Path : lease[p] # NoLease => lease[p][1] = p
  /\ measured \subseteq Worker /\ resting \subseteq Slow

CheckpointTypes ==
  /\ floor \in [Key -> Version] /\ manifest \in [Key -> Version] /\ lastCkpt \in Nat
  /\ ckpt \in [at : {"none", "owners", "clock"}, left : Seq(Owner), by : Nat,
               held : [Key -> Version]]
  /\ saved \in [T : Version, completed : [Path -> Nat], counted : SUBSET Token]

ServerTypes ==
  /\ up \in [Owner -> BOOLEAN] /\ active \in [Owner -> SUBSET Key]
  /\ content \in [Owner -> [Key -> SUBSET Token]]
  /\ written \in [Owner -> [Key -> Version]]
  /\ seen \in [Owner -> SUBSET Token] /\ overdue \in [Owner -> Nat]
  /\ saving \in [Owner -> [IOThread -> SaveState]]
  /\ \A o \in Owner, t \in IOThread : saving[o][t].left \subseteq Holds(o)
  /\ file \in [Directory -> [Key -> (SUBSET Token) \cup {NoFile, Torn}]]

HistoryTypes ==
  /\ granted \subseteq [token : Token, gen : Version, as : Nat]
  /\ counted \subseteq Token /\ dropped \subseteq Token
  /\ late \subseteq Directory /\ overtaken \subseteq Key /\ crashed \subseteq Owner

\* The type of the state; a lease in flight is a token of its own path.
TypeOK ==
  /\ sch \in {"gated", "serving", "closing", "over", "down"} /\ faults \in Nat
  /\ ClockTypes /\ CheckpointTypes /\ ServerTypes /\ HistoryTypes
  /\ worker \in [Worker -> WorkerState]

\* An update is counted as the generation it was trained as: a worker that
\* lost its lease, to a timeout or to a restart of the scheduler, cannot commit
\* its old work as the path's next generation.
CommitsTheirGeneration == \A g \in granted : g.gen = g.as

\* An update the scheduler counted is in every module of its path, or on its
\* way there, unless a module's primary went down or the worker had to give the
\* update up: no interleaving of leases, checkpoints and partial pushes loses
\* one silently.
AcceptedLands ==
  \A g \in granted : \A k \in Keys[g.token[1]] :
    \/ g.token \in content[Primary(k)][k]
    \/ Primary(k) \in crashed
    \/ g.token \in dropped
    \/ \E w \in Worker : /\ worker[w].at = "push" /\ worker[w].token = g.token
                         /\ k \in worker[w].todo \cup worker[w].failed

\* When no checkpoint is being written, scheduler.pt counts every update that
\* the module files hold, with two exceptions: the updates that a crash of the
\* scheduler took back (one after owners have saved and before scheduler.pt is
\* replaced leaves files that are ahead of the clock, and they stay so), and the
\* files of an owner that wrote when no scheduler waited for it.  So only these
\* two make a resumed run train on weights that are ahead of its clock; the order
\* in which a checkpoint takes its parts does not.
CheckpointCounts ==
  ckpt.at = "none" =>
    \A d \in Directory \ late, k \in Key :
      file[d][k] \notin {NoFile, Torn} =>
        file[d][k] \subseteq saved.counted \cup ({g.token : g \in granted} \ counted)

\* For each key some file holds the manifest's version, at all times: also
\* while owners are down, a checkpoint is half done, or an owner restarts from an
\* older file.  The one exception is a key of which two calls of save_modules
\* that ran at the same time, of which a scheduler waits for one at most, left an
\* older file than they found or meant to write, or a torn one.
RecoveryPointOnDisk ==
  \A k \in Key \ overtaken : manifest[k] > 0 =>
    \E d \in Directory : /\ file[d][k] \notin {NoFile, Torn}
                         /\ Cardinality(file[d][k]) >= manifest[k]

\* The run ends, whatever was lost on the way: leases of lost workers come
\* back, the recovery gate opens, parked workers return, checkpoints end.
RunEnds == <>(sch = "over")
=============================================================================
