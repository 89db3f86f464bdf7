---------------------------- MODULE Coordinator ----------------------------
(***************************************************************************)
(* The single-node asynchronous coordinator of schedule/distributed.py     *)
(* (CoordinatorServer), its stateful workers (run_worker) and the          *)
(* checkpoints it restarts from (checkpoint.py).                           *)
(*                                                                         *)
(* A worker asks for a task; the coordinator leases it the least-completed *)
(* path under a fresh token and ships the shared modules whose version the *)
(* worker does not report.  The worker trains, and submits or nacks under  *)
(* the token.  A lease whose heartbeats stop is reclaimed and its token    *)
(* forgotten.  The coordinator may crash between any two steps, also while *)
(* it writes a checkpoint; connections break and submits are left behind   *)
(* in the socket buffers of broken ones.                                   *)
(*                                                                         *)
(* Weights are abstracted to the identity of the update that produced      *)
(* them: the token of the lease it was trained under, 0 for the initial    *)
(* weights.  Time is abstracted to one bit per lease.  A request and its   *)
(* reply are one step, which either reaches the worker or breaks the       *)
(* connection; so are a submit (while its connection lives) and its ack,    *)
(* and a nack.  dedup_private is off; one fit() per coordinator process.   *)
(***************************************************************************)
EXTENDS Integers, FiniteSets, Functions

CONSTANTS
  NumPaths,         \* topology.num_paths: paths are 0 .. NumPaths - 1
  Shared,           \* the shared module keys
  Uses,             \* path -> the shared keys on it (path_module_keys)
  EmptyShard,       \* the paths whose shard has no rows
  Worker,           \* the worker processes
  Generations,      \* fit(num_generations)
  StalenessBound,   \* staleness_bound
  CheckpointEvery,  \* checkpoint_every, in updates; 0 writes none
  MaxToken,         \* bound on the number of leases of a behaviour
  MaxCrash          \* bound on the number of coordinator crashes

Path == 0 .. NumPaths - 1

ASSUME ConstantAssumption ==
  /\ NumPaths \in Nat \ {0}
  /\ Uses \in [Path -> SUBSET Shared]
  /\ EmptyShard \subseteq Path
  /\ Generations \in Nat
  /\ StalenessBound \in Nat
  /\ CheckpointEvery \in Nat
  /\ MaxToken \in Nat
  /\ MaxCrash \in Nat

VARIABLES
  (* The coordinator process. *)
  phase,      \* "down", "serving", "ending" (serving stopped), "ended" (fit returned)
  T,          \* _T: accepted updates
  target,     \* _target
  completed,  \* path -> _completed
  versions,   \* shared key -> _versions
  bank,       \* shared key -> its weights in the bank
  private,    \* path -> its private modules in the bank
  inflight,   \* path -> its entry in _inflight: "none", "live" or "late"
  issued,     \* path -> _issued
  lease,      \* path -> _lease, 0 for none
  owner,      \* path -> _owner: the worker last leased it, or Nobody
  lastCkpt,   \* last_ckpt of fit()
  (* The checkpoint directories, by the clock value in their name. *)
  disk,
  (* The workers. *)
  conn,       \* worker -> is its connection up
  job,        \* worker -> the task it holds, or NoJob
  sent,       \* worker -> is its submit on the wire
  have,       \* worker -> shared key -> the version it holds, -1 for none
  cache,      \* worker -> shared key -> the weights it holds
  warm,       \* worker -> the paths it holds warm
  mine,       \* worker -> path -> the private modules it holds
  carry,      \* worker -> path -> the update behind its error-feedback residual
  (* Submits left behind by broken connections. *)
  orphans,
  (* History: the next token, the updates ever applied, the crashes. *)
  nextToken, applied, crashes

fitting == <<phase, target, lastCkpt>>
progress == <<T, completed, versions, bank, private>>
leases == <<inflight, issued, lease, owner>>
server == <<fitting, progress, leases>>
workers == <<conn, job, sent, have, cache, warm, mine, carry>>
history == <<nextToken, applied, crashes>>
vars == <<server, disk, workers, orphans, history>>

Token == 1 .. MaxToken
Weights == 0 .. MaxToken
NoJob == [token |-> 0]
Nobody == "nobody"

\* A task as its worker holds it.  gen is the path's update count and base the
\* clock when it was leased; valid, settled when training ends, is whether the
\* contribution will pass contribution_ok.
Job == [token : Token, path : Path, gen : Nat, base : Nat, valid : BOOLEAN]

\* What save_checkpoint is given beside the engine's weights.
Extra == [T : Nat, completed : [Path -> Nat], versions : [Shared -> Nat]]

\* A checkpoint directory: the rank file, whether meta.json is there, and the
\* content of extra.pt (at most one).
Directory ==
  [bank : [Shared -> Weights], private : [Path -> Weights],
   meta : BOOLEAN, extra : SUBSET Extra]

NoDirectory ==
  [bank |-> [k \in Shared |-> 0], private |-> [p \in Path |-> 0],
   meta |-> FALSE, extra |-> {}]

-----------------------------------------------------------------------------
Init ==
  /\ phase = "down"
  /\ T = 0
  /\ target = 0
  /\ completed = [p \in Path |-> 0]
  /\ versions = [k \in Shared |-> 0]
  /\ bank = [k \in Shared |-> 0]
  /\ private = [p \in Path |-> 0]
  /\ inflight = [p \in Path |-> "none"]
  /\ issued = [p \in Path |-> 0]
  /\ lease = [p \in Path |-> 0]
  /\ owner = [p \in Path |-> Nobody]
  /\ lastCkpt = 0
  /\ disk = [n \in Weights |-> NoDirectory]
  /\ conn = [w \in Worker |-> FALSE]
  /\ job = [w \in Worker |-> NoJob]
  /\ sent = [w \in Worker |-> FALSE]
  /\ have = [w \in Worker |-> [k \in Shared |-> -1]]
  /\ cache = [w \in Worker |-> [k \in Shared |-> 0]]
  /\ warm = [w \in Worker |-> {}]
  /\ mine = [w \in Worker |-> [p \in Path |-> 0]]
  /\ carry = [w \in Worker |-> [p \in Path |-> 0]]
  /\ orphans = {}
  /\ nextToken = 1
  /\ applied = {}
  /\ crashes = 0

-----------------------------------------------------------------------------
\* The lease table.

\* Mutant of Expired: the deadline is compared the wrong way round.
ExpiredBackwards == {p \in Path : inflight[p] = "live"}

\* The leases _reclaim_inflight_locked frees, forgetting token and owner.
Expired == {p \in Path : inflight[p] = "late"}

Reclaimed(f, none) == [p \in Path |-> IF p \in Expired THEN none ELSE f[p]]

\* Mutant of Fenced: the path has a lease, whoever's it is.
FencedByPath(m) == inflight[m.path] # "none"

\* The fence of submit, nack and heartbeat.
Fenced(m) == inflight[m.path] # "none" /\ lease[m.path] = m.token

\* A submit or nack that passed the fence ends the lease.
FreeLease(p) ==
  /\ inflight' = [inflight EXCEPT ![p] = "none"]
  /\ lease' = [lease EXCEPT ![p] = 0]
  /\ UNCHANGED <<issued, owner>>

\* No heartbeat arrived before the deadline; nobody looks yet.
LeaseTimesOut(p) ==
  /\ phase # "down"
  /\ inflight[p] = "live"
  /\ inflight' = [inflight EXCEPT ![p] = "late"]
  /\ UNCHANGED <<fitting, progress, issued, lease, owner, disk, workers, orphans, history>>

\* The sweep of fit()'s loop, and of a request that finds no eligible path.
Reclaim ==
  /\ phase = "serving"
  /\ \E p \in Path : inflight[p] = "late"
  /\ inflight' = Reclaimed(inflight, "none")
  /\ lease' = Reclaimed(lease, 0)
  /\ owner' = Reclaimed(owner, Nobody)
  /\ UNCHANGED <<fitting, progress, issued, disk, workers, orphans, history>>

\* A worker's heartbeat thread pings for the lease it trains under.
Heartbeat(w) ==
  /\ phase # "down"
  /\ conn[w] /\ job[w] # NoJob /\ ~sent[w]
  /\ Fenced(job[w])
  /\ inflight[job[w].path] = "late"
  /\ inflight' = [inflight EXCEPT ![job[w].path] = "live"]
  /\ UNCHANGED <<fitting, progress, issued, lease, owner, disk, workers, orphans, history>>

-----------------------------------------------------------------------------
\* Handing out a task (_next_task) and taking it in (_apply_task).

\* The order of the paths in _next_task's min: fewest updates, then warm at
\* the asking worker, then the lower path.
Before(w, p, q) ==
  \/ completed[p] < completed[q]
  \/ /\ completed[p] = completed[q]
     /\ \/ p \in warm[w] /\ q \notin warm[w]
        \/ (p \in warm[w] <=> q \in warm[w]) /\ p < q

Picks(w, p) ==
  LET eligible == {q \in Path : inflight[q] = "none"} \cup Expired
  IN  /\ p \in eligible
      /\ \A q \in eligible \ {p} : Before(w, p, q)

\* Mutant of HaveAfterTask: the reply lists the versions of every shared module.
HaveAfterTaskAll(w, p) == versions

\* versions.update(msg["shared_versions"]): those of the path's modules only.
HaveAfterTask(w, p) ==
  [k \in Shared |-> IF k \in Uses[p] THEN versions[k] ELSE have[w][k]]

\* The worker loads what was shipped: the shared modules whose version it did
\* not report and, cold for the path, the private ones.  Cold, it also drops
\* its stale error-feedback carry.
TakeTask(w, p) ==
  /\ job' = [job EXCEPT ![w] = [token |-> nextToken, path |-> p, gen |-> completed[p],
                                base |-> T, valid |-> TRUE]]
  /\ have' = [have EXCEPT ![w] = HaveAfterTask(w, p)]
  /\ cache' = [cache EXCEPT ![w] = [k \in Shared |->
                IF k \in Uses[p] /\ have[w][k] # versions[k] THEN bank[k] ELSE cache[w][k]]]
  /\ mine' = [mine EXCEPT ![w][p] = IF p \in warm[w] THEN @ ELSE private[p]]
  /\ carry' = [carry EXCEPT ![w][p] = IF p \in warm[w] THEN @ ELSE 0]
  /\ UNCHANGED <<conn, sent, warm>>

\* The reply is lost with its connection: the lease stays behind.
LoseTask(w) ==
  /\ conn' = [conn EXCEPT ![w] = FALSE]
  /\ UNCHANGED <<job, sent, have, cache, warm, mine, carry>>

Request(w) ==
  /\ phase = "serving" /\ T < target
  /\ conn[w] /\ job[w] = NoJob
  /\ nextToken <= MaxToken
  /\ \E p \in Path :
       /\ Picks(w, p)
       /\ inflight' = [Reclaimed(inflight, "none") EXCEPT ![p] = "live"]
       /\ lease' = [Reclaimed(lease, 0) EXCEPT ![p] = nextToken]
       /\ owner' = [Reclaimed(owner, Nobody) EXCEPT ![p] = w]
       /\ issued' = [issued EXCEPT ![p] = T]
       /\ TakeTask(w, p) \/ LoseTask(w)
  /\ nextToken' = nextToken + 1
  /\ UNCHANGED <<fitting, progress, disk, orphans, applied, crashes>>

\* Training ends: the path is warm from now on, the private modules stay as
\* trained, and the contribution goes out if the connection still stands.
\* Training on an empty shard is a no-op, with an empty contribution.
Train(w) ==
  /\ job[w] # NoJob /\ ~sent[w]
  /\ LET p == job[w].path IN
       /\ warm' = [warm EXCEPT ![w] = @ \cup {p}]
       /\ mine' = [mine EXCEPT ![w][p] = IF p \in EmptyShard THEN @ ELSE job[w].token]
       /\ \/ /\ conn[w]
             /\ \E v \in BOOLEAN :
                  /\ p \in EmptyShard => v
                  /\ job' = [job EXCEPT ![w].valid = v]
             /\ sent' = [sent EXCEPT ![w] = TRUE]
          \/ /\ ~conn[w]
             /\ job' = [job EXCEPT ![w] = NoJob]
             /\ UNCHANGED sent
  /\ UNCHANGED <<server, disk, conn, have, cache, carry, orphans, history>>

\* Training raises: the worker nacks, which frees the lease if it is still the
\* worker's (_nack), and goes on.
Fail(w) ==
  /\ job[w] # NoJob /\ ~sent[w]
  /\ job' = [job EXCEPT ![w] = NoJob]
  /\ \/ conn[w] /\ Fenced(job[w]) /\ FreeLease(job[w].path)
     \/ ~(conn[w] /\ Fenced(job[w])) /\ UNCHANGED leases
  /\ UNCHANGED <<fitting, progress, disk, conn, sent, have, cache, warm, mine, carry,
                 orphans, history>>

-----------------------------------------------------------------------------
\* Receiving a contribution (_receive).

\* Mutant of Accepts: an off-by-one in the staleness bound.
AcceptsOneTooStale(m) ==
  /\ Fenced(m)
  /\ T - issued[m.path] <= StalenessBound + 1
  /\ m.valid

Accepts(m) ==
  /\ Fenced(m)
  /\ T - issued[m.path] <= StalenessBound
  /\ m.valid

\* The modules of one kind an accepted contribution writes.
Written(m, keys) == IF m.path \in EmptyShard THEN {} ELSE keys

\* Accepted, a contribution advances the clock and the path's count, replaces
\* the private modules and takes one outer step on each of its shared modules.
Apply(m) ==
  /\ T' = T + 1
  /\ completed' = [completed EXCEPT ![m.path] = @ + 1]
  /\ private' = [p \in Path |-> IF p \in Written(m, {m.path}) THEN m.token ELSE private[p]]
  /\ bank' = [k \in Shared |-> IF k \in Written(m, Uses[m.path]) THEN m.token ELSE bank[k]]
  /\ versions' = [k \in Shared |->
                    IF k \in Written(m, Uses[m.path]) THEN versions[k] + 1 ELSE versions[k]]
  /\ applied' = applied \cup {m.token}

Receive(m) ==
  /\ phase # "down"
  /\ \/ Fenced(m) /\ FreeLease(m.path)
     \/ ~Fenced(m) /\ UNCHANGED leases
  /\ \/ Accepts(m) /\ Apply(m)
     \/ ~Accepts(m) /\ UNCHANGED <<progress, applied>>
  /\ UNCHANGED <<fitting, disk, nextToken, crashes>>

\* Mutant of CarryAfterAck: the residual is committed whatever the ack says.
CarryAfterAnyAck(m, c) == m.token

\* The residual behind c after the ack of m: committed only if it was applied
\* and there is one.
CarryAfterAck(m, c) ==
  IF Accepts(m) /\ m.path \notin EmptyShard THEN m.token ELSE c

\* A worker's submit and its ack, which may be lost with the connection.
Submit(w) ==
  /\ sent[w]
  /\ Receive(job[w])
  /\ sent' = [sent EXCEPT ![w] = FALSE]
  /\ job' = [job EXCEPT ![w] = NoJob]
  /\ \/ /\ carry' = [carry EXCEPT ![w][job[w].path] = CarryAfterAck(job[w], @)]
        /\ UNCHANGED conn
     \/ /\ conn' = [conn EXCEPT ![w] = FALSE]
        /\ UNCHANGED carry
  /\ UNCHANGED <<have, cache, warm, mine, orphans>>

\* The coordinator reads a submit whose connection broke behind it.
SubmitLate(m) ==
  /\ Receive(m)
  /\ orphans' = orphans \ {m}
  /\ UNCHANGED workers

-----------------------------------------------------------------------------
\* Connections and worker processes.

\* The connection of w is gone.  A submit on it is lost, or still read by the
\* coordinator later.
Abandon(w) ==
  /\ conn' = [conn EXCEPT ![w] = FALSE]
  /\ sent' = [sent EXCEPT ![w] = FALSE]
  /\ \/ sent[w] /\ orphans' = orphans \cup {job[w]}
     \/ UNCHANGED orphans

\* The link breaks; a worker in the middle of a task trains on.
Disconnect(w) ==
  /\ conn[w]
  /\ Abandon(w)
  /\ job' = [job EXCEPT ![w] = IF sent[w] THEN NoJob ELSE @]
  /\ UNCHANGED <<server, disk, have, cache, warm, mine, carry, history>>

\* The reconnect loop of run_worker: every cache survives.
Reconnect(w) ==
  /\ phase # "down"
  /\ ~conn[w] /\ job[w] = NoJob
  /\ conn' = [conn EXCEPT ![w] = TRUE]
  /\ UNCHANGED <<server, disk, job, sent, have, cache, warm, mine, carry, orphans, history>>

\* The worker process dies and another one takes its place, with empty caches.
WorkerRestart(w) ==
  /\ Abandon(w)
  /\ job' = [job EXCEPT ![w] = NoJob]
  /\ have' = [have EXCEPT ![w] = [k \in Shared |-> -1]]
  /\ cache' = [cache EXCEPT ![w] = [k \in Shared |-> 0]]
  /\ warm' = [warm EXCEPT ![w] = {}]
  /\ mine' = [mine EXCEPT ![w] = [p \in Path |-> 0]]
  /\ carry' = [carry EXCEPT ![w] = [p \in Path |-> 0]]
  /\ UNCHANGED <<server, disk, history>>

-----------------------------------------------------------------------------
\* fit(): restore, serve to the target, checkpoint; and crashes.

\* What latest_checkpoint chooses from.  Every meta.json carries the engine's
\* global_round, which the asynchronous run never advances: all directories
\* tie, and the one listed first wins.
Restorable == {n \in DOMAIN disk : disk[n].meta}

\* The coordinator's state a directory holds: without extra.pt, fit() starts
\* the clock and the counts at zero.
ExtrasOf(d) ==
  IF d.extra # {} THEN d.extra
  ELSE {[T |-> 0, completed |-> [p \in Path |-> 0], versions |-> [k \in Shared |-> 0]]}

\* Mutant of StartFrom: the clock is restored, the counts are not.
StartFromClock(d) ==
  /\ bank' = d.bank
  /\ private' = d.private
  /\ \E e \in ExtrasOf(d) : T' = e.T /\ versions' = e.versions
  /\ completed' = [p \in Path |-> 0]
  /\ target' = T' + Generations * NumPaths
  /\ lastCkpt' = T'

StartFrom(d) ==
  /\ bank' = d.bank
  /\ private' = d.private
  /\ \E e \in ExtrasOf(d) :
       /\ T' = e.T
       /\ completed' = e.completed
       /\ versions' = e.versions
  /\ target' = T' + Generations * NumPaths
  /\ lastCkpt' = T'

NoLeases ==
  /\ inflight' = [p \in Path |-> "none"]
  /\ issued' = [p \in Path |-> 0]
  /\ lease' = [p \in Path |-> 0]
  /\ owner' = [p \in Path |-> Nobody]

Start ==
  /\ phase = "down"
  /\ phase' = "serving"
  /\ \/ Restorable = {} /\ StartFrom(NoDirectory)
     \/ \E n \in Restorable : StartFrom(disk[n])
  /\ NoLeases
  /\ UNCHANGED <<disk, workers, orphans, history>>

CheckpointDue ==
  /\ CheckpointEvery > 0
  /\ \/ phase = "serving" /\ T - lastCkpt >= CheckpointEvery
     \/ phase = "ending"

\* _save_cluster_checkpoint, to the end.
DiskAfterCheckpoint ==
  [disk EXCEPT ![T] =
     [bank |-> bank, private |-> private, meta |-> TRUE,
      extra |-> {[T |-> T, completed |-> completed, versions |-> versions]}]]

\* It, cut short after the rank file, or after meta.json, was put in place.
DiskTornBy(metaWritten) ==
  [disk EXCEPT ![T] =
     [bank |-> bank, private |-> private,
      meta |-> disk[T].meta \/ metaWritten, extra |-> disk[T].extra]]

\* The periodic checkpoint of the loop.
Checkpoint ==
  /\ phase = "serving" /\ CheckpointDue
  /\ disk' = DiskAfterCheckpoint
  /\ lastCkpt' = T
  /\ UNCHANGED <<phase, target, progress, leases, workers, orphans, history>>

\* The target is reached: no more tasks, but submits are still received.
StopServing ==
  /\ phase = "serving" /\ T >= target
  /\ phase' = "ending"
  /\ UNCHANGED <<target, lastCkpt, progress, leases, disk, workers, orphans, history>>

\* The last checkpoint, and fit() returns.
FinishFit ==
  /\ phase = "ending"
  /\ phase' = "ended"
  /\ disk' = IF CheckpointDue THEN DiskAfterCheckpoint ELSE disk
  /\ UNCHANGED <<target, lastCkpt, progress, leases, workers, orphans, history>>

\* The process dies: its memory, its connections and what was on them go.
\* (Its variables take their initial values, until Start gives them new ones.)
Down ==
  /\ phase # "down"
  /\ crashes < MaxCrash
  /\ crashes' = crashes + 1
  /\ phase' = "down"
  /\ T' = 0 /\ target' = 0 /\ lastCkpt' = 0
  /\ completed' = [p \in Path |-> 0]
  /\ versions' = [k \in Shared |-> 0]
  /\ bank' = [k \in Shared |-> 0]
  /\ private' = [p \in Path |-> 0]
  /\ NoLeases
  /\ conn' = [w \in Worker |-> FALSE]
  /\ sent' = [w \in Worker |-> FALSE]
  /\ job' = [w \in Worker |-> IF sent[w] THEN NoJob ELSE job[w]]
  /\ orphans' = {}
  /\ UNCHANGED <<have, cache, warm, mine, carry, nextToken, applied>>

Crash == Down /\ UNCHANGED disk

\* It dies inside save_checkpoint.
CrashInCheckpoint(metaWritten) ==
  /\ CheckpointDue
  /\ Down
  /\ disk' = DiskTornBy(metaWritten)

-----------------------------------------------------------------------------
Next ==
  \/ \E p \in Path : LeaseTimesOut(p)
  \/ Reclaim
  \/ \E w \in Worker : Heartbeat(w)
  \/ \E w \in Worker : Request(w)
  \/ \E w \in Worker : Train(w)
  \/ \E w \in Worker : Fail(w)
  \/ \E w \in Worker : Submit(w)
  \/ \E m \in orphans : SubmitLate(m)
  \/ \E w \in Worker : Disconnect(w)
  \/ \E w \in Worker : Reconnect(w)
  \/ \E w \in Worker : WorkerRestart(w)
  \/ Start
  \/ Checkpoint
  \/ StopServing
  \/ FinishFit
  \/ Crash
  \/ \E metaWritten \in BOOLEAN : CrashInCheckpoint(metaWritten)

Spec == Init /\ [][Next]_vars

\* Time passes, the fit loop sweeps, and training ends.
Fairness ==
  /\ WF_vars(Reclaim)
  /\ \A p \in Path : WF_vars(LeaseTimesOut(p))
  /\ \A w \in Worker : WF_vars(Train(w) \/ Fail(w))

FairSpec == Spec /\ Fairness

-----------------------------------------------------------------------------
\* The types; and only a worker that holds a task has a submit under way.
TypeOK ==
  /\ phase \in {"down", "serving", "ending", "ended"}
  /\ T \in Nat /\ target \in Nat /\ lastCkpt \in Nat
  /\ completed \in [Path -> Nat]
  /\ versions \in [Shared -> Nat]
  /\ bank \in [Shared -> Weights]
  /\ private \in [Path -> Weights]
  /\ inflight \in [Path -> {"none", "live", "late"}]
  /\ issued \in [Path -> Nat]
  /\ lease \in [Path -> Weights]
  /\ owner \in [Path -> Worker \cup {Nobody}]
  /\ disk \in [Weights -> Directory]
  /\ conn \in [Worker -> BOOLEAN]
  /\ job \in [Worker -> Job \cup {NoJob}]
  /\ sent \in [Worker -> BOOLEAN]
  /\ \A w \in Worker : sent[w] => job[w] # NoJob
  /\ have \in [Worker -> [Shared -> Nat \cup {-1}]]
  /\ cache \in [Worker -> [Shared -> Weights]]
  /\ warm \in [Worker -> SUBSET Path]
  /\ mine \in [Worker -> [Path -> Weights]]
  /\ carry \in [Worker -> [Path -> Weights]]
  /\ orphans \subseteq Job
  /\ nextToken \in 1 .. MaxToken + 1
  /\ applied \subseteq Token
  /\ crashes \in 0 .. MaxCrash

\* The tasks whose contribution may still arrive.
InHand == orphans \cup {job[w] : w \in {v \in Worker : job[v] # NoJob}}

\* The clock counts the accepted updates of all paths, through rejections,
\* reclaims, crashes and torn checkpoints: fit() compares it with a target
\* that stands for updates per path.
ClockCountsCompletions == T = FoldFunction(+, 0, completed)

\* Of all the contributions ever trained for a path's n-th update, by holders
\* reclaimed, replaced or cut off, at most one becomes that update: what is
\* accepted was leased at the count the path still has.
AcceptedInSequence ==
  [][\A m \in InHand :
       m.token \in applied' \ applied => m.gen = completed[m.path]]_vars

\* No accepted contribution was trained on weights more than StalenessBound
\* updates old, whatever happened to its lease since: the coordinator measures
\* staleness from its own record of the lease, not from the contribution.
AcceptedWithinStaleness ==
  [][\A m \in InHand :
       m.token \in applied' \ applied => T - m.base <= StalenessBound]_vars

\* Until the first crash, a worker that reports the current version of a
\* shared module holds its current weights, so that it may be left out of the
\* task.
CacheFresh ==
  crashes = 0 =>
    \A w \in Worker, k \in Shared : have[w][k] = versions[k] => cache[w][k] = bank[k]

\* The run overshoots its target by less than one update per path: the leases
\* outstanding when the target is reached may all still land.
OvershootBounded ==
  phase # "down" =>
    T + Cardinality({p \in Path : inflight[p] # "none"}) < target + NumPaths

\* An error-feedback residual is carried into later updates only if the update
\* it came from was applied, however submits, acks and connections interleave.
CarryOnlyFromApplied ==
  \A w \in Worker, p \in Path : carry[w][p] \in applied \cup {0}

\* A lease does not stay with a worker that died, hangs or was cut off: every
\* path is free again, or leased anew, as long as fit() serves.
LeasesAreReleased ==
  \A p \in Path, t \in Token :
    phase = "serving" /\ lease[p] = t ~> lease[p] # t \/ phase # "serving"

=============================================================================
