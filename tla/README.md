# OpenDiPaCo in TLA+

OpenDiPaCo trains a grid of *paths* (compositions of modules, some shared
between paths, some private to one) on machines that come and go.  Most of its
logic that is hard to test is in `src/src/opendipaco/schedule/`: who may train which
path, what is accepted of the results, and what survives timeouts, lost messages,
crashes and restarts.  This directory holds TLA+ models of that logic, of the
synchronous engine and of the data pipeline, the TLC configurations that check them
on small instances, and theorems about them with proofs checked by TLAPS.

Paths below are relative to `src/src/opendipaco/` unless they start with `docs/`.

## 1. Inventory

### The system's parts

| Part | State it keeps | Operations | What makes it correct |
|---|---|---|---|
| **Task queue** of the in-process scheduler (`schedule/scheduler.py`, `_Generation`) | pending deque, lease deadlines, attempts, results, failed | `lease`, `complete`, `nack`, `reclaim`, `is_done` | no path is lost or settled twice; done stays done; bounded retries |
| **Generation loop** (`AsyncScheduler`) | worker threads, a monitor thread, the engine's round | `run_generation`, `fit` | every generation ends; the outer step folds each path at most once |
| **Coordinator** (`schedule/distributed.py`, `CoordinatorServer`) | clock `_T`, counts, versions, leases with tokens, module bank | `request`, `submit`, `nack`, `heartbeat`, `fit` (restore, sweep, checkpoint) | one accepted update per generation of a path; bounded staleness; consistent restart |
| **Workers** (`run_worker`) | versions and weights held, warm paths, private modules, residuals | serve, reconnect | caches agree with what they are reported as; residuals only from applied updates |
| **Checkpoints** (`checkpoint.py`) | directories of files | `save_checkpoint`, `load_checkpoint`, `latest_checkpoint` | a restart never trains on half a state |
| **Sharded scheduler** (`schedule/sharded.py`, `Scheduler`) | clock, counts, leases, audits, routing, epoch record | `request`, `commit`, `routing`, checkpoint of the cluster | a grant only for a fresh lease holder; a counted update reaches its modules; a checkpoint's clock is no older than its files |
| **Parameter servers** (`schedule/sharded.py`, `ParameterServer`) | owned modules, versions `(epoch, counter)`, consumed grants, retained history, private proposals, generations | `fetch`, `push`, `sync`, `drain`, digests, `checkpoint` | a grant is applied at most once per server; versions identify weights; replicas converge |
| **Sharded and self-assigning workers** (`run_sharded_worker`, `run_decentralized_worker`) | links, caches, residuals | fetch, train, commit, push, retry | the order fetch, commit, push; retries are harmless |
| **Epochs and ownership** (`schedule/ownership.py`) | members seen, last epoch | `observe`, `owners_for`, `derive_epoch` | epochs only grow; a live member keeps its place, a departed one loses it |
| **Tracker** (`schedule/tracker.py`) | registrations, tombstones, epoch record | `register`, `deregister`, `epoch_put`, `list` | newest record wins; a departed peer stays away |
| **Assignment and quorum** (`assignment.py`, `quorum.py`) | none | responsible rank, confirmed version, divergent peers | somebody is responsible; no minority decides |
| **Reputation and audits** (`reputation.py`, `probe.py`, parts of `sharded.py`) | scores; sampled tasks with their checks | lease a check, resolve, credit, debit | honest workers keep their standing; audits close |
| **Reactor** (`schedule/reactor.py`) | connections, buffers, open count | accept, dispatch, close | no slot leaks, no reply to the wrong peer, faults stay with their connection |
| **Peer-to-peer transport** (`schedule/p2p.py`) | host, relay reservations, per-address locks | `rpc`, `serve`, `reserve_on` | every call ends; a request is not run more often than it was tried |
| **Training engine, backends** (`train/loop.py`, `backend/`, `distributed.py`) | bank, path models, optimizer and shuffling state, best snapshots | `run_round`, `fit`, `state_dict`, `load_state_dict`, collectives | ranks agree; a resumed run is the run |
| **Topology** (`topology.py`) | none | paths, keys, sharing | |
| **Data and routing** (`data/`, `routing/`, corpus builders of `launch/roles.py`) | shards in memory and on disk, ingestion files | build, materialize, ingest | a worker trains on exactly its run's shard of its path |
| Identity, TLS, wire codec, throttling, rate limits, aggregation, compression, guards, metrics, launcher, CLI, model layers, optimizers | keys; tensors; configuration | | cryptography, numerics and wiring |

### How they interact

* In one process, worker threads and the monitor thread share one `_Generation`
  under its condition variable; `fit` joins them and takes the outer step.
* Over the network, workers talk to one coordinator (or to the sharded scheduler
  and, with the grants it signs, to the parameter servers) by request and reply
  on one connection each; a heartbeat thread shares the socket.  Handlers run on
  the reactor's selector threads and serialise on the server's lock, which the
  `fit` loop takes too.  With libp2p, a request is a stream, and a handler a thread.
* Parameter servers register with the trackers; the scheduler polls the first one
  and publishes epochs, which the servers poll from it.  They pull from the other
  owners of their modules (those of the epoch before included), and hand over
  to the next rank when they leave.
* Without a scheduler, owners derive their own epochs from directories they gossip,
  and workers assign themselves, reading and writing through quorums of owners.
* A coordinator or scheduler that restarts reads the checkpoints its predecessor wrote;
  its workers survive it and bring their caches along.
* Synchronous training has neither: ranks meet in the collectives of
  `torch.distributed` and are launched again from a directory they all wrote.

### What is hard about it

Late messages of workers that lost their lease; several holders of one path;
deadlines that pass while an answer is under way; caches trusted by version
number across crashes; checkpoints of several files and several writers; updates
counted in one place and applied in another (sharded mode); ownership that moves while
pushes are in flight; records of departed peers that others relay; owners that lie;
threads that miss each other's wake-ups; files two processes write under one name.
`PROJECT.json` lists these hazards, each at its line, with the
properties that would catch it going wrong, or why there is none.

## 2. Plan and status

| Module | Models | Abstract specification | Status |
|---|---|---|---|
| `Generation`, `GenerationLedger` | the in-process queue and generation loop | the ledger of open, done and dropped paths | checked; safety and refinement proved |
| `Coordinator` | coordinator, workers, checkpoints, crashes | - | checked; safety proved |
| `Sharded` | scheduler, workers, servers and cluster checkpoints in one epoch | - | checked; safety proved |
| `Replication` | epochs, primaries, promotion, drain, versions, retries of pushes | - | central mode; checked; safety proved |
| `Membership` | trackers, heartbeats, departures, the scheduler's epochs | - | checked; action properties proved |
| `Audit` | redundant execution: sampling, checks, deadlines, private proposals | - | checked; safety proved |
| `Decentralized` | derived epochs, quorum reads, self-assignment, generation fence, digest audits | - | one shared module; checked; `NeverPoisoned` proved, `ConfirmedIsKept` within the bootstrap epoch |
| `Reactor`, `P2p`, `Transports` | the two transports, and a deployment that has one of them | - | checked; safety proved |
| `Topology`, `Training` | paths and modules; the synchronous engine with its checkpoints | the same ranks, uninterrupted (`Expected`) | checked (`MCHosts`); safety proved |
| `Corpus`, `Shards` | documents, routing, packing; how shards reach workers; ingestion | the run's documents of a path (`Routed`) | checked (`MCHosts`); safety proved |
| `Hosts` | a host that is launched for either of the last two | - | checked (`MCHosts`); proved of both jobs |

A module `M` that theorems are about has them in `MProofs`.  Two files hold the proofs of
several modules: `TransportProofs` those about the two transports, `HostProofs` those about
what runs within one host or one job (`Generation`, `Training`, `Shards`, `Hosts`).

What remains worth doing: a proof of `ConfirmedIsKept` across epochs
that owners derive by themselves; the robust aggregation buffers and the ring of recent
versions of the parameter servers; three owners in `Replication`, so that a syncing owner
has several sources; a clean departure that loses no accepted push; `Decentralized` with
private modules.

## 3. What is modelled, and how

### Generation

One behaviour is the life of `AsyncScheduler.fit` over any number of
generations.  `pending`, `leased`, `attempts`, `results`, `failed` are the fields of
`_Generation`; `task` and `returned` are the local state of the worker threads.

| Action | Code |
|---|---|
| `Lease`, `Return` | `_Generation.lease` with the sweep it starts with: a path, or `None` and the thread ends |
| `Complete`, `Nack`, `Preempt` | the three ways `_worker` ends a task |
| `Reclaim` | the monitor's sweep, and that of a thread waiting in `lease` |
| `LeaseTimesOut` | a deadline passes; nothing happens before the next sweep |
| `NextGeneration` | the joins of `run_generation` and the next turn of `fit` |

Time is one bit per lease.  The pending deque is the number of copies of each path:
a path can be queued more than once (a sweep queues it, a late nack queues it
again), and that is where the interesting behaviours are; which path is at the head
makes no difference to the properties.  `min_success` is computed from `min_fraction`
but read by nobody, so a generation also ends when every path was dropped: the
model has no such threshold either.

### Coordinator

One behaviour is the life of a training run: coordinator processes one after the
other, the checkpoint directories they leave, and the workers that outlive them.

| Variables | Code |
|---|---|
| `T`, `target`, `completed`, `versions`, `inflight`, `issued`, `lease`, `owner` | the fields of `CoordinatorServer` with those names |
| `bank`, `private` | the engine's bank, shared modules and the private ones of each path |
| `phase`, `lastCkpt` | where `fit` is, and its local |
| `disk` | directories by the clock in their name: the rank file, whether `meta.json` is there, the content of `extra.pt` |
| `conn`, `job`, `sent` | a worker's connection, the task it holds, and whether its submit is on the wire |
| `have`, `cache`, `warm`, `mine`, `carry` | `versions`, the worker's bank, `warm`, its private modules, `residuals` |
| `orphans` | submits the coordinator will still read although their connection broke |
| `nextToken`, `applied`, `crashes` | history: fresh lease tokens, the updates applied, the crashes |

Weights are abstracted to the token of the lease whose training produced them: what
matters is whether two parties hold the same weights, not what they are.  An action
is a whole handler under the lock: `Request` is `_next_task` with the reclaim sweep
it does before it looks for a path, and the reply's effect on the worker (or its
loss, which leaves the lease behind); `Receive` is `_receive`, done for a submit on
a live connection (`Submit`, whose ack may be lost) or for one read later
(`SubmitLate`).  Restoring (`Start`) may take any directory that has a `meta.json`:
`latest_checkpoint` ranks them by the engine's `global_round`, which the
asynchronous run never advances, so they tie.  `CrashInCheckpoint` is a crash
after the rank file or after `meta.json` of the final directory.

Left out: the stop reply and `max_tasks`; a second `fit` in one process; idle
pacing; `dedup_private`; the shard cache and the shipping of shards; numeric
effects (clipping, damping, momentum).  `simulate_crash`, the tests' stand-in for
a crash, lets the `fit` thread write one more checkpoint; the model's crash is that
of a process and does not.

### Replication

One module key, its owners, and the workers that push to it, in central schedule mode
without robust aggregation (the defaults).  An owner is its rank for the key;
what the other keys of a server do is independent of it, except that they share a
grant token and a round of the replication thread.

| Variables | Code |
|---|---|
| `published` | the epochs the scheduler published; the owners of an epoch are its first `K` by rank (`owners_for`) |
| `proc`, `view`, `prev` | the process (`leaving` is `_draining`), its `_epoch_num` and the number of `_prev_epoch` |
| `held`, `active`, `version`, `bytes` | the key's place in `bank` and `_active`, its `_versions` entry, its bank entry |
| `seen`, `pass`, `file` | `_seen_grants`, the locals `pending` and `served` of `_replicate_once`, the key's checkpoint file |
| `stage`, `wire` | where the worker of a grant is, and the pushes a server may still read |
| `servers`, `tainted`, `saves`, `downs` | history: who applied a grant, epochs whose primary went down, the counts that are bounded |

| Action | Code |
|---|---|
| `PublishEpoch`, `AdoptEpoch` | `publish_epoch`; `_poll_epoch` with `apply_epoch` (gained keys built or loaded, lame ducks kept for one epoch, the bootstrap epoch) |
| `SoleOwner`, `Pull`, `PullNothing` | `_replicate_once`, one source after the other, with the source's `_fetch` |
| `PushFirst`, `PushAgain`, `GiveUp` | the worker's `_push_group`, its retry by fresh routing, and a connection that breaks before the answer |
| `HandlePush` | `_push`: replays, fencing of writes, `skipped`, the version bump |
| `Checkpoint`, `Crash`, `Leave`, `Depart`, `Restart` | `save_modules`; the end of a process; a graceful `shutdown` with its drain to the next rank; a process started again with `--resume` |

The bytes of the module are the sequence of the grants applied to the seeded bank,
which tells apart everything the properties speak of: who applied what, in which
order and on top of what.  An owner does not adopt an epoch in the middle of a pass,
because one thread does both; pushes, drains and other owners' passes do go on in
between.  A push may be read after its worker gave up, but not after the server
that had it went down.

Left out: decentralized mode, robust buffers, private proposals, the history of
versions, reads by workers (`fetch` without state), the bound of 4096 remembered grants,
restarts of the scheduler, and the sharing of a checkpoint directory by several
owners of one machine.

### Sharded: a save and its files

A `checkpoint` request is served by one of the I/O threads of an owner, and
`save_modules` (`schedule/sharded.py:1679-1706`) holds the lock only while it copies.

| Action | Code |
|---|---|
| `StartSave` | a thread gets to a request, the one `fit` waits for or one left in the socket (`overdue`); under the lock it copies what `_saved_versions` does not have |
| `WriteFile` | without the lock: `torch.save` to the key's temporary file, `os.replace`, `_saved_versions` |
| `RenameFails` | another save has renamed that temporary file first: `os.replace` raises and the handler ends |
| `SaveEnds` | the answer with the versions copied; `_checkpoint_cluster` takes it if it still waits |
| `OwnerAway`, `GiveUp` | the owner cannot be reached; it has not answered within 5 s |
| `WriteManifest`, `WriteClock` | `manifest.json`, then `scheduler.pt` with the clock of that moment |

Two saves of one directory may write the same temporary file at the same time: the file
is then either snapshot or `Torn`.  What is on disk is a set of updates, so an older
snapshot is a smaller one.  History: `late` has the directories written to by a save nobody
waited for, `overtaken` the keys of which two saves that ran at the same time left an
older file than they found or meant to write, or a torn one.  `SchedulerCrash` falls
between any two of these steps, `OwnerCrash` takes an owner's threads with it.

### Training: what a module holds

The content of a module is how much of each path's training it holds.  How much an inner
phase adds depends on how often the rank's generator has shuffled (each rank has its own,
seeded alike and drawn for its own paths, `train/loop.py:225`) and on how many phases the
path's optimizer has seen (`Gain`), so that a resumed rank with either state wrong
trains something else.  The outer step adds the weighted sum of the pseudo-gradients with
Nesterov momentum (`outer`, the state of `outer_opt`); rate and momentum are one, and the
sum is not divided by its weight, to stay in the integers.  `Expected` is the recurrence
of the same ranks without kills and loads: with another number of ranks the job would
shuffle, and so train, otherwise.

## 4. The runs

| Run | Shows | Bounds |
|---|---|---|
| `Generation` | under every interleaving: no path is lost (`NoPathLost`), attempts stay below twice the limit although several holders of one path nack late (`AttemptsBounded`), every generation ends, and the queue implements `GenerationLedger` | 2 paths, 3 threads, 3 attempts |
| `Coordinator` | what is accepted is within the staleness bound; the clock counts the accepted updates through crashes and torn checkpoints; caches are fresh until a crash; residuals come from applied updates | 2 paths with 2 shared modules, 2 workers, 3 leases, 1 crash |
| `CoordinatorLeases` | what is accepted is the next update of its path, whoever held the path before (`AcceptedInSequence`); every lease is released, whatever happens to its worker | 1 path, 2 generations, 2 workers, 4 leases, no crash |
| `Replication` | of two copies with versions of one epoch the older is a prefix of the newer, and equal versions are equal bytes, although two owners may act as primary under different epochs (`VersionsIdentifyBytes`); no grant is in a copy more often than servers applied it (`AppliedOncePerServer`); a copy does not go back to an older version (`VersionsGoForward`) | 2 owners, 3 epochs in which the first owner may go and come, 2 pushes with a retry each |
| `ReplicationDown` | owners that all have to sync end up serving (`OwnersComeToServe`), with a crash or a departure, a checkpoint file and a restart | 2 owners, 2 epochs, 1 push, 1 crash or departure, 1 file |
| `Membership` | a live owner stays in the epochs (`LiveOwnersStay`), a departed one does not come back through relayed or late records (`DepartedStayOut`), a signed record supersedes what owners hold (`EpochsSupersede`), and in the end all adopt the epoch of those who are there (`Converges`) | 2 owners, 1 seed tracker, TTL 2, grace 3, 1 event of any kind, 1 relayed record |
| `Sharded` | updates count as the generation they were trained as (`CommitsTheirGeneration`), counted updates land or are visibly given up (`AcceptedLands`) | 2 paths, 2 modules on 2 servers, 2 workers of which one may leave, 1 fault |
| `ShardedRecovery` | module files are ahead of the saved clock only after a scheduler crash or a save that nobody waited for (`CheckpointCounts`), some file holds the manifest's version of each module, unless two saves at the same time left an older or torn one (`RecoveryPointOnDisk`), and the run ends (`RunEnds`) | 1 path, a module with 2 replicas, 2 I/O threads an owner, 1 slow worker, a checkpoint after every update, 2 updates and 1 after a restart, 1 fault |
| `Audit` | honest workers keep their standing, one worker alone never changes a private module, audits close | 4 workers of which 1 is faulty, 1 private path, 2 generations, redundancy 3, 1 lost worker or lease, 2 waiting proposals |
| `Transports` | slots of the connection cap are accounted for, streams intact, faults stay with their connection, everybody is served; libp2p requests run at most once per address tried, calls end | 2 connections (1 rude, 2 messages), caps 1 and 2, 1 I/O thread; 2 threads, 1 server, 2 relays, 2 dial attempts, 2 calls, 1 host that stops |
| `Decentralized` | no honest owner and no reader takes over made-up bytes (`NeverPoisoned`), what a quorum confirmed is kept while no owner is faulty (`ConfirmedIsKept`); while no owner fails or is debited every path reaches its target, unless a push was lost to a coordinator that is also the module's first owner, or no quorum is left (`WorkContinues`) | 3 owners, quorum 2, 2 workers, 2 paths with 1 generation at each coordinator, 1 failure |
| `Hosts` | a killed and resumed synchronous job holds what the same ranks hold without the interruption (`RunsAreExact`), never mixes rounds (`SumsOneRound`), ends (`JobsEnd`); workers train on exactly their run's shards (`ShardsAreTheRuns`), ingested files are exact (`IngestIsExact`); the module evaluates `SourceAgrees` | 8 paths on 4 ranks, 2 rounds, 2 launches; 2 workers, 6 rows, 5 data configurations, 3 leases, 2 runs, 1 crash, 3 targets |

Two paths are needed for a second lease to move the clock while the first is
out; in `Generation` three threads and three attempts are the least with which a path
stands in the queue twice while it is trained.  In `Coordinator`, three leases are
the least with which a refused update, its replacement and an update of the other
path meet in one behaviour.  A path comes to its second turn only when the others had
their first, which takes more leases than two paths allow here: `CoordinatorLeases`
has one path, whose first holder may still be training when the path is leased
for its second update.  `Uses` gives the two paths one module in common and one
of them a module of its own, so that a task updates some but not all versions a
worker holds.  Workers are symmetric in the runs without liveness.  The `Coordinator`
runs cannot deadlock: a coordinator that is down can start, and one that is up can
lose a connection or restart a worker.

In `Replication`, three epochs are the least in which an owner loses the key and gets it
back while the other one was its primary, and two pushes the least with which
two primaries can write different bytes.  With two owners a pass has one source;
`PullNothing` then means that it failed.  `VersionsIdentifyBytes` leaves out the versions
of epochs whose primary went down: restarted within its epoch, it may issue a
version again (`apply_epoch`'s docstring warns of it).  `VersionsGoForward` leaves out
copies from an epoch ahead of the owner's own: the first push such an owner applies
as the primary of its older epoch gets a version of that epoch.

In `Sharded`, one path can be leased again while an old lease of it is still being pushed
and the other path is in flight; the bounds on tokens (nine and four of a path) cut
nothing off in either run: with more of them the states are the same.  `ShardedRecovery` has
two I/O threads so that an overdue save and the next one run side by side.  In
`Decentralized` the coordinator of one path is the first owner of the module, that of the
other is not: of the latter a missed push has to be repaired by replication before the path
can go on (without fairness of `Pull`, `WorkContinues` fails), of the former it never is.
Two grants, one of each path, may reach the owners in different orders; a coordinator that
takes over counts from zero again, so a path may be trained twice.  In `Membership`, a grace of three
ticks against a TTL of two lets a record expire within the grace; one failure is
enough to replace the tracker or the scheduler between any two steps.  In `Audit`,
redundancy three with one faulty worker is the least with a majority; the fourth
worker lets a lost check be handed out again.  In `Transports` a send buffer of one
unit makes every reply a partial write.  In `Hosts`, four ranks with two levels
have groups that overlap without being equal, so that the order of the walks matters;
losses fall and then rise, so that a best snapshot is both replaced and kept; three
targets make an ingestion stop before and after a flush.

Deadlock is checked where the system cannot stop (`Generation`, `Coordinator`,
`Membership`, `Decentralized`); the others stop when the run is over or the bounds are
used up.

### Invariants proved and not run

`TypeOK` of the modules, `DroppedHasNoResult`, `DroppedOnlyWhenExhausted` and
`DoneIsStable` of `Generation`, `OvershootBounded` of `Coordinator`, `CapHeld` and
`HandedOnce` of `TransportProofs`, `CreditKept` of `AuditProofs` and `HoldsItsShard` of
`HostProofs` are proved for all values of
the constants and were checked by TLC before; the runs leave them out.

### Fairness

`Generation` assumes that threads are scheduled, that deadlines pass, and that a
training task ends in one of its three ways; nothing is assumed about which.
`CoordinatorLeases` assumes that deadlines pass, that the `fit` loop keeps sweeping
and that training ends.  It does not assume that submits are delivered,
that workers reconnect or that requests are served.  A worker whose training never
ends keeps its lease by heartbeats, in the code as in the model.

`ReplicationDown` assumes that the replication thread of a process that is up goes
round, that its poll is answered again and again, and that a pull that could succeed
again and again does.  It does not assume that processes are started again or that pushes are
delivered.  It says nothing of a key with a single owner: that one has nobody to ask
but the owners of the epoch before, and waits for ever if they have dropped the key.

`Membership` assumes that heartbeats, polls and the steps of a shutdown go on, that a
tracker that is down is started again (a bound on its outage), and that time passes.
`ShardedRecovery` assumes that workers, servers and `fit` go on, that servers and the scheduler are
started again after a crash, and that lost connections are made again; not that a push
or fetch succeeds.  `Audit` assumes only that deadlines are noticed (`_next_task` and
`fit` sweep for them).  `Transports` assumes that the accept thread and the I/O threads
are scheduled and that a polite peer reads; that libp2p's callers and streams take
steps while they can.  `Decentralized` assumes, as long as no owner has failed or
was debited, that workers that live go on, that dead workers' records expire, that
owners' replication passes go round and that a takeover period passes; once an owner has
failed or was debited, nothing is assumed and nothing promised.  `Hosts` assumes that a
running job goes on, not that it is launched.

## 5. The proofs

TLAPS checks all of these for every value of the constants (numbers of paths, workers,
owners, every topology, every bound), from the assumptions of each module
(`ConstantAssumption`, `P2pAssumption`) and from what is named as a hypothesis of the
theorem.  Of the modules proved about, `TypeOK` is a theorem too, save for the transports
and the jobs of a host, whose types are part of the invariants (`Shape`, `CallTypes`,
`Rounding`, `Running`, `Ingesting`, `Sharding`).

| Property of a run | Theorem | Hypotheses |
|---|---|---|
| `NoPathLost`, `AttemptsBounded`, `ImplementsLedger` | `NeverLosesAPath`, `LeasesAreBounded`, `RefinesLedger` | |
| `AcceptedInSequence`, `AcceptedWithinStaleness`, `CacheFresh`, `CarryOnlyFromApplied`, `ClockCountsCompletions` | `PathsAdvanceInSequence`, `StalenessIsBounded`, `CachesAreFresh`, `CarriesAreLegitimate`, `ClockCounts` | |
| `VersionsIdentifyBytes`, `AppliedOncePerServer`, `VersionsGoForward` | `VersionsAreTruthful`, `GrantsAreSingleUse`, `CopiesGoForward` | |
| `CommitsTheirGeneration`, `AcceptedLands`, `CheckpointCounts` | `GenerationsMatch`, `CommitsLand`, `CheckpointsCount` | |
| `RecoveryPointOnDisk` | `RecoveryPoint` | each owner has a directory of its own |
| `DepartedStayOut` | `DepartedAreOut` | |
| `EpochsSupersede`, `LiveOwnersStay` | `EpochsGoOn`, `LiveOwnersAreKept` | at most one failure of a tracker or the scheduler |
| `HonestKeepStanding` | `HonestStand` | fewer faulty workers than the probe quorum, if there is a probe |
| `NeverOverwrittenAlone` | `PrivateIsSafe` | |
| `SlotsAccounted`, `StreamIntact`, `Confined`, `RunsPerAddress` | `SlotsAreAccounted`, `StreamsAreIntact`, `FailuresAreConfined`, `RequestsRunOnce` | |
| `NeverPoisoned` | `NothingPoisonedIsConfirmed`, `FewFailuresPoisonNothing` | fewer faulty owners than the read quorum |
| `ConfirmedIsKept` | `ConfirmedValuesAreKept` | owners bootstrapped together, a majority for a read quorum; while no owner is faulty and none has derived a further epoch |
| `SumsOneRound`, `RunsAreExact` | `RoundsAreNotMixed`, `RunsAreTheUninterrupted` | |
| `IngestIsExact` | `IngestsAreExact` | |
| `ShardsAreTheRuns` | `ShardsAreOfTheRuns`; `WorkersTrainOnTheirShards` without the hypothesis | `SourceAgrees` |

### Why the hypotheses

The code's own parameters justify them, or the property fails without them.
`RecoveryPoint`: with a common directory it is violated (see the observations).
`EpochsGoOn` and `LiveOwnersAreKept`: if the tracker that caches the epoch record and the
scheduler that wrote it are both replaced, nobody knows the last number, nor who was
listed; the run has the same bound.  `HonestStand`: a probe quorum of faulty workers can
flag whom they like; where a flag costs reputation, the code demands a quorum of at least
two (`schedule/sharded.py:1850`), so that one of them cannot.  `HonestKeepCredit` (a verdict
debits faulty workers only) needs no such bound, because in `Audit` no two faulty workers
compute the same wrong result; if a majority of a task's members did, they would be
believed.

`NothingPoisonedIsConfirmed` is what a read quorum is for: as many liars as make one are
believed.  `ConfirmedValuesAreKept`: two quorums have an owner in common if they are
majorities, as the defaults are (three owners, `read_quorum` two); `run_local` starts all
owners from one directory, so that they agree on the bootstrap epoch.  Across epochs that
owners number by themselves, an owner can hold a version of a later epoch than its own and
count on in its own (`schedule/sharded.py:609`), so that the length of a copy is no longer
in its version; what holds there of the run's instance is left to the run.

`SourceAgrees` is an equation between functions of the corpus and no statement about steps:
what the server packs, or a worker streams from the recipe, of the documents of a path is
the packing of the documents routed to it, and the token counts are theirs.  The functions
are recursive and their data are constants: `MCHosts` has TLC evaluate it for its
configurations.  `WorkersTrainOnTheirShards` is what the concurrent part of the code
guarantees and needs no such hypothesis: whatever the run's recipe yields for the path, the
worker trains on that.

### The arguments

`HostProofs`, the queue.  `Inv` is the conjunction of `TypeOK`, `NoPathLost`,
`DroppedHasNoResult` and `DroppedOnlyWhenExhausted`; the sweep, shared by three actions,
has a lemma of its own (`ReclaimedInv`).  `DoneNeverUndone`: if nothing is queued or leased
every path is settled (`DoneSettlesAll`), and then neither a late ack nor a late nack can
queue anything, since a dropped path has no attempts left.  `RefinesLedger`: every step of
the queue is a step of `GenerationLedger` or leaves the outcome of every path unchanged.
`LeasesAreBounded` needs `Bounded`: below the limit, what may still queue a path (its
places in the queue, its holders, its lease) is at most one more than its leases so far;
at the limit only the places in the queue are left, and their number plus the attempts
stays below twice the limit.

`HostProofs`, the ranks.  Ranks may be a round apart: those that made their outer step have
counted it.  `Rounding` says that there is one round such that every rank before its
outer step is in it and every rank past it, in the code before the next barrier, is one
further; ranks that start are at the round of the directory they were launched from, whose files
are all of that round (`Files`).  Since ranks meet in every reduction and at the barrier
after a save, no rank begins the next round before the last one ended this one.

`Expected` is a recursive function of the round; that the function it chooses
satisfies the recurrence is shown round by round (`UninterruptedExists`).

`Running` adds what a rank holds (`Stand`) to where it stands.  Between two rounds it is a
rank's share of the uninterrupted run of the same ranks after as many (`Whole`): its modules,
the models of its paths, the outer momentum, a step count for each path that has data, one draw for each of them and
round, the best snapshots.  In a round (`Half`) the private modules are a round ahead and the
shared ones are not; the sums of the shared modules it has reduced are everybody's
(`Update`), those of the others its own (`Part`).  A rank that builds its groups or gathers
has passed the beginning of the walk over the keys (`Walked`), and the files of a directory
are the shares of the ranks that wrote them (`DirsExact`), so that it does not matter which
complete directory a launch loads.  The step of most weight is `ReduceRuns`: since every
path with data is one rank's, the ranks' parts of a sum differ from zero at different
paths, and their sum in any order is the update of all paths (`AddedUp`, `GroupSumIs`); it
needs the group of a module to be the owners of the paths through it (`MembersAre`) and
each path to be counted once by its rank (`LocalSumIs`).  That in turn rests on lemmas about
`Topology`: the numbers below `NumPaths` written in the radices of the levels are the paths,
each once (`DigitsAre`, `PathsAre`), the ranks' blocks share them out (`OwnedIs`, `RankIs`),
the walk names every key once (`WalkIs`), and the paths through a module are those that
use it (`ThroughKey`).  The products and sums along the levels are recursive functions and
the filters are `FlattenSeq`; both are expanded by exhibiting the function they choose.

`HostProofs`, the data.  `Ingesting`: the file on disk and the ingestion under way each hold
the kept rows of this part up to the position they record, each once and in order, so that
resuming from a file goes on where its rows end.  `Sharding`: a name in the shared
directory stands for an open file of its recipe and path, whoever wrote to it last
(`FilesRight`), a worker's cache has entries of its run only, and what it was leased agrees
with the run at every step from the lease to the training (`Working`).  One worker moves at a
time (`OneMoves`), and a rename moves a name to a file that was opened for that very name.

`CoordinatorProofs`.  The acceptance test compares a contribution with the *current*
lease of its path, the properties with the count and clock at the time it was *leased*.
`FenceInv` (`FenceHolds`) closes the gap: tokens are never used twice, and a contribution
whose token is still the path's lease carries the count and the clock the coordinator
has on record.  `PathsAdvanceInSequence` and `StalenessIsBounded` follow.
`CarriesAreLegitimate` and `OvershootIsBounded` are inductive with types alone;
`CachesAreFresh` needs `FreshInv`: nobody holds a version that was not issued yet.
`ClockCounts` is about a sum over all paths, which the model writes as a fold: the table of
sums over all subsets exists and is unique (`SumsExist`, `SumsAreNumbers`), the fold reads
it (`FoldIsSum`), and raising one summand raises the sum by as much (`SumStep`), each shown
by looking at a smallest subset for which it fails (`LeastSubset`); the clocks in all
checkpoints, torn ones included, are sums of the counts saved with them.

`ShardedProofs`.  Steps are sorted by what they do to others: a step is *quiet* if it
grants nothing and lets workers go on or end.  `Fence` (tokens of workers are distinct, a
training worker's token was not accepted, and under its path's lease the path stands at
the generation it was leased for) gives `GenerationsMatch`.  `Lands` gives `CommitsLand`:
an owner that never went down serves all it holds (`Steady`) and has applied every
grant it has used to all the keys the grant is for, and what a worker has still to push
to an owner that has not used its grant is all of these keys.  `Counts` with `OnlyGranted`
gives `CheckpointsCount`: between checkpoints, what the running clock counts and a file
holds, the saved clock counts, save for the directories of owners that write when nobody waits.
`Recoverable` gives `RecoveryPoint`: what an owner believes to be saved is in its files, and
so is what a running save has copied and not left to write (`OnDisk`), except for keys that
were overtaken; a save copies states that only grow, and it is marked as crossed when
another one runs beside it (`Saves`: `Copied`, `Crossed`), so that a file which goes back, or
is torn, marks its key; the manifest and the one in the making are stored (`Stored`).

`ReplicationProofs`.  Every step but an applied push only copies copies (`NoOtherCopies`,
`AppliedCopy`), those in checkpoint files included.  `VersionsAreTruthful` is inductive with
two more facts: a version that counts nothing is the seed (`Blank`), and a version of an
epoch whose primary did not go down was made by that primary, which serves a copy at
least as new or has moved on to a later epoch (`Origin`), so that there is no other
place where the next version of that epoch could come from.  `GrantsAreSingleUse` counts
the owners whose table has a grant (`Servers`, `Counts`).

`MembershipProofs`.  `Departures`: what the first tracker knows of a departed owner is its
tombstone, with the age the property measures; the registrations that it lists and
the scheduler has seen carry stamps from before a departure (`Listing`, `SeenEarly`), and a leaving owner whose
heartbeat is still under way is one whose heartbeat hangs (`BeforeGoodbye`).  `Superseding`:
while nothing failed, the tracker caches the scheduler's record or the one before;
afterwards the floor the scheduler resumed from bounds what owners have adopted.
`Recent`: a scheduler that never failed has seen who was listed at its last poll; if the
tracker lost an owner heard of lately, then the tracker is what failed, and the
scheduler still knows.

`AuditProofs`.  A task has one audit with no more members than runs; a member reports once
and what it computed (`OneAudit`, `Reports`, `Reporting`); who trains under the current
lease and was told of an audit is a member of it (`Leased`).  The lemmas on digests
(`MajorityIsSame`, `VerdictIsFair`, `EarnedAppend`) say that a majority, or enough
proposals, of one digest are the correct one's; `Proposed` says whose tokens a proposal has.

`TransportProofs`.  In the reactor, a connection is at one place at a time
(`Places`: nobody's, the accept thread's, in the list handed to one I/O thread, or among
those that thread took), under
which the count of open connections is that of the live ones (`SlotsAccounted`), through
a shutdown at any step; the connections that are accepted and not yet entered are
the ones that make the registry lag behind the count.  From it `CapIsHeld` and
`HandedOverOnce`.  For the streams, `Wire` says of each peer that did not leave: what it sent is the
messages read followed by those left (`Link`, `Open`); what it got, the kernel holds and
`outbuf` has is, unit for unit, the greeting and the replies to those read; `inbuf`, the
socket and the second half the peer has yet to write are those left.  Of a
closed connection it keeps that the former is a beginning of what is owed (`Over`).  That `_consume` goes
from one such split to the next wherever the bytes were cut is a lemma about the
model's operators: `Parsing`, that the whole frames of a cut stream are its first messages and
the remainder begins with the next, with `FlattenSeq` shown to distribute over concatenation.
`Current` says that the events an I/O thread took from its selector are of selected
connections of its own, one of each.  Every step keeps these or closes a connection with an
excuse (`Keeps`): its handshake failed, or its peer `Offends`; `FailuresAreConfined` is
the second half.  In libp2p, `CallInv`: the runs of a call and the streams that may still
run it (`Pending`) are together no more than the addresses it was tried on.

`DecentralizedProofs`.  Every copy, every confirmed and every read value is made of grants
(`Types`); each faulty owner was one failure (`Failures`).  `LiarsAreFew` and
`AgreedIsCopy`: among a quorum that agrees is one that does not lie, and what it reports
is its copy.  `Kept`, while nobody is faulty and all are in the bootstrap epoch: a version
counts the updates of its copy; what was confirmed is the beginning of the copies of a
quorum of owners, whose copies only grow (`HoldersStay`); and all confirmed values are
beginnings of each other, because their quorums meet (`QuorumsMeet`).

### Only model-checked

* Liveness under fairness (`GenerationsEnd`, `LeasesAreReleased`, `OwnersComeToServe`,
  `Converges`, `RunEnds`, `AuditsClose`, `Served`, `CallsEnd`, `WorkContinues`, `JobsEnd`):
  TLAPS reaches neither `ENABLED` nor fairness.
* `ConfirmedIsKept` once an owner has derived a further epoch: it then depends on how the
  quorums of epochs that owners number by themselves intersect, and on the versions of
  copies that come from an epoch ahead of their owner's.

## 6. Observations

What the models show of the code beside the properties, where a comment, a document or
a test says otherwise or nothing is said.  None of it is an assumption of a property
unless it is named there.

*Queue, coordinator, checkpoints*

* `complete()` takes one queued copy of the path off the queue (`schedule/scheduler.py:197`,
  "don't redo a path that just finished"); a reclaim and a late nack leave two, and the
  finished path is trained again.  Its contribution is ignored.
* `fit()` restores version numbers "so warm workers' caches stay meaningful"
  (`schedule/distributed.py:388-392`); after a crash the same numbers are issued again for
  other weights, and a worker that survived keeps the weights of the lost update.
* `save_checkpoint`'s docstring (`checkpoint.py:46-47`) says the directory is renamed into
  place as a whole; the files are, one by one.  A crash after `meta.json` leaves a
  directory that `latest_checkpoint` chooses: a coordinator then restores the engine
  without its clock, and of a synchronous job the ranks without a file cannot start.
* `_owner` is written and never read (`schedule/distributed.py:232`), so a path reclaimed from a
  worker and leased to it again is trained on its private modules with the refused
  update in them, while `docs/async-transport-gaps.md:21-25` says failover is cold.

*Sharded mode*

* A key lost and regained in consecutive epochs is not "gained" (`schedule/sharded.py:957`):
  the owner serves its stale copy without syncing (against `docs/phase2-design.md:236-239`).
* A push whose answer is lost may have been applied and replicated; the retry at the
  new primary applies it once more, to bytes that hold it (`schedule/sharded.py:3031`,
  against the docstring of `_fresh_routing`).
* With one checkpoint directory for all servers of a machine, a lagging replica's file
  replaces the primary's, and no file holds the manifest's version
  (`RecoveryPointOnDisk` fails with `Dir <- OneDirectory`).
* After the recovery gate opened, a backup that still lags serves modules older than the
  manifest; commits during the last checkpoint are counted, but not on disk; a resumed run
  trains `NumGenerations` more.
* A crash of the scheduler after owners have saved and before `scheduler.pt` is replaced
  (`schedule/sharded.py:2570-2598`) leaves module files that hold updates the saved clock does
  not count; the resumed run trains on them and counts their generations again
  (`CheckpointCounts` excepts them).
* A checkpoint request the scheduler gave up after 5 s (`schedule/sharded.py:2572`) is
  served when a thread gets to it.  `save_modules` writes what it copied outside the lock
  (lines 1701-1705) and under one temporary name: it may put an older snapshot, or a torn file,
  over one that a later checkpoint was told of, and the manifest then names a version that is
  nowhere on disk (`RecoveryPointOnDisk` fails without its exception).  If the owners then
  restart from such files, the recovery gate stays closed.
* `publish_epoch`'s comment that numbers outlive the scheduler holds while the tracker
  that caches the record lives: `epoch_put` is best effort.
* Private modules are "*always* audited" (`schedule/sharded.py:1854-1856`) except when an
  audit of the same path and generation is left over from a reclaimed lease; proposals of
  a generation that come late can replace the private state of the next one.

*Decentralized mode*

* Epoch numbers derived by `derive_epoch` depend on each node's own history
  (`schedule/ownership.py:194`), while its docstring (lines 154-155, 163-164) and
  `docs/phase4-design.md:491` say that the same membership gives the same epoch: owners that
  gossip before all have registered number the same members differently.
* Owners that apply two grants in different orders have different bytes at one version;
  the digest audit debits honest owners, and and if one of them is also lost on the way
  to an owner, no two copies are alike and there is no quorum for good (`Unreadable`).  An update that replication brought and a late push applies twice.
* A push lost to an owner that is the path's coordinator and also the first owner of a
  shared module is never repaired (`Stranded`): `_replicate_once` skips an active first owner
  (`schedule/sharded.py:1044-1046`), the worker pushes again only what was applied nowhere
  (3436-3453), and `_commit` answers every commit "stale" from then on (1374-1379).  No owner
  has failed or was debited; the run reaches this and `WorkContinues` excepts it.
* A crash, or a new coordinator (whose generations start at 0), can undo a confirmed
  update; `ConfirmedIsKept` holds up to that.

*Transports*

* A serve timeout of libp2p cannot stop the handler's thread; a fail-over after a timeout
  runs the request again at the same server, at most once per relay (`RunsPerAddress`).
  A reply of `None`, which also stands for a refusal or a late handler, is not failed
  over.  `reserve_on` has no timeout of its own, and heartbeats wait behind the lock of
  their address.
* Connections handed to an I/O thread after it stopped are not closed; a silent peer keeps
  its slot.

*Data*

* A document of exactly `max_doc_tokens` tokens gets an end token on top
  (`data/text.py:120-124`), one more than its docstring allows.
* Workers of one host write the same `.tmp` name (`data/spec.py:357-359`): a rename may expose a
  file another worker is still writing.  Loading a torn file raises, so nobody trains on
  it, but the process ends, and again with every start while the file is there.
* A worker that survives a restart of the server with other data keeps shards by path only
  (`schedule/distributed.py:704`); `Shards` lets workers start with the run.
* The barrier after a save is redundant as soon as two levels of modules are shared; with
  fewer it keeps a fast rank from a second round.

## 7. Not modelled

Tensor arithmetic: optimizers, aggregation, compression, norms of guards, losses, the
k-means fit, network layers and their initialisation, inference, evaluation.  Cryptography:
signatures are unforgeable, handshakes complete or fail.  The type-tagged codec, argument
parsing, configuration files, manifests, logging and metrics have no state that
anything depends on.  Throttling and rate limits only delay.  Of the parts that are
modelled, what is left out stands with each module above; the larger ones are the robust
aggregation buffers, the ring of recent versions with its deltas, the bound of 4096
remembered grants (a grant is presented again within one retry), private modules in
decentralized mode, hole punching, `simulate_crash` and em resharding.
