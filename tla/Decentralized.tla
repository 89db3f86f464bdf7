--------------------------- MODULE Decentralized ---------------------------
(***************************************************************************)
(* The swarm without a scheduler (schedule.mode: decentralized):           *)
(* schedule/assignment.py, schedule/quorum.py, derive_epoch of             *)
(* schedule/ownership.py, and the decentralized halves of ParameterServer  *)
(* and of the worker loop in schedule/sharded.py.                          *)
(*                                                                         *)
(* Each owner keeps a directory of peers, gossips it, and derives its own  *)
(* epoch from it: a number and the owners it counts as members.  The first *)
(* member in a path's ranking coordinates the path: it counts the path's   *)
(* generations and mints one grant for each.  A worker picks a path it is  *)
(* responsible for, reads the base from a quorum of the members, trains,   *)
(* commits to the coordinator and pushes the granted update to every       *)
(* member, each of which applies it by itself.  Owners pull versions that  *)
(* a quorum reports, compare digests, and debit an owner that contradicts  *)
(* a quorum; one debited twice is no member any more.                      *)
(*                                                                         *)
(* There is one shared module, which every path uses and every owner       *)
(* replicates (k is at least the number of owners): its bytes are the      *)
(* sequence of the grants applied.  The hash rankings are constants.  All  *)
(* reports a reader gathers are gathered in one step.  A faulty owner may  *)
(* report and serve any bytes it likes, and does all else as the code      *)
(* does.  Loss, rate and norm checks pass.                                 *)
(***************************************************************************)
EXTENDS Naturals, FiniteSets, SequencesExt

CONSTANTS
  Owner, Worker, Path,
  OwnerRank,     \* path -> the owners in the order of the path's coordinator key
  ModuleRank,    \* the owners in the order of the shared module
  WorkerRank,    \* path -> generation -> the workers in the order of the slot
  Target,        \* path -> bound on the generations committed
  Quorum,        \* read_quorum
  Bound,         \* staleness_bound
  Strikes,       \* debits that take an owner's reputation below the gate
  Bootstrapped,  \* TRUE for run_local: all owners start with the same epoch
  None,          \* no owner, no path
  MaxFailures    \* bound on requests and answers lost, workers that die, and
                 \* owners that crash or become faulty

ASSUME ConstantAssumption ==
  /\ \A p \in Path : ToSet(OwnerRank[p]) = Owner /\ Len(OwnerRank[p]) = Cardinality(Owner)
  /\ ToSet(ModuleRank) = Owner
  /\ \A p \in Path : \A g \in 0 .. Target[p] : ToSet(WorkerRank[p][g]) = Worker
  /\ {Quorum, Strikes} \subseteq Nat \ {0} /\ {Bound, MaxFailures} \subseteq Nat
  /\ Target \in [Path -> Nat] /\ Bootstrapped \in BOOLEAN
  /\ IsFiniteSet(Owner) /\ IsFiniteSet(Worker) /\ Worker # {} /\ None \notin Owner \cup Path \cup Nat

VARIABLES
  state,     \* owner -> "off" (not started), "up", "faulty" or "down"
  dir,       \* owner -> the owners in its directory, itself once it has registered
  epoch,     \* owner -> number and members of its epoch, and the members before it
  active,    \* the owners whose copy is active
  copy,      \* owner -> version and bytes of its copy
  seen,      \* owner -> the grants it has consumed
  gen,       \* owner -> path -> the generation it holds open as coordinator
  turn,      \* owner -> path -> lease_ttl periods the generation has been open
  debits,    \* owner -> owner -> debits for divergence, up to Strikes
  read,      \* owner -> what its replication pass has confirmed, or Silent
  worker,    \* worker -> its task
  expired,   \* the peers whose records have expired everywhere
  confirmed, \* history: every version and bytes confirmed to a reader
  failures   \* how much has failed
vars == <<state, dir, epoch, active, copy, seen, gen, turn, debits, read, worker,
          expired, confirmed, failures>>
ownerVars == <<state, dir, epoch, active, copy, seen, gen, turn, debits, read>>

Epoch(n, now, before) == [num |-> n, members |-> now, before |-> before]

Seeded == [ver |-> <<0, 0>>, bytes |-> <<>>]

Silent == [ver |-> <<0, 0>>, bytes |-> <<None>>]

Poison == << <<None, 0, None>> >>

Idle == [at |-> "idle", path |-> None, gen |-> 0, to |-> None, view |-> {},
         base |-> Silent, grant |-> <<None, 0, None>>, todo |-> <<>>, applied |-> FALSE]

Init ==
  /\ state = [o \in Owner |-> IF Bootstrapped THEN "up" ELSE "off"]
  /\ dir = [o \in Owner |-> IF Bootstrapped THEN Owner ELSE {}]
  /\ epoch = [o \in Owner |-> IF Bootstrapped THEN Epoch(0, Owner, {}) ELSE Epoch(None, {}, {})]
  /\ active = IF Bootstrapped THEN Owner ELSE {}
  /\ copy = [o \in Owner |-> Seeded]
  /\ seen = [o \in Owner |-> {}]
  /\ gen = [o \in Owner |-> [p \in Path |-> 0]]
  /\ turn = [o \in Owner |-> [p \in Path |-> 0]]
  /\ debits = [o \in Owner |-> [q \in Owner |-> 0]]
  /\ read = [o \in Owner |-> Silent]
  /\ worker = [w \in Worker |-> Idle]
  /\ expired = {} /\ confirmed = {} /\ failures = 0

Serving(o) == state[o] \in {"up", "faulty"}

Members(o) == epoch[o].members

First(rank, members) == SelectSeq(rank, LAMBDA o : o \in members)

Coordinator(p, members) ==
  IF members = {} THEN None ELSE Head(First(OwnerRank[p], members))

Coordinates(o, p) == o \in active /\ Coordinator(p, Members(o)) = o

Newer(v, u) == v[1] > u[1] \/ (v[1] = u[1] /\ v[2] > u[2])

(* _bump_version_locked, in epoch e. *)
Bumped(v, e) == <<e, IF v[1] = e THEN v[2] + 1 ELSE 1>>

----------------------------------------------------------------------------
(* Reports and quorums. *)

Lies ==
  {[ver |-> <<e, c>>, bytes |-> Poison] :
     e \in {copy[o].ver[1] : o \in Owner}, c \in {copy[o].ver[2] : o \in Owner} \cup {1}}

(* What owner o has to answer to a digest request, and to a replica's fetch. *)
Report(o) == IF Serving(o) /\ o \in active THEN copy[o] ELSE Silent

Offer(o) == IF Serving(o) THEN copy[o] ELSE Silent

(* The answers of all asked; the faulty tell the truth or agree on a lie. *)
Gather(asked, Truth(_)) ==
  LET told == [o \in asked |-> Truth(o)]
      liars == {o \in asked : state[o] = "faulty"}
  IN  {told} \cup IF liars = {} THEN {}
                  ELSE {[o \in asked |-> IF o \in liars THEN l ELSE told[o]] : l \in Lies}

\* Mutant of Agreed: one report less makes a quorum.
AgreedByOneLess(t) ==
  {r \in Range(t) \ {Silent} : Cardinality({o \in DOMAIN t : t[o] = r}) >= Quorum - 1}

\* Mutant of Agreed: a quorum on the version is enough.
AgreedOnVersion(t) ==
  {r \in Range(t) \ {Silent} : Cardinality({o \in DOMAIN t : t[o] # Silent /\ t[o].ver = r.ver}) >= Quorum}

(* confirm_version: of what a quorum agrees on, the highest version. *)
Agreed(t) ==
  {r \in Range(t) \ {Silent} : Cardinality({o \in DOMAIN t : t[o] = r}) >= Quorum}

Confirm(t) == {r \in Agreed(t) : \A q \in Agreed(t) : ~Newer(q.ver, r.ver)}

Divergent(t, r) ==
  {o \in DOMAIN t : t[o] # Silent /\ t[o].ver = r.ver /\ t[o].bytes # r.bytes}

----------------------------------------------------------------------------
(* Owners. *)

Tracker == {o \in Owner : state[o] # "off"} \ expired

(* derive_epoch and apply_epoch: a copy that is in neither of two epochs in *)
(* a row is dropped.                                                        *)
Derive(o, members) ==
  IF epoch[o].num # None /\ members = Members(o) THEN UNCHANGED <<epoch, active, copy>>
  ELSE LET stays == o \in members \union Members(o) IN
       /\ epoch' = [epoch EXCEPT ![o] =
            Epoch(IF epoch[o].num = None THEN 0 ELSE epoch[o].num + 1, members, Members(o))]
       /\ active' = IF stays THEN active ELSE active \ {o}
       /\ copy' = IF stays THEN copy ELSE [copy EXCEPT ![o] = Seeded]

(* The first round of an owner is when it starts and registers. *)
Gossip(o) ==
  /\ state[o] # "down"
  /\ state' = [state EXCEPT ![o] = IF @ = "off" THEN "up" ELSE @]
  /\ \E told \in {UNION S : S \in SUBSET ({dir[q] : q \in {q \in Members(o) \ {o} : Serving(q)}}
                                            \union {Tracker})} :
       LET known == (dir[o] \union {o} \union told) \ expired IN
       /\ dir' = [dir EXCEPT ![o] = known]
       /\ Derive(o, {q \in known : debits[o][q] < Strikes})
  /\ UNCHANGED <<seen, gen, turn, debits, read, worker, expired, confirmed, failures>>

Replica(o) ==
  /\ state[o] = "up" /\ o \in Members(o)
  /\ o \in active => Head(First(ModuleRank, Members(o))) # o

(* The first half of _replicate_once: what the quorum confirms. *)
ReadVersions(o) ==
  /\ Replica(o)
  /\ \E t \in Gather(Members(o), Report) : \E r \in Confirm(t) :
       /\ Newer(r.ver, copy[o].ver)
       /\ read' = [read EXCEPT ![o] = r]
       /\ confirmed' = confirmed \union {r}
  /\ UNCHANGED <<state, dir, epoch, active, copy, seen, gen, turn, debits, worker, expired, failures>>

Adopts(o, offers) == read[o] \in offers /\ Newer(read[o].ver, copy[o].ver)

(* The second half: an active replica asks one other, a syncing one all. *)
Pull(o) ==
  LET sources == (Members(o) \union epoch[o].before) \ {o}
      there == {q \in sources : Serving(q)}
  IN
  /\ Replica(o)
  /\ \E asked \in (IF o \in active THEN {{q} : q \in there} ELSE {there}) :
     \E t \in Gather(asked, Offer) :
       LET new == IF Adopts(o, Range(t)) THEN read[o] ELSE copy[o] IN
       /\ copy' = [copy EXCEPT ![o] = new]
       /\ active' = IF sources = {} \/ \E q \in asked : ~Newer(t[q].ver, new.ver)
                    THEN active \union {o} ELSE active
  /\ read' = [read EXCEPT ![o] = Silent]
  /\ UNCHANGED <<state, dir, epoch, seen, gen, turn, debits, worker, expired, confirmed, failures>>

(* _audit_digests_once. *)
Audit(o) ==
  /\ state[o] = "up" /\ o \in active /\ o \in Members(o)
  /\ \E t \in Gather(Members(o), Report) : \E r \in Confirm(t) :
       /\ Divergent(t, r) # {}
       /\ debits' = [debits EXCEPT ![o] = [q \in Owner |->
            IF q \in Divergent(t, r) /\ @[q] < Strikes THEN @[q] + 1 ELSE @[q]]]
  /\ UNCHANGED <<state, dir, epoch, active, copy, seen, gen, turn, read, worker, expired, confirmed, failures>>

(* Another lease_ttl has passed since the generation was opened. *)
Takeover(o, p) ==
  /\ Serving(o) /\ Coordinates(o, p)
  /\ gen[o][p] < Target[p] /\ turn[o][p] < Cardinality(Worker) - 1
  /\ turn' = [turn EXCEPT ![o][p] = @ + 1]
  /\ UNCHANGED <<state, dir, epoch, active, copy, seen, gen, debits, read, worker, expired, confirmed, failures>>

Fault(o) ==
  /\ state[o] = "up" /\ failures < MaxFailures
  /\ \E s \in {"down", "faulty"} : state' = [state EXCEPT ![o] = s]
  /\ failures' = failures + 1
  /\ UNCHANGED <<dir, epoch, active, copy, seen, gen, turn, debits, read, worker, expired, confirmed>>

(* The record of a peer that no longer registers has outlived its TTL. *)
Expire(q) ==
  /\ q \in {o \in Owner : state[o] = "down"} \union {w \in Worker : worker[w].at = "dead"}
  /\ q \notin expired
  /\ expired' = expired \union {q}
  /\ UNCHANGED <<ownerVars, worker, confirmed, failures>>

----------------------------------------------------------------------------
(* Workers. *)

\* Mutant of Assignee: ranks workers whose records have expired, too.
AssigneeAmongAll(p, g, t) == WorkerRank[p][g][IF t < Cardinality(Worker) THEN t + 1 ELSE Cardinality(Worker)]

(* assignee and responsible_rank: the rank moves down with time and stays  *)
(* at the last live worker.                                                *)
Assignee(p, g, t) ==
  LET live == SelectSeq(WorkerRank[p][g], LAMBDA w : w \notin expired)
  IN  live[IF t < Len(live) THEN t + 1 ELSE Len(live)]

(* The directory as the tracker knows it, or as it was last seen. *)
Views(w) == {worker[w].view, Tracker} \ {{}}

Pick(w) ==
  /\ worker[w].at = "idle"
  /\ \E view \in Views(w), p \in Path :
       LET o == Coordinator(p, view) IN
       /\ Serving(o) /\ Coordinates(o, p)
       /\ gen[o][p] < Target[p] /\ Assignee(p, gen[o][p], turn[o][p]) = w
       /\ worker' = [worker EXCEPT ![w] =
            [Idle EXCEPT !.at = "read", !.path = p, !.gen = gen[o][p], !.to = o, !.view = view]]
  /\ UNCHANGED <<ownerVars, expired, confirmed, failures>>

Rests(w) == worker' = [worker EXCEPT ![w] = [Idle EXCEPT !.view = worker[w].view]]

(* _fetch_quorum_bases. *)
ReadBase(w) ==
  /\ worker[w].at = "read"
  /\ \E t \in Gather(worker[w].view, Report) :
       \/ \E r \in Confirm(t) :
            /\ worker' = [worker EXCEPT ![w].at = "train", ![w].base = r]
            /\ confirmed' = confirmed \union {r}
       \/ Confirm(t) = {} /\ Rests(w) /\ UNCHANGED confirmed
  /\ UNCHANGED <<ownerVars, expired, failures>>

(* version_lag, against the staleness bound. *)
Fresh(base, now) == base[1] = now[1] /\ base[2] <= now[2] /\ now[2] - base[2] <= Bound

Accepts(o, w) ==
  /\ Serving(o) /\ Coordinates(o, worker[w].path)
  /\ worker[w].gen = gen[o][worker[w].path]
  /\ Fresh(worker[w].base.ver, copy[o].ver)

Advance(o, p) ==
  /\ gen' = [gen EXCEPT ![o][p] = @ + 1]
  /\ turn' = [turn EXCEPT ![o][p] = 0]

Unheld == <<state, dir, epoch, active, copy, seen, debits, read, expired, confirmed>>

Commit(w) ==
  LET o == worker[w].to
      p == worker[w].path
  IN
  /\ worker[w].at = "train"
  /\ IF Accepts(o, w)
     THEN /\ Advance(o, p)
          /\ worker' = [worker EXCEPT ![w] =
               [Idle EXCEPT !.at = "push", !.view = worker[w].view,
                            !.grant = <<p, gen[o][p], o>>, !.todo = First(ModuleRank, worker[w].view)]]
     ELSE Rests(w) /\ UNCHANGED <<gen, turn>>
  /\ UNCHANGED <<Unheld, failures>>

(* The commit or its answer is lost; the worker goes on to other work. *)
CommitLost(w) ==
  LET o == worker[w].to IN
  /\ worker[w].at = "train" /\ failures < MaxFailures
  /\ \/ UNCHANGED <<gen, turn>>
     \/ Accepts(o, w) /\ Advance(o, worker[w].path)
  /\ Rests(w) /\ failures' = failures + 1
  /\ UNCHANGED Unheld

(* _push at owner o: the grant must be signed by the coordinator in o's own *)
(* epoch, and is consumed even when the owner may not write.                *)
Consumes(o, g) == Serving(o) /\ Coordinator(g[1], Members(o)) = g[3] /\ g \notin seen[o]

Writes(o, g) == Consumes(o, g) /\ o \in Members(o) /\ o \in active

Receive(o, g) ==
  /\ seen' = IF Consumes(o, g) THEN [seen EXCEPT ![o] = @ \union {g}] ELSE seen
  /\ copy' = IF ~Writes(o, g) THEN copy
             ELSE [copy EXCEPT ![o] = [ver |-> Bumped(@.ver, epoch[o].num), bytes |-> Append(@.bytes, g)]]

Pushing(w) == worker[w].at \in {"push", "again"} /\ worker[w].todo # <<>>

Answered(w, done) ==
  worker' = [worker EXCEPT ![w].todo = Tail(@), ![w].applied = @ \/ done]

Push(w) ==
  /\ Pushing(w)
  /\ LET o == Head(worker[w].todo) IN Receive(o, worker[w].grant) /\ Answered(w, Writes(o, worker[w].grant))
  /\ UNCHANGED <<state, dir, epoch, active, gen, turn, debits, read, expired, confirmed, failures>>

PushLost(w) ==
  /\ Pushing(w) /\ failures < MaxFailures
  /\ UNCHANGED <<seen, copy>> \/ Receive(Head(worker[w].todo), worker[w].grant)
  /\ Answered(w, FALSE) /\ failures' = failures + 1
  /\ UNCHANGED <<state, dir, epoch, active, gen, turn, debits, read, expired, confirmed>>

(* An update that landed nowhere is pushed once more, by a fresh directory. *)
PushEnds(w) ==
  /\ worker[w].at \in {"push", "again"} /\ worker[w].todo = <<>>
  /\ IF worker[w].at = "push" /\ ~worker[w].applied
     THEN \E view \in Views(w) :
            worker' = [worker EXCEPT ![w].at = "again", ![w].view = view,
                                     ![w].todo = First(ModuleRank, view)]
     ELSE Rests(w)
  /\ UNCHANGED <<ownerVars, expired, confirmed, failures>>

Die(w) ==
  /\ worker[w].at # "dead" /\ failures < MaxFailures
  /\ worker' = [worker EXCEPT ![w] = [Idle EXCEPT !.at = "dead"]]
  /\ failures' = failures + 1
  /\ UNCHANGED <<ownerVars, expired, confirmed>>

----------------------------------------------------------------------------
Finished == \A p \in Path : \E o \in Owner : gen[o][p] >= Target[p]

(* The bound on generations is reached; workers would go on. *)
Rest == Finished /\ UNCHANGED vars

OwnerNext(o) ==
  \/ Gossip(o) \/ ReadVersions(o) \/ Pull(o) \/ Audit(o) \/ Fault(o) \/ Expire(o)
  \/ \E p \in Path : Takeover(o, p)

WorkerStep(w) == Pick(w) \/ ReadBase(w) \/ Commit(w) \/ Push(w) \/ PushEnds(w)

WorkerNext(w) == WorkerStep(w) \/ CommitLost(w) \/ PushLost(w) \/ Die(w) \/ Expire(w)

Next == (\E o \in Owner : OwnerNext(o)) \/ (\E w \in Worker : WorkerNext(w)) \/ Rest

Spec == Init /\ [][Next]_vars

(* No owner has failed or was debited, which it stays. *)
Unharmed == \A o \in Owner : state[o] = "up" /\ \A q \in Owner : debits[o][q] = 0

(* The threads of the workers and of the owners run, and time passes; said *)
(* only of a swarm whose owners are well, as WorkContinues is.             *)
FairSpec ==
  /\ Spec
  /\ \A w \in Worker : WF_vars(Unharmed /\ WorkerStep(w)) /\ WF_vars(Unharmed /\ Expire(w))
  /\ \A o \in Owner : /\ WF_vars(Unharmed /\ ReadVersions(o))
                      /\ WF_vars(Unharmed /\ Pull(o))
                      /\ WF_vars(Unharmed /\ \E p \in Path : Takeover(o, p))

----------------------------------------------------------------------------
\* The types of the state; ranks stay within the workers.
TypeOK ==
  /\ state \in [Owner -> {"off", "up", "faulty", "down"}]
  /\ dir \in [Owner -> SUBSET Owner] /\ active \subseteq Owner
  /\ \A o \in Owner : epoch[o].num \in Nat \cup {None} /\ Members(o) \subseteq Owner
  /\ \A o \in Owner : copy[o].ver \in Nat \X Nat
  /\ gen \in [Owner -> [Path -> Nat]] /\ turn \in [Owner -> [Path -> 0 .. Cardinality(Worker) - 1]]
  /\ debits \in [Owner -> [Owner -> 0 .. Strikes]]
  /\ \A w \in Worker : worker[w].at \in {"idle", "read", "train", "push", "again", "dead"}
  /\ expired \subseteq Owner \cup Worker /\ failures \in 0 .. MaxFailures

(* With at most one faulty owner, no quorum ever confirms bytes that no    *)
(* grant produced, and no honest owner holds any (quorum.py, and           *)
(* _replicate_once's rule for decentralized mode).                         *)
NeverPoisoned ==
  /\ \A r \in confirmed : r.bytes = <<>> \/ Head(r.bytes) # Head(Poison)
  /\ \A o \in Owner : state[o] = "up" => copy[o].bytes = <<>> \/ Head(copy[o].bytes) # Head(Poison)

(* While no owner is faulty, of two values confirmed to readers the older  *)
(* is what the newer was built on: an update a quorum held is never undone,*)
(* and one version is never confirmed with two contents.                   *)
ConfirmedIsKept ==
  (\A o \in Owner : state[o] # "faulty") =>
     \A r, q \in confirmed : ~Newer(r.ver, q.ver) => IsPrefix(r.bytes, q.bytes)

(* Owner o has missed an update of the path it coordinates and no pass     *)
(* will repair it: it is also the first of the module's owners, which pull *)
(* from nobody.                                                            *)
Stranded(o, p) ==
  /\ Coordinates(o, p) /\ Head(First(ModuleRank, Members(o))) = o
  /\ \E q \in Owner : Newer(copy[q].ver, copy[o].ver)

(* No quorum of owners holds the same copy: no base can be read.           *)
Unreadable == Agreed([o \in Owner |-> Report(o)]) = {}

(* Workers that die and messages that are lost do not stop the swarm while *)
(* no owner fails or is debited: every path reaches its target.  But for   *)
(* two cases, in which the code may stop for good.  A push lost to the     *)
(* coordinator of a path, when that is also the module's first owner, is   *)
(* never made up for: _replicate_once skips an active first owner, a       *)
(* worker tries again only what was applied nowhere, and _commit calls     *)
(* every base that a quorum confirms stale.  And grants that reach the     *)
(* owners in different orders, or not at all, may leave no two copies      *)
(* alike.                                                                  *)
WorkContinues ==
  \/ <>(Finished \/ ~Unharmed)
  \/ <>[](Unreadable \/ \E o \in Owner, p \in Path : Stranded(o, p))

=============================================================================
