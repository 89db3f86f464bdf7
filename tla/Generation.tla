----------------------------- MODULE Generation -----------------------------
(***************************************************************************)
(* The in-process task queue of schedule/scheduler.py: the lease / ack /   *)
(* nack / reclaim set of one generation (class _Generation), the worker    *)
(* threads that drain it (AsyncScheduler._worker), the reclaiming monitor  *)
(* thread (_monitor) and the generation loop that joins the workers and    *)
(* takes the outer step (run_generation, fit).                             *)
(*                                                                         *)
(* Time is abstracted to one bit per lease: a live lease may pass its      *)
(* deadline at any moment (LeaseTimesOut); what the code then does about   *)
(* it happens in the reclaim sweep.  The pending deque is abstracted to    *)
(* how often each path stands in it: duplicates matter to what follows,    *)
(* the order in which paths are handed out does not.                       *)
(***************************************************************************)
EXTENDS Naturals, FiniteSets

CONSTANTS
  Path,         \* the paths of the topology: one task each per generation
  Worker,       \* the worker threads (AsyncScheduler.num_workers)
  MaxAttempts,  \* AsyncScheduler.max_attempts
  NoPath        \* the task of a worker that holds none

ASSUME ConstantAssumption ==
  /\ IsFiniteSet(Path) /\ IsFiniteSet(Worker)
  /\ MaxAttempts \in Nat \ {0}
  /\ NoPath \notin Path

VARIABLES
  pending,   \* path -> how often it stands in _pending
  leased,    \* path -> its entry in _leased: "none", "live" or "expired"
  attempts,  \* path -> _attempts
  results,   \* the paths with a contribution
  failed,    \* the paths given up on
  task,      \* worker -> the path it is training, or NoPath
  returned   \* the workers whose _worker loop has returned

vars == <<pending, leased, attempts, results, failed, task, returned>>
queue == <<pending, leased, attempts, results, failed>>

-----------------------------------------------------------------------------
\* _reclaim_locked: every expired lease is deleted; a path without a result
\* is queued again while it has attempts left, and given up on otherwise.
Expired == {p \in Path : leased[p] = "expired"}
Requeued == {p \in Expired \ results : attempts[p] < MaxAttempts}

\* Mutant of GivenUp: the attempt limit compared with ">".
GivenUpOffByOne == {p \in Expired \ results : attempts[p] > MaxAttempts}

GivenUp == {p \in Expired \ results : attempts[p] >= MaxAttempts}

ReclaimedPending == [p \in Path |-> pending[p] + (IF p \in Requeued THEN 1 ELSE 0)]
ReclaimedLeased == [p \in Path |-> IF p \in Expired THEN "none" ELSE leased[p]]
ReclaimedFailed == failed \cup GivenUp

\* Mutant of DoneWith: an empty queue is taken for a finished generation.
DoneWhenQueueEmpty(pend, lsd, res, fld) == \A p \in Path : pend[p] = 0

\* Mutant of DoneWith: dropped paths are not counted as settled.
DoneForgetsDropped(pend, lsd, res, fld) ==
  /\ \A p \in Path : pend[p] = 0 /\ lsd[p] = "none"
  /\ Cardinality(res) >= Cardinality(Path)

\* _done_locked, over the values the sweep before it leaves.
DoneWith(pend, lsd, res, fld) ==
  /\ \A p \in Path : pend[p] = 0 /\ lsd[p] = "none"
  /\ Cardinality(res) + Cardinality(fld) >= Cardinality(Path)

Done == DoneWith(pending, leased, results, failed)

-----------------------------------------------------------------------------
Init ==
  /\ pending = [p \in Path |-> 1]
  /\ leased = [p \in Path |-> "none"]
  /\ attempts = [p \in Path |-> 0]
  /\ results = {}
  /\ failed = {}
  /\ task = [w \in Worker |-> NoPath]
  /\ returned = {}

\* A lease passes its deadline (nobody notices before the next sweep).
LeaseTimesOut(p) ==
  /\ leased[p] = "live"
  /\ leased' = [leased EXCEPT ![p] = "expired"]
  /\ UNCHANGED <<pending, attempts, results, failed, task, returned>>

\* The monitor thread's sweep; also the one a worker waiting in lease() runs.
Reclaim ==
  /\ Expired # {}
  /\ pending' = ReclaimedPending
  /\ leased' = ReclaimedLeased
  /\ failed' = ReclaimedFailed
  /\ UNCHANGED <<attempts, results, task, returned>>

\* A worker between tasks: lease() sweeps, then hands out a pending path.
Lease(w, p) ==
  /\ task[w] = NoPath
  /\ w \notin returned
  /\ ReclaimedPending[p] > 0
  /\ pending' = [ReclaimedPending EXCEPT ![p] = @ - 1]
  /\ leased' = [ReclaimedLeased EXCEPT ![p] = "live"]
  /\ attempts' = [attempts EXCEPT ![p] = @ + 1]
  /\ failed' = ReclaimedFailed
  /\ task' = [task EXCEPT ![w] = p]
  /\ UNCHANGED <<results, returned>>

\* lease() answers None when the generation is done: the thread returns.
Return(w) ==
  /\ task[w] = NoPath
  /\ w \notin returned
  /\ DoneWith(ReclaimedPending, ReclaimedLeased, results, ReclaimedFailed)
  /\ pending' = ReclaimedPending
  /\ leased' = ReclaimedLeased
  /\ failed' = ReclaimedFailed
  /\ returned' = returned \cup {w}
  /\ UNCHANGED <<attempts, results, task>>

\* complete(): the first result of a path counts; the path leaves the lease
\* table, the failed set and, once, the queue.  A second result is ignored
\* (and leaves the lease table alone).
Complete(w) ==
  /\ task[w] # NoPath
  /\ task' = [task EXCEPT ![w] = NoPath]
  /\ LET p == task[w] IN
       \/ /\ p \in results
          /\ UNCHANGED queue
       \/ /\ p \notin results
          /\ leased' = [leased EXCEPT ![p] = "none"]
          /\ failed' = failed \ {p}
          /\ pending' = [pending EXCEPT ![p] = IF @ > 0 THEN @ - 1 ELSE 0]
          /\ results' = results \cup {p}
          /\ UNCHANGED attempts
  /\ UNCHANGED returned

\* Nack with the limit it compares the attempts with, and the paths whose
\* nacks it ignores: the mutants of Nack instantiate it.
NackAgainst(w, limit, settled) ==
  /\ task[w] # NoPath
  /\ task' = [task EXCEPT ![w] = NoPath]
  /\ LET p == task[w] IN
       /\ leased' = [leased EXCEPT ![p] = "none"]
       /\ pending' = [pending EXCEPT ![p] =
                        IF p \notin settled /\ attempts[p] < limit THEN @ + 1 ELSE @]
       /\ failed' = IF p \notin settled /\ attempts[p] >= limit
                    THEN failed \cup {p} ELSE failed
  /\ UNCHANGED <<attempts, results, returned>>

\* Mutant of Nack: the limit compared with one more than max_attempts.
NackRetriesOnceMore(w) == NackAgainst(w, MaxAttempts + 1, results)

\* nack(): training raised.  The lease entry goes, whoever holds the lease by
\* now; without a result the path is queued again or given up on.
Nack(w) ==
  /\ task[w] # NoPath
  /\ task' = [task EXCEPT ![w] = NoPath]
  /\ LET p == task[w] IN
       /\ leased' = [leased EXCEPT ![p] = "none"]
       /\ \/ /\ p \in results
             /\ UNCHANGED <<pending, failed>>
          \/ /\ p \notin results
             /\ attempts[p] >= MaxAttempts
             /\ failed' = failed \cup {p}
             /\ UNCHANGED pending
          \/ /\ p \notin results
             /\ attempts[p] < MaxAttempts
             /\ pending' = [pending EXCEPT ![p] = @ + 1]
             /\ UNCHANGED failed
  /\ UNCHANGED <<attempts, results, returned>>

\* Preempt: the worker abandons its task without a word.
Preempt(w) ==
  /\ task[w] # NoPath
  /\ task' = [task EXCEPT ![w] = NoPath]
  /\ UNCHANGED <<pending, leased, attempts, results, failed, returned>>

\* run_generation joins the workers and the monitor, folds the results into
\* the outer step, and fit() opens the next generation with a new queue.
NextGeneration ==
  /\ returned = Worker
  /\ Done
  /\ pending' = [p \in Path |-> 1]
  /\ leased' = [p \in Path |-> "none"]
  /\ attempts' = [p \in Path |-> 0]
  /\ results' = {}
  /\ failed' = {}
  /\ task' = [w \in Worker |-> NoPath]
  /\ returned' = {}

Next ==
  \/ \E p \in Path : LeaseTimesOut(p)
  \/ Reclaim
  \/ \E w \in Worker, p \in Path : Lease(w, p)
  \/ \E w \in Worker : Return(w)
  \/ \E w \in Worker : Complete(w)
  \/ \E w \in Worker : Nack(w)
  \/ \E w \in Worker : Preempt(w)
  \/ NextGeneration

Spec == Init /\ [][Next]_vars

\* The threads are scheduled, time passes, and a training task ends one way
\* or another.
Fairness ==
  /\ WF_vars(Reclaim)
  /\ \A p \in Path : WF_vars(LeaseTimesOut(p))
  /\ \A w \in Worker :
       /\ WF_vars(\E p \in Path : Lease(w, p))
       /\ WF_vars(Return(w))
       /\ WF_vars(Complete(w) \/ Nack(w) \/ Preempt(w))
  /\ WF_vars(NextGeneration)

FairSpec == Spec /\ Fairness

-----------------------------------------------------------------------------
\* The types: what each structure of the queue may hold.
TypeOK ==
  /\ pending \in [Path -> Nat]
  /\ leased \in [Path -> {"none", "live", "expired"}]
  /\ attempts \in [Path -> Nat]
  /\ results \subseteq Path
  /\ failed \subseteq Path
  /\ task \in [Worker -> Path \cup {NoPath}]
  /\ returned \subseteq Worker

\* No interleaving of late acks, late nacks and reclaims loses a path: one
\* that is neither finished nor given up on is queued or leased, so some
\* worker will be handed it.  (If it were not, _done_locked would never hold
\* and every worker would wait in lease() for good.)
NoPathLost ==
  \A p \in Path :
    \/ p \in results \cup failed
    \/ pending[p] > 0
    \/ leased[p] # "none"

\* A path is never both finished and dropped, so run_generation's dropped set
\* and the contributions it folds are disjoint, although complete() and
\* nack() of two holders of the same path may arrive in any order.
DroppedHasNoResult == results \cap failed = {}

\* Only a path that used all its attempts is given up on.
DroppedOnlyWhenExhausted == \A p \in failed : attempts[p] >= MaxAttempts

\* Once the generation is reported done, no straggler can undo that: a worker
\* that saw "done" has returned and nobody would serve a path queued again.
DoneIsStable == [][Done /\ ~NextGeneration => Done']_vars

\* A path never gets more than 2 * MaxAttempts - 1 leases in one generation,
\* however many of its holders time out and then nack late: each lease is
\* answered by at most one reclaim and one nack.
AttemptsBounded == \A p \in Path : attempts[p] <= 2 * MaxAttempts - 1

\* Every generation ends, whatever fails: workers return and fit() moves on.
GenerationsEnd == []<>(returned = Worker)

\* The queue with its leases implements the ledger of open, done and dropped
\* paths.
Ledger == INSTANCE GenerationLedger WITH
  outcome <- [p \in Path |-> IF p \in results THEN "done"
                             ELSE IF p \in failed THEN "dropped" ELSE "open"]

ImplementsLedger == Ledger!Spec

=============================================================================
