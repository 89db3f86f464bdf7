---------------------------- MODULE HostProofs ----------------------------
(***************************************************************************)
(* Proofs about what runs on one host: the in-process task queue           *)
(* (Generation), for any finite set of paths, any set of worker threads    *)
(* and any attempt limit; the ranks of the synchronous trainer (Training), *)
(* for any topology, world size and number of rounds; and the hosts of the *)
(* data pipeline (Shards), for any source, router and number of workers.   *)
(*                                                                         *)
(* Each part has its own inductive invariant, stated where it is used.     *)
(***************************************************************************)
EXTENDS Generation, Hosts, FiniteSetTheorems, SequenceTheorems, WellFoundedInduction, TLAPS

-----------------------------------------------------------------------------
(* The in-process queue.  Its inductive invariant is the conjunction of the  *)
(* type invariant and the three safety invariants of Generation: none of     *)
(* them is inductive without the type of the lease table, and that a         *)
(* generation reported done stays done needs all of them.                    *)

Inv ==
  /\ TypeOK
  /\ NoPathLost
  /\ DroppedHasNoResult
  /\ DroppedOnlyWhenExhausted

-----------------------------------------------------------------------------
\* The values a reclaim sweep leaves have the types of the variables they
\* replace.
LEMMA ReclaimedTypes ==
  ASSUME TypeOK
  PROVE  /\ ReclaimedPending \in [Path -> Nat]
         /\ ReclaimedLeased \in [Path -> {"none", "live", "expired"}]
         /\ ReclaimedFailed \in SUBSET Path
BY DEF TypeOK, ReclaimedPending, ReclaimedLeased, ReclaimedFailed, Requeued,
       GivenUp, Expired

\* A sweep loses no path, fails none that has a result, and gives up on
\* exhausted ones only.
LEMMA ReclaimedInv ==
  ASSUME Inv
  PROVE  /\ \A p \in Path : \/ p \in results \cup ReclaimedFailed
                            \/ ReclaimedPending[p] > 0
                            \/ ReclaimedLeased[p] # "none"
         /\ results \cap ReclaimedFailed = {}
         /\ \A p \in ReclaimedFailed : attempts[p] >= MaxAttempts
<1>1. ASSUME NEW p \in Path
      PROVE  \/ p \in results \cup ReclaimedFailed
             \/ ReclaimedPending[p] > 0
             \/ ReclaimedLeased[p] # "none"
  <2>1. CASE p \in Requeued
    BY <2>1, ConstantAssumption
    DEF Inv, TypeOK, ReclaimedPending
  <2>2. CASE p \in Expired \ Requeued
    BY <2>2, ConstantAssumption
    DEF Inv, TypeOK, ReclaimedFailed, Requeued, GivenUp, Expired
  <2>3. CASE p \notin Expired
    BY <2>3
    DEF Inv, TypeOK, NoPathLost, ReclaimedPending, ReclaimedLeased,
        ReclaimedFailed, Requeued, Expired
  <2>. QED  BY <2>1, <2>2, <2>3
<1>2. results \cap ReclaimedFailed = {}
  BY DEF Inv, DroppedHasNoResult, ReclaimedFailed, GivenUp
<1>3. \A p \in ReclaimedFailed : attempts[p] >= MaxAttempts
  BY DEF Inv, DroppedOnlyWhenExhausted, ReclaimedFailed, GivenUp
<1>. QED  BY <1>1, <1>2, <1>3

\* The invariant holds of a new queue.
LEMMA InitInv == Init => Inv
BY DEF Init, Inv, TypeOK, NoPathLost, DroppedHasNoResult, DroppedOnlyWhenExhausted

\* Every step keeps the invariant.
LEMMA NextInv == Inv /\ [Next]_vars => Inv'
<1> SUFFICES ASSUME Inv, [Next]_vars
             PROVE  Inv'
  OBVIOUS
<1> USE ConstantAssumption DEF Inv, TypeOK
<1>1. ASSUME NEW p \in Path, LeaseTimesOut(p)
      PROVE  Inv'
  BY <1>1
  DEF LeaseTimesOut, NoPathLost, DroppedHasNoResult, DroppedOnlyWhenExhausted
<1>2. CASE Reclaim
  BY <1>2, ReclaimedTypes, ReclaimedInv
  DEF Reclaim, NoPathLost, DroppedHasNoResult, DroppedOnlyWhenExhausted
<1>3. ASSUME NEW w \in Worker, NEW p \in Path, Lease(w, p)
      PROVE  Inv'
  <2>1. TypeOK'
    BY <1>3, ReclaimedTypes DEF Lease
  <2>2. NoPathLost'
    BY <1>3, ReclaimedTypes, ReclaimedInv DEF Lease, NoPathLost
  <2>3. DroppedHasNoResult'
    BY <1>3, ReclaimedInv DEF Lease, DroppedHasNoResult
  <2>4. DroppedOnlyWhenExhausted'
    BY <1>3, ReclaimedTypes, ReclaimedInv DEF Lease, DroppedOnlyWhenExhausted
  <2>. QED  BY <2>1, <2>2, <2>3, <2>4
<1>4. ASSUME NEW w \in Worker, Return(w)
      PROVE  Inv'
  BY <1>4, ReclaimedTypes, ReclaimedInv
  DEF Return, NoPathLost, DroppedHasNoResult, DroppedOnlyWhenExhausted
<1>5. ASSUME NEW w \in Worker, Complete(w)
      PROVE  Inv'
  <2>1. task[w] \in Path
    BY <1>5 DEF Complete
  <2>2. CASE task[w] \in results
    BY <1>5, <2>1, <2>2
    DEF Complete, queue, NoPathLost, DroppedHasNoResult, DroppedOnlyWhenExhausted
  <2>3. CASE task[w] \notin results
    <3>1. TypeOK'
      BY <1>5, <2>1, <2>3 DEF Complete
    <3>2. NoPathLost'
      BY <1>5, <2>1, <2>3 DEF Complete, NoPathLost
    <3>3. DroppedHasNoResult' /\ DroppedOnlyWhenExhausted'
      BY <1>5, <2>1, <2>3
      DEF Complete, DroppedHasNoResult, DroppedOnlyWhenExhausted
    <3>. QED  BY <3>1, <3>2, <3>3
  <2>. QED  BY <2>2, <2>3
<1>6. ASSUME NEW w \in Worker, Nack(w)
      PROVE  Inv'
  <2>1. task[w] \in Path
    BY <1>6 DEF Nack
  <2>2. TypeOK'
    BY <1>6, <2>1 DEF Nack
  <2>3. NoPathLost'
    BY <1>6, <2>1 DEF Nack, NoPathLost
  <2>4. DroppedHasNoResult' /\ DroppedOnlyWhenExhausted'
    BY <1>6, <2>1 DEF Nack, DroppedHasNoResult, DroppedOnlyWhenExhausted
  <2>. QED  BY <2>2, <2>3, <2>4
<1>7. ASSUME NEW w \in Worker, Preempt(w)
      PROVE  Inv'
  BY <1>7
  DEF Preempt, NoPathLost, DroppedHasNoResult, DroppedOnlyWhenExhausted
<1>8. CASE NextGeneration
  BY <1>8
  DEF NextGeneration, NoPathLost, DroppedHasNoResult, DroppedOnlyWhenExhausted
<1>9. CASE UNCHANGED vars
  BY <1>9 DEF vars, NoPathLost, DroppedHasNoResult, DroppedOnlyWhenExhausted
<1>. QED
  BY <1>1, <1>2, <1>3, <1>4, <1>5, <1>6, <1>7, <1>8, <1>9 DEF Next

\* The queue's invariant holds in every reachable state.
THEOREM InvHolds == Spec => []Inv
BY InitInv, NextInv, PTL DEF Spec

\* The types.
THEOREM TypeCorrect == Spec => []TypeOK
BY InvHolds, PTL DEF Inv

\* Whatever the order of late acks, late nacks and reclaims, a path that is
\* neither finished nor given up on can still be leased (_Generation).
THEOREM NeverLosesAPath == Spec => []NoPathLost
BY InvHolds, PTL DEF Inv

\* run_generation's dropped set never names a path whose contribution it
\* folds.
THEOREM DroppedAndDoneDisjoint == Spec => []DroppedHasNoResult
BY InvHolds, PTL DEF Inv

\* A path is given up on only when max_attempts leases failed, whichever of
\* nack and reclaim counted the last one.
THEOREM GivesUpOnlyExhausted == Spec => []DroppedOnlyWhenExhausted
BY InvHolds, PTL DEF Inv

-----------------------------------------------------------------------------
\* With nothing queued and nothing leased, every path is settled.
LEMMA DoneSettlesAll ==
  ASSUME Inv, Done
  PROVE  results \cup failed = Path
BY DEF Inv, TypeOK, NoPathLost, Done, DoneWith

\* The count _done_locked compares is reached once every path is settled.
LEMMA SettledCount ==
  ASSUME NEW R \in SUBSET Path, NEW F \in SUBSET Path, Path = R \cup F
  PROVE  Cardinality(R) + Cardinality(F) >= Cardinality(Path)
<1>1. IsFiniteSet(R) /\ IsFiniteSet(F)
  BY ConstantAssumption, FS_Subset
<1>2. /\ Cardinality(R \cup F)
           = Cardinality(R) + Cardinality(F) - Cardinality(R \cap F)
      /\ Cardinality(R \cap F) \in Nat
  BY <1>1, FS_Union, FS_Intersection, FS_CardinalityType
<1>3. Cardinality(R) \in Nat /\ Cardinality(F) \in Nat
  BY <1>1, FS_CardinalityType
<1>. QED  BY <1>2, <1>3

\* What keeps a generation done: the tables stay empty and no path becomes
\* unsettled.
LEMMA DoneStep ==
  ASSUME Inv, Done, TypeOK', pending' = pending, leased' = leased,
         results \subseteq results', results \cup failed \subseteq results' \cup failed'
  PROVE  Done'
<1>1. Path = results' \cup failed'
  BY DoneSettlesAll DEF TypeOK
<1>2. Cardinality(results') + Cardinality(failed') >= Cardinality(Path)
  BY <1>1, SettledCount DEF TypeOK
<1>. QED  BY <1>2 DEF Done, DoneWith

\* Every step but the opening of the next generation keeps Done.
LEMMA DoneStays == Inv /\ [Next]_vars /\ Done /\ ~NextGeneration => Done'
<1> SUFFICES ASSUME Inv, [Next]_vars, Done, ~NextGeneration
             PROVE  Done'
  OBVIOUS
<1>1. TypeOK'
  BY NextInv DEF Inv
<1>2. \A p \in Path : pending[p] = 0 /\ leased[p] = "none"
  BY DEF Done, DoneWith
<1>3. Expired = {} /\ Requeued = {} /\ GivenUp = {}
  BY <1>2 DEF Expired, Requeued, GivenUp
<1>4. /\ ReclaimedPending = pending
      /\ ReclaimedLeased = leased
      /\ ReclaimedFailed = failed
  BY <1>3 DEF ReclaimedPending, ReclaimedLeased, ReclaimedFailed, Inv, TypeOK
<1>5. ASSUME NEW p \in Path, LeaseTimesOut(p)
      PROVE  Done'
  BY <1>2, <1>5 DEF LeaseTimesOut
<1>6. CASE Reclaim
  BY <1>3, <1>6 DEF Reclaim
<1>7. ASSUME NEW w \in Worker, NEW p \in Path, Lease(w, p)
      PROVE  Done'
  BY <1>2, <1>4, <1>7 DEF Lease
<1>8. ASSUME NEW w \in Worker, Return(w)
      PROVE  Done'
  BY <1>4, <1>8 DEF Return, Done
<1>9. ASSUME NEW w \in Worker, Complete(w)
      PROVE  Done'
  <2>1. task[w] \in Path
    BY <1>9 DEF Complete, Inv, TypeOK
  <2>2. CASE task[w] \in results
    BY <1>9, <2>2 DEF Complete, queue, Done
  <2>3. CASE task[w] \notin results
    <3>1. pending' = pending /\ leased' = leased
      BY <1>2, <1>9, <2>1, <2>3 DEF Complete, Inv, TypeOK
    <3>2. results \cup failed \subseteq results' \cup failed'
      BY <1>9, <2>3 DEF Complete
    <3>. QED  BY <1>1, <1>9, <2>3, <3>1, <3>2, DoneStep DEF Complete
  <2>. QED  BY <2>2, <2>3
<1>10. ASSUME NEW w \in Worker, Nack(w)
       PROVE  Done'
  <2>1. task[w] \in Path
    BY <1>10 DEF Nack, Inv, TypeOK
  <2>2. leased' = leased
    BY <1>2, <1>10, <2>1 DEF Nack, Inv, TypeOK
  <2>3. task[w] \in results \/ attempts[task[w]] >= MaxAttempts
    BY <2>1, DoneSettlesAll DEF Inv, DroppedOnlyWhenExhausted
  <2>4. pending' = pending /\ failed \subseteq failed' /\ results' = results
    BY <1>10, <2>1, <2>3, ConstantAssumption DEF Nack, Inv, TypeOK
  <2>. QED  BY <1>1, <2>2, <2>4, DoneStep
<1>11. ASSUME NEW w \in Worker, Preempt(w)
       PROVE  Done'
  BY <1>11 DEF Preempt, Done
<1>12. CASE UNCHANGED vars
  BY <1>12 DEF vars, Done
<1>. QED
  BY <1>5, <1>6, <1>7, <1>8, <1>9, <1>10, <1>11, <1>12 DEF Next

\* Once _done_locked holds, no straggling complete, nack or reclaim undoes it
\* before run_generation closes the generation.
THEOREM DoneNeverUndone == Spec => DoneIsStable
<1>1. Inv /\ [Next]_vars => [Done /\ ~NextGeneration => Done']_vars
  BY DoneStays
<1>. QED  BY <1>1, InvHolds, PTL DEF Spec, DoneIsStable

-----------------------------------------------------------------------------
\* The outcome the refinement mapping gives a path.
Outcome == [p \in Path |-> IF p \in results THEN "done"
                           ELSE IF p \in failed THEN "dropped" ELSE "open"]

\* A step that gives up on the unfinished paths of S, and changes nothing else
\* about the outcomes, is a step of the ledger.
LEMMA LedgerGiveUp ==
  ASSUME Inv, NEW S \in SUBSET Path, S \cap results = {}, results' = results,
         failed' = failed \cup S
  PROVE  [Ledger!Next]_Outcome
<1> DEFINE D == S \ failed
<1>1. D \in SUBSET Path
  OBVIOUS
<1>2. \A p \in D : Outcome[p] = "open"
  BY DEF Outcome
<1>3. Outcome' = [p \in Path |-> IF p \in D THEN "dropped" ELSE Outcome[p]]
  BY DEF Outcome
<1> HIDE DEF D
<1>4. Ledger!Next
  BY <1>1, <1>2, <1>3 DEF Ledger!Next, Ledger!GiveUp, Outcome
<1>. QED  BY <1>4

\* Every step of the queue is a step of the ledger, or none.
LEMMA NextRefines == Inv /\ [Next]_vars => [Ledger!Next]_Outcome
<1> SUFFICES ASSUME Inv, [Next]_vars
             PROVE  [Ledger!Next]_Outcome
  OBVIOUS
<1> USE DEF Inv, TypeOK
<1>1. ASSUME NEW p \in Path, LeaseTimesOut(p)
      PROVE  [Ledger!Next]_Outcome
  BY <1>1 DEF LeaseTimesOut, Outcome
<1>2. GivenUp \in SUBSET Path /\ GivenUp \cap results = {}
  BY DEF GivenUp, Expired
<1>3. CASE Reclaim
  BY <1>2, <1>3, LedgerGiveUp DEF Reclaim, ReclaimedFailed
<1>4. ASSUME NEW w \in Worker, NEW p \in Path, Lease(w, p)
      PROVE  [Ledger!Next]_Outcome
  BY <1>2, <1>4, LedgerGiveUp DEF Lease, ReclaimedFailed
<1>5. ASSUME NEW w \in Worker, Return(w)
      PROVE  [Ledger!Next]_Outcome
  BY <1>2, <1>5, LedgerGiveUp DEF Return, ReclaimedFailed
<1>6. ASSUME NEW w \in Worker, Complete(w)
      PROVE  [Ledger!Next]_Outcome
  <2>1. task[w] \in Path
    BY <1>6 DEF Complete
  <2>2. CASE task[w] \in results
    BY <1>6, <2>2 DEF Complete, queue, Outcome
  <2>3. CASE task[w] \notin results
    <3>1. Outcome[task[w]] \in {"open", "dropped"}
      BY <2>1, <2>3 DEF Outcome
    <3>2. results' = results \cup {task[w]} /\ failed' = failed \ {task[w]}
      BY <1>6, <2>3 DEF Complete
    <3>3. Outcome' = [Outcome EXCEPT ![task[w]] = "done"]
      BY <2>1, <3>2 DEF Outcome
    <3>. QED
      BY <2>1, <3>1, <3>3 DEF Ledger!Next, Ledger!Finish, Outcome
  <2>. QED  BY <2>2, <2>3
<1>7. ASSUME NEW w \in Worker, Nack(w)
      PROVE  [Ledger!Next]_Outcome
  <2>1. task[w] \in Path /\ results' = results
    BY <1>7 DEF Nack
  <2>2. CASE failed' = failed
    BY <2>1, <2>2 DEF Outcome
  <2>3. CASE task[w] \notin results /\ failed' = failed \cup {task[w]}
    <3>1. {task[w]} \in SUBSET Path /\ {task[w]} \cap results = {}
      BY <2>1, <2>3
    <3>. QED  BY <2>1, <2>3, <3>1, LedgerGiveUp
  <2>. QED  BY <1>7, <2>2, <2>3 DEF Nack
<1>8. ASSUME NEW w \in Worker, Preempt(w)
      PROVE  [Ledger!Next]_Outcome
  BY <1>8 DEF Preempt, Outcome
<1>9. CASE NextGeneration
  <2>1. \A p \in Path : Outcome[p] # "open"
    BY <1>9, DoneSettlesAll DEF NextGeneration, Outcome
  <2>2. Outcome' = [p \in Path |-> "open"]
    BY <1>9 DEF NextGeneration, Outcome
  <2>. QED  BY <2>1, <2>2 DEF Ledger!Next, Ledger!NextGeneration, Outcome
<1>10. CASE UNCHANGED vars
  BY <1>10 DEF vars, Outcome
<1>. QED
  BY <1>1, <1>3, <1>4, <1>5, <1>6, <1>7, <1>8, <1>9, <1>10 DEF Next

\* The queue implements the ledger: a finished path stays finished, only an
\* unfinished one is dropped, and a generation is closed, and its outer step
\* taken, only when every path is settled.
THEOREM RefinesLedger == Spec => ImplementsLedger
<1>1. Init => Ledger!Init
  BY DEF Init, Ledger!Init
<1>2. Inv /\ [Next]_vars => [Ledger!Next]_Outcome
  BY NextRefines
<1>. QED
  BY <1>1, <1>2, InvHolds, PTL DEF Spec, ImplementsLedger, Ledger!Spec, Outcome

-----------------------------------------------------------------------------
\* How often a path can be leased.

Holders(p) == {w \in Worker : task[w] = p}
Entry(p) == IF leased[p] = "none" THEN 0 ELSE 1

\* Below the limit, what may still queue p (its places in the queue, its
\* holders, who may nack, and its lease, which may be reclaimed) is at most one
\* more than its leases so far; at the limit nothing queues it any more, and
\* only its places in the queue are left to lease.
BoundedAt(p) ==
  IF attempts[p] < MaxAttempts
  THEN pending[p] + Cardinality(Holders(p)) + Entry(p) <= attempts[p] + 1
  ELSE pending[p] + attempts[p] <= 2 * MaxAttempts - 1

Bounded == \A p \in Path : BoundedAt(p)

\* A path has finitely many holders.
LEMMA HoldersFinite ==
  \A p : IsFiniteSet(Holders(p)) /\ Cardinality(Holders(p)) \in Nat
<1> SUFFICES ASSUME NEW p
             PROVE  IsFiniteSet(Holders(p)) /\ Cardinality(Holders(p)) \in Nat
  OBVIOUS
<1>1. Holders(p) \in SUBSET Worker
  BY DEF Holders
<1>. QED  BY <1>1, ConstantAssumption, FS_Subset, FS_CardinalityType

\* A worker that ends its task holds it no more; the other paths keep their
\* holders.
LEMMA Released ==
  ASSUME TypeOK, NEW w \in Worker, task[w] # NoPath, task' = [task EXCEPT ![w] = NoPath],
         NEW p \in Path
  PROVE  Cardinality(Holders(p)') = Cardinality(Holders(p)) - IF p = task[w] THEN 1 ELSE 0
<1>1. task[w] \in Path /\ NoPath \notin Path
  BY ConstantAssumption DEF TypeOK
<1>2. CASE p = task[w]
  <2>1. Holders(p)' = Holders(p) \ {w} /\ w \in Holders(p)
    BY <1>1, <1>2 DEF Holders, TypeOK
  <2>2. Cardinality(Holders(p) \ {w}) = Cardinality(Holders(p)) - 1
    BY <2>1, HoldersFinite, FS_RemoveElement
  <2>. QED  BY <1>2, <2>1, <2>2
<1>3. CASE p # task[w]
  <2>1. Holders(p)' = Holders(p)
    BY <1>1, <1>3 DEF Holders, TypeOK
  <2>. QED  BY <1>3, <2>1, HoldersFinite
<1>. QED  BY <1>2, <1>3

\* A worker ends its task, and may queue it again, below the limit.
LEMMA EndsBounded ==
  ASSUME TypeOK, Bounded, NEW w \in Worker, task[w] # NoPath,
         task' = [task EXCEPT ![w] = NoPath], attempts' = attempts,
         \A p \in Path : leased'[p] = "none" \/ leased'[p] = leased[p],
         \A p \in Path :
           /\ pending'[p] \in Nat
           /\ \/ pending'[p] <= pending[p]
              \/ p = task[w] /\ pending'[p] = pending[p] + 1 /\ attempts[p] < MaxAttempts
  PROVE  Bounded'
<1> SUFFICES ASSUME NEW p \in Path PROVE BoundedAt(p)'
  BY DEF Bounded
<1>1. /\ pending[p] \in Nat /\ attempts[p] \in Nat /\ Cardinality(Holders(p)) \in Nat
      /\ BoundedAt(p) /\ MaxAttempts \in Nat
  BY HoldersFinite, ConstantAssumption DEF TypeOK, Bounded
<1>2. Cardinality(Holders(p)') = Cardinality(Holders(p)) - IF p = task[w] THEN 1 ELSE 0
  BY Released
<1>3. Entry(p)' \in {0, 1} /\ Entry(p) \in {0, 1} /\ Entry(p)' <= Entry(p)
  BY DEF Entry
<1>4. CASE p = task[w]
  <2>1. Cardinality(Holders(p)') = Cardinality(Holders(p)) - 1
    BY <1>2, <1>4
  <2>. QED  BY <1>1, <1>3, <2>1 DEF BoundedAt
<1>5. CASE p # task[w]
  <2>1. Cardinality(Holders(p)') = Cardinality(Holders(p)) /\ pending'[p] <= pending[p]
    BY <1>1, <1>2, <1>5
  <2>. QED  BY <1>1, <1>3, <2>1 DEF BoundedAt
<1>. QED  BY <1>4, <1>5

\* Every step of the queue keeps the bound on what may still queue a path.
LEMMA NextBounded == TypeOK /\ Bounded /\ [Next]_vars => Bounded'
<1> SUFFICES ASSUME TypeOK, Bounded, [Next]_vars
             PROVE  Bounded'
  OBVIOUS
<1>. USE ConstantAssumption DEF TypeOK
<1>1. \A p \in Path : /\ pending[p] \in Nat /\ attempts[p] \in Nat
                      /\ Cardinality(Holders(p)) \in Nat /\ Entry(p) \in {0, 1} /\ BoundedAt(p)
  BY HoldersFinite DEF Entry, Bounded
\* A sweep queues a path for the lease it deletes, below the limit only.
<1>2. \A p \in Path :
        /\ ReclaimedPending[p] \in Nat
        /\ \/ /\ ReclaimedPending[p] = pending[p]
              /\ (ReclaimedLeased[p] = "none" \/ ReclaimedLeased[p] = leased[p])
           \/ /\ ReclaimedPending[p] = pending[p] + 1 /\ attempts[p] < MaxAttempts
              /\ Entry(p) = 1 /\ ReclaimedLeased[p] = "none"
  BY DEF ReclaimedPending, ReclaimedLeased, Requeued, Expired, Entry
<1>3. ASSUME pending' = ReclaimedPending, leased' = ReclaimedLeased, UNCHANGED <<attempts, task>>
      PROVE  Bounded'
  <2>1. ASSUME NEW p \in Path PROVE BoundedAt(p)'
    <3>1. Holders(p)' = Holders(p)
      BY <1>3 DEF Holders
    <3>. QED  BY <1>1, <1>2, <1>3, <3>1 DEF BoundedAt, Entry
  <2>. QED  BY <2>1 DEF Bounded
<1>4. ASSUME NEW q \in Path, LeaseTimesOut(q)
      PROVE  Bounded'
  <2>1. \A p \in Path : /\ Holders(p)' = Holders(p) /\ Entry(p)' = Entry(p)
                        /\ pending'[p] = pending[p] /\ attempts'[p] = attempts[p]
    BY <1>4 DEF LeaseTimesOut, Holders, Entry
  <2>. QED  BY <1>1, <2>1 DEF Bounded, BoundedAt
<1>5. CASE Reclaim
  BY <1>3, <1>5 DEF Reclaim
<1>6. ASSUME NEW w \in Worker, Return(w)
      PROVE  Bounded'
  BY <1>3, <1>6 DEF Return
<1>7. ASSUME NEW w \in Worker, NEW q \in Path, Lease(w, q)
      PROVE  Bounded'
  <2>1. /\ ReclaimedPending \in [Path -> Nat] /\ ReclaimedPending[q] > 0
        /\ pending' = [ReclaimedPending EXCEPT ![q] = ReclaimedPending[q] - 1]
        /\ leased' = [ReclaimedLeased EXCEPT ![q] = "live"]
        /\ attempts' = [attempts EXCEPT ![q] = attempts[q] + 1]
        /\ task[w] = NoPath /\ task' = [task EXCEPT ![w] = q]
    BY <1>7, ReclaimedTypes DEF Lease
  <2>2. Holders(q)' = Holders(q) \cup {w} /\ w \notin Holders(q)
    BY <2>1 DEF Holders
  <2>3. Cardinality(Holders(q)') = Cardinality(Holders(q)) + 1
    BY <2>2, HoldersFinite, FS_AddElement
  <2>4. ASSUME NEW p \in Path \ {q} PROVE BoundedAt(p)'
    <3>1. Holders(p)' = Holders(p)
      BY <2>1 DEF Holders
    <3>2. pending'[p] = ReclaimedPending[p] /\ leased'[p] = ReclaimedLeased[p]
          /\ attempts'[p] = attempts[p]
      BY <2>1, ReclaimedTypes
    <3>. QED  BY <1>1, <1>2, <3>1, <3>2 DEF BoundedAt, Entry
  <2>5. BoundedAt(q)'
    <3>1. pending'[q] = ReclaimedPending[q] - 1 /\ attempts'[q] = attempts[q] + 1 /\ Entry(q)' = 1
      BY <2>1, ReclaimedTypes DEF Entry
    <3>2. ReclaimedPending[q] + Cardinality(Holders(q)) <= attempts[q] + 1 \/ attempts[q] >= MaxAttempts
      BY <1>1, <1>2 DEF BoundedAt
    <3>3. attempts[q] >= MaxAttempts => ReclaimedPending[q] = pending[q]
      BY <1>1, <1>2
    <3>. QED  BY <1>1, <1>2, <2>1, <2>3, <3>1, <3>2, <3>3 DEF BoundedAt
  <2>. QED  BY <2>4, <2>5 DEF Bounded
<1>8. ASSUME NEW w \in Worker, Complete(w)
      PROVE  Bounded'
  <2>1. /\ task[w] \in Path /\ task[w] # NoPath /\ task' = [task EXCEPT ![w] = NoPath]
        /\ attempts' = attempts
    BY <1>8 DEF Complete, queue
  <2>2. \A p \in Path : leased'[p] = "none" \/ leased'[p] = leased[p]
    BY <1>8, <2>1 DEF Complete, queue
  <2>3. \A p \in Path : pending'[p] \in Nat /\ pending'[p] <= pending[p]
    <3>1. CASE task[w] \in results
      BY <1>8, <3>1 DEF Complete, queue
    <3>2. CASE task[w] \notin results
      BY <1>8, <2>1, <3>2 DEF Complete
    <3>. QED  BY <3>1, <3>2
  <2>. QED  BY <2>1, <2>2, <2>3, EndsBounded
<1>9. ASSUME NEW w \in Worker, Nack(w)
      PROVE  Bounded'
  <2>1. /\ task[w] \in Path /\ task[w] # NoPath /\ task' = [task EXCEPT ![w] = NoPath]
        /\ attempts' = attempts
    BY <1>9 DEF Nack
  <2>2. \A p \in Path : leased'[p] = "none" \/ leased'[p] = leased[p]
    BY <1>9, <2>1 DEF Nack
  <2>3. \A p \in Path :
          /\ pending'[p] \in Nat
          /\ \/ pending'[p] <= pending[p]
             \/ p = task[w] /\ pending'[p] = pending[p] + 1 /\ attempts[p] < MaxAttempts
    <3>1. \/ pending' = pending
          \/ /\ attempts[task[w]] < MaxAttempts
             /\ pending' = [pending EXCEPT ![task[w]] = pending[task[w]] + 1]
      BY <1>9 DEF Nack
    <3>. QED  BY <2>1, <3>1
  <2>. QED  BY <2>1, <2>2, <2>3, EndsBounded
<1>10. ASSUME NEW w \in Worker, Preempt(w)
       PROVE  Bounded'
  <2>1. /\ task[w] \in Path /\ task[w] # NoPath /\ task' = [task EXCEPT ![w] = NoPath]
        /\ UNCHANGED <<attempts, leased, pending>>
    BY <1>10 DEF Preempt
  <2>2. \A p \in Path : pending'[p] \in Nat /\ pending'[p] <= pending[p]
    BY <2>1
  <2>. QED  BY <2>1, <2>2, EndsBounded
<1>11. CASE NextGeneration
  <2>1. ASSUME NEW p \in Path PROVE BoundedAt(p)'
    <3>1. /\ pending'[p] = 1 /\ attempts'[p] = 0 /\ Entry(p)' = 0 /\ Holders(p)' = {}
      BY <1>11 DEF NextGeneration, Entry, Holders
    <3>. QED  BY <3>1, FS_EmptySet DEF BoundedAt
  <2>. QED  BY <2>1 DEF Bounded
<1>12. CASE UNCHANGED vars
  BY <1>12 DEF vars, Bounded, BoundedAt, Holders, Entry
<1>. QED
  BY <1>4, <1>5, <1>6, <1>7, <1>8, <1>9, <1>10, <1>11, <1>12 DEF Next

\* No path is leased more than 2 * max_attempts - 1 times in a generation (and
\* not max_attempts times: a lease may be reclaimed and its holder still nack;
\* _reclaim_locked, nack).
THEOREM LeasesAreBounded == Spec => []AttemptsBounded
<1>1. Init => Bounded
  <2> SUFFICES ASSUME Init, NEW p \in Path PROVE BoundedAt(p)
    BY DEF Bounded
  <2>1. pending[p] = 1 /\ attempts[p] = 0 /\ Entry(p) = 0 /\ Holders(p) = {}
    BY ConstantAssumption DEF Init, Entry, Holders
  <2>. QED  BY <2>1, ConstantAssumption, FS_EmptySet DEF BoundedAt
<1>2. TypeOK /\ Bounded => AttemptsBounded
  BY ConstantAssumption DEF TypeOK, Bounded, BoundedAt, AttemptsBounded
<1>. QED  BY <1>1, <1>2, NextBounded, TypeCorrect, PTL DEF Spec
-----------------------------------------------------------------------------
(* The synchronous ranks.  They are in different rounds at any moment: a rank *)
(* that has made its outer step has counted it.  What holds of all of them is  *)
(* that there is one round the others are in.                                  *)

\* Where a rank stands: before its first round, in a round, past its outer step.
InRound(r) == pc[r] \in {"train", "reduce", "outer"}
AfterStep(r) == pc[r] \in {"save", "meta", "barrier"}
Starting(r) == pc[r] \in {"build", "make", "load"}

Stages == {"down", "build", "make", "load", "train", "reduce", "outer", "save", "meta", "barrier",
           "gather", "done"}

\* The files of a directory are of its round.
Files ==
  /\ DOMAIN dirs = 1 .. Rounds
  /\ \A g \in 1 .. Rounds : \A r \in DOMAIN dirs[g].files : dirs[g].files[r].round = g

\* The round that ranks are in that have not made their outer step in it.
InStep(b) ==
  \A r \in Rank : /\ Starting(r) => b = source
                  /\ InRound(r) => round[r] = b /\ b < Rounds
                  /\ AfterStep(r) => round[r] = b + 1 /\ b < Rounds

Rounding ==
  /\ pc \in [Rank -> Stages] /\ DOMAIN round = Rank
  /\ source \in 0 .. Rounds
  /\ \A r \in Rank : /\ pc[r] = "down" \/ Starting(r) => round[r] = 0
                     /\ pc[r] = "load" => source # 0
  /\ \E b \in 0 .. Rounds : InStep(b)
  /\ Files

\* All ranks are down.
LEMMA InitRounding == JobInit => Rounding
<1>. SUFFICES ASSUME JobInit PROVE Rounding
  OBVIOUS
<1>1. Rounds \in Nat
  BY TrainingAssumption
<1>2. InStep(0)
  BY DEF JobInit, InStep, Starting, InRound, AfterStep
<1>. QED
  BY <1>1, <1>2 DEF JobInit, Rounding, Files, NoFiles, Stages, Starting

\* A rank that moves on within its round keeps the rounds together.
LEMMA MovesOn ==
  ASSUME Rounding, UNCHANGED <<source, round>>, Files', pc' \in [Rank -> Stages],
         \A q \in Rank : \/ pc'[q] = pc[q]
                         \/ InRound(q) /\ InRound(q)'
                         \/ AfterStep(q) /\ AfterStep(q)'
                         \/ pc'[q] \in {"gather", "done"}
  PROVE  Rounding'
<1>. USE DEF Starting, InRound, AfterStep
<1>1. PICK b \in 0 .. Rounds : InStep(b)
  BY DEF Rounding
<1>2. (InStep(b))'
  BY <1>1 DEF InStep
<1>. QED  BY <1>1, <1>2 DEF Rounding

\* A launch starts a new common round, its source; a barrier moves it on by one.
LEMMA NextRounding == Rounding /\ [JobNext]_jobVars => Rounding'
<1>. SUFFICES ASSUME Rounding, [JobNext]_jobVars PROVE Rounding'
  OBVIOUS
<1>. USE DEF Stages, Starting, InRound, AfterStep, InStep
<1>0. /\ pc \in [Rank -> Stages] /\ DOMAIN round = Rank /\ source \in 0 .. Rounds /\ Files
      /\ \A r \in Rank : /\ pc[r] = "down" \/ Starting(r) => round[r] = 0
                         /\ pc[r] = "load" => source # 0
  BY DEF Rounding
<1>1. Rounds \in Nat \ {0} /\ World \in Nat \ {0} /\ 0 \in Rank
  BY TrainingAssumption DEF Rank
<1>2. PICK b \in 0 .. Rounds : InStep(b)
  BY DEF Rounding
<1>3. ASSUME NEW g \in 0 .. Rounds, NEW m, Launch(g, m)
      PROVE  Rounding'
  <2>1. /\ pc' = [r \in Rank |-> "build"] /\ UNCHANGED <<dirs, round>> /\ source' = g
        /\ \A r \in Rank : pc[r] = "down"
    BY <1>3 DEF Launch, Up, engine
  <2>2. \A r \in Rank : round[r] = 0
    BY <2>1, <1>0 DEF Rounding
  <2>3. (InStep(g))' /\ Files'
    BY <2>1, <1>0 DEF Files
  <2>. QED  BY <1>0, <2>1, <2>2, <2>3 DEF Rounding
<1>4. ASSUME UNCHANGED <<source, dirs>>, pc' = [r \in Rank |-> "down"], Wiped
      PROVE  Rounding'
  <2>1. \A r \in Rank : pc'[r] = "down"
    BY <1>4
  <2>2. (InStep(b))'
    BY <2>1
  <2>3. Files'
    BY <1>4 DEF Rounding, Files
  <2>. QED  BY <1>2, <1>4, <2>1, <2>2, <2>3 DEF Rounding, Wiped
<1>5. CASE Kill
  BY <1>4, <1>5 DEF Kill
<1>6. ASSUME NEW key, BuildGroup(key)
      PROVE  Rounding'
  <2>1. \A r \in Rank : pc[r] = "build" /\ pc'[r] \in {"build", "make"} /\ round'[r] = round[r]
    BY <1>6 DEF BuildGroup, Meet, engine
  <2>. QED  BY <1>1, <1>2, <1>6, <2>1 DEF Rounding, Files, BuildGroup, engine, Meet
<1>7. ASSUME NEW r \in Rank, MakeEngine(r)
      PROVE  Rounding'
  <2>1. b = source /\ round[r] = 0
    BY <1>2, <1>7 DEF MakeEngine, Rounding
  <2>. QED  BY <1>1, <1>2, <1>7, <2>1 DEF MakeEngine, Rounding, Files
<1>8. ASSUME NEW r \in Rank, LoadCheckpoint(r)
      PROVE  Rounding'
  <2>1. b = source /\ source # 0 /\ dirs[source].files[r].round = source
    BY <1>2, <1>8 DEF LoadCheckpoint, Rounding, Files
  <2>2. round' = [round EXCEPT ![r] = source] /\ pc' = [pc EXCEPT ![r] = AfterRound(source)]
    BY <1>8, <2>1 DEF LoadCheckpoint
  <2>. QED  BY <1>1, <1>2, <1>8, <2>1, <2>2 DEF LoadCheckpoint, Rounding, Files, AfterRound
<1>9. ASSUME NEW r \in Rank, LoadFails(r)
      PROVE  Rounding'
  BY <1>4, <1>9 DEF LoadFails
<1>10. ASSUME NEW r \in Rank, TrainPaths(r)
       PROVE  Rounding'
  <2>1. /\ InRound(r) /\ pc'[r] \in {"outer", "reduce"} /\ \A q \in Rank \ {r} : pc'[q] = pc[q]
        /\ pc' \in [Rank -> Stages] /\ UNCHANGED <<source, round, dirs>>
    BY <1>0, <1>10 DEF TrainPaths
  <2>2. Files'
    BY <1>0, <2>1 DEF Files
  <2>. QED  BY <2>1, <2>2, MovesOn
<1>11. ASSUME NEW key, Reduce(key)
       PROVE  Rounding'
  <2>1. /\ \A q \in Rank : pc'[q] = pc[q] \/ (pc[q] = "reduce" /\ pc'[q] = "outer")
        /\ pc' \in [Rank -> Stages]
    BY <1>0, <1>11 DEF Reduce, Meet
  <2>2. UNCHANGED <<source, round, dirs>>
    BY <1>11 DEF Reduce, engine
  <2>3. Files'
    BY <1>0, <2>2 DEF Files
  <2>. QED  BY <2>1, <2>2, <2>3, MovesOn
<1>12. ASSUME NEW r \in Rank, OuterStep(r)
       PROVE  Rounding'
  <2>1. pc[r] = "outer" /\ pc' = [pc EXCEPT ![r] = "save"] /\ UNCHANGED <<source, dirs>>
        /\ round' = [round EXCEPT ![r] = @ + 1]
    BY <1>12 DEF OuterStep
  <2>2. (InStep(b))' /\ Files'
    BY <1>0, <1>2, <2>1 DEF Files
  <2>. QED  BY <1>0, <2>1, <2>2 DEF Rounding
<1>13. ASSUME NEW r \in Rank, SaveRank(r)
       PROVE  Rounding'
  <2>1. round[r] \in 1 .. Rounds
    BY <1>1, <1>2, <1>13 DEF SaveRank
  <2>2. /\ AfterStep(r) /\ pc'[r] \in {"meta", "barrier"} /\ \A q \in Rank \ {r} : pc'[q] = pc[q]
        /\ pc' \in [Rank -> Stages] /\ UNCHANGED <<source, round>>
    BY <1>0, <1>13 DEF SaveRank, engine
  <2>3. Files'
    BY <1>0, <1>13, <2>1 DEF SaveRank, StateDict, Files
  <2>. QED  BY <2>2, <2>3, MovesOn
<1>14. CASE WriteMeta
  <2>1. /\ AfterStep(0) /\ pc'[0] = "barrier" /\ \A q \in Rank \ {0} : pc'[q] = pc[q]
        /\ pc' \in [Rank -> Stages] /\ UNCHANGED <<source, round>>
    BY <1>0, <1>1, <1>14 DEF WriteMeta, engine
  <2>2. Files'
    BY <1>0, <1>14 DEF WriteMeta, Files
  <2>. QED  BY <1>1, <2>1, <2>2, MovesOn
<1>15. CASE Barrier
  <2>1. \A r \in Rank : round[r] = b + 1
    BY <1>2, <1>15 DEF Barrier
  <2>2. b < Rounds
    BY <1>1, <1>2, <1>15 DEF Barrier
  <2>3. /\ pc' = [r \in Rank |-> IF b + 1 < Rounds THEN "train" ELSE "gather"]
        /\ UNCHANGED <<source, round, dirs>>
    BY <1>15, <2>1 DEF Barrier, AfterRound, engine
  <2>4. b + 1 \in 0 .. Rounds
    BY <1>1, <2>2
  <2>5. (InStep(b + 1))'
    BY <2>1, <2>2, <2>3
  <2>6. Files'
    BY <1>0, <2>3 DEF Files
  <2>. QED  BY <1>0, <2>3, <2>4, <2>5, <2>6 DEF Rounding
<1>16. ASSUME NEW key, Gather(key)
       PROVE  Rounding'
  <2>1. \A r \in Rank : pc'[r] \in {"gather", "done"}
    BY <1>16 DEF Gather
  <2>2. pc' \in [Rank -> Stages] /\ UNCHANGED <<source, round, dirs>>
    BY <1>16 DEF Gather, engine
  <2>3. Files'
    BY <1>0, <2>2 DEF Files
  <2>. QED  BY <2>1, <2>2, <2>3, MovesOn
<1>17. CASE UNCHANGED jobVars
  BY <1>17 DEF jobVars, engine, Rounding, Files
<1>. QED
  BY <1>3, <1>5, <1>6, <1>7, <1>8, <1>9, <1>10, <1>11, <1>12, <1>13, <1>14, <1>15, <1>16, <1>17
  DEF JobNext, JobStep, RankStep, RoundStep, Collective

\* The ranks that meet in the all-reduce of a module are in the same round: the
\* sum is one of pseudo-gradients of one round, after any kills and loads.
THEOREM RoundsAreNotMixed == JobSpec => []SumsOneRound
<1>1. Rounding => SumsOneRound
  <2>. SUFFICES ASSUME Rounding, NEW key \in Key, Meet(Members[key], "reduce", key),
                       NEW q \in Members[key], NEW r \in Members[key]
                PROVE  round[q] = round[r]
    BY DEF SumsOneRound
  <2>1. pc[q] = "reduce" /\ pc[r] = "reduce"
    BY DEF Meet
  <2>2. q \in Rank /\ r \in Rank
    BY DEF Members
  <2>. QED  BY <2>1, <2>2 DEF Rounding, InStep, InRound
<1>. QED  BY <1>1, InitRounding, NextRounding, PTL DEF JobSpec

-----------------------------------------------------------------------------
(* Sequences made of others, without repetitions. *)

NoRepeats(s) == \A i, j \in DOMAIN s : s[i] = s[j] => i = j

\* A set of numbers that is not empty has a least element.
LEMMA LeastNumber ==
  ASSUME NEW N \in SUBSET Nat, N # {}
  PROVE  \E n \in N : \A m \in N : n <= m
<1>. DEFINE R == OpToRel(<, Nat)
<1>1. PICK x \in N : \A y \in N : <<y, x>> \notin R
  BY NatLessThanWellFounded, WFMin
<1>2. ASSUME NEW y \in N PROVE y < x => <<y, x>> \in R
  <2>1. x \in Nat /\ y \in Nat
    OBVIOUS
  <2>. QED  BY <2>1, SMTT(20) DEF OpToRel
<1>. HIDE DEF R
<1>3. ASSUME NEW y \in N PROVE x <= y
  <2>1. x \in Nat /\ y \in Nat
    OBVIOUS
  <2>2. <<y, x>> \notin R
    BY <1>1
  <2>3. ~(y < x)
    BY <1>2, <2>2
  <2>. QED  BY <2>1, <2>3
<1>. QED  BY <1>3

\* Counting up from zero one comes to every number.
LEMMA CountUp ==
  ASSUME NEW N \in SUBSET Nat, 0 \in N, \A n \in N : n + 1 \in N
  PROVE  \A n \in Nat : n \in N
<1>. SUFFICES ASSUME Nat \ N # {} PROVE FALSE
  OBVIOUS
<1>1. PICK m \in Nat \ N : \A n \in Nat \ N : m <= n
  BY LeastNumber
<1>2. m # 0 /\ m - 1 \in Nat /\ m - 1 \notin Nat \ N
  BY <1>1
<1>3. m - 1 \in N /\ (m - 1) + 1 = m
  BY <1>2
<1>. QED  BY <1>1, <1>3

\* f is the sequence of what s's beginnings flatten to.
Flattens(f, s) ==
  f = [i \in 1 .. Len(s) |-> IF i = 1 THEN s[i] ELSE f[i - 1] \o s[i]]

FlattensTo(f, s, S, n) ==
  /\ f \in [1 .. n -> Seq(S)]
  /\ \A i \in 1 .. n : f[i] = IF i = 1 THEN s[i] ELSE f[i - 1] \o s[i]

\* There is one.
LEMMA FlattenExists ==
  ASSUME NEW S, NEW s \in Seq(Seq(S))
  PROVE  \E f : FlattensTo(f, s, S, Len(s))
<1>. DEFINE N == {n \in Nat : n <= Len(s) => \E f : FlattensTo(f, s, S, n)}
<1>0. Len(s) \in Nat /\ \A i \in 1 .. Len(s) : s[i] \in Seq(S)
  OBVIOUS
<1>1. 0 \in N
  <2>1. FlattensTo([i \in 1 .. 0 |-> <<>>], s, S, 0)
    BY DEF FlattensTo
  <2>. QED  BY <2>1
<1>2. ASSUME NEW n \in N PROVE n + 1 \in N
  <2>. SUFFICES ASSUME n + 1 <= Len(s) PROVE \E f : FlattensTo(f, s, S, n + 1)
    OBVIOUS
  <2>1. n \in Nat /\ n <= Len(s) /\ n + 1 \in 1 .. Len(s)
    BY <1>0
  <2>2. PICK f : FlattensTo(f, s, S, n)
    BY <2>1
  <2>. DEFINE x == IF n = 0 THEN s[1] ELSE f[n] \o s[n + 1]
              g == [i \in 1 .. n + 1 |-> IF i = n + 1 THEN x ELSE f[i]]
  <2>3. x \in Seq(S)
    <3>1. CASE n = 0
      BY <1>0, <2>1, <3>1
    <3>2. CASE n # 0
      <4>1. n \in 1 .. n
        BY <2>1, <3>2
      <4>2. f[n] \in Seq(S) /\ s[n + 1] \in Seq(S)
        BY <1>0, <2>1, <2>2, <4>1 DEF FlattensTo
      <4>3. f[n] \o s[n + 1] \in Seq(S)
        BY <4>2, ConcatProperties
      <4>. QED  BY <3>2, <4>3
    <3>. QED  BY <3>1, <3>2
  <2>. HIDE DEF x
  <2>4. \A i \in 1 .. n : f[i] \in Seq(S)
    BY <2>2 DEF FlattensTo
  <2>5. g \in [1 .. n + 1 -> Seq(S)]
    <3>1. \A i \in 1 .. n + 1 : i = n + 1 \/ i \in 1 .. n
      BY <2>1
    <3>. QED  BY <2>3, <2>4, <3>1
  <2>6. \A i \in 1 .. n + 1 : g[i] = IF i = 1 THEN s[i] ELSE g[i - 1] \o s[i]
    <3>. SUFFICES ASSUME NEW i \in 1 .. n + 1
                  PROVE  g[i] = IF i = 1 THEN s[i] ELSE g[i - 1] \o s[i]
      OBVIOUS
    <3>1. CASE i = n + 1
      <4>1. g[i] = x
        BY <3>1
      <4>2. n # 0 => i - 1 = n /\ g[n] = f[n]
        BY <2>1, <3>1
      <4>. QED  BY <2>1, <3>1, <4>1, <4>2 DEF x
    <3>2. CASE i # n + 1
      <4>1. i \in 1 .. n /\ (i # 1 => i - 1 \in 1 .. n)
        BY <2>1, <3>2
      <4>2. g[i] = f[i] /\ (i # 1 => g[i - 1] = f[i - 1])
        BY <2>1, <4>1
      <4>3. f[i] = IF i = 1 THEN s[i] ELSE f[i - 1] \o s[i]
        BY <2>2, <4>1 DEF FlattensTo
      <4>. HIDE DEF g
      <4>. QED  BY <4>2, <4>3
    <3>. QED  BY <3>1, <3>2
  <2>. HIDE DEF g
  <2>7. FlattensTo(g, s, S, n + 1)
    BY <2>5, <2>6 DEF FlattensTo
  <2>. QED  BY <2>7
<1>3. Len(s) \in N
  <2>. HIDE DEF N
  <2>1. N \in SUBSET Nat
    BY DEF N
  <2>. QED  BY <1>0, <1>1, <1>2, <2>1, CountUp
<1>. QED  BY <1>0, <1>3

\* What flattening a sequence gives.
LEMMA FlattenIs ==
  ASSUME NEW S, NEW s \in Seq(Seq(S)), s # <<>>
  PROVE  \E f : FlattensTo(f, s, S, Len(s)) /\ FlattenSeq(s) = f[Len(s)]
<1>. DEFINE f == CHOOSE g : Flattens(g, s)
<1>1. \E g : Flattens(g, s)
  <2>1. PICK g : FlattensTo(g, s, S, Len(s))
    BY FlattenExists
  <2>2. Flattens(g, s)
    BY <2>1 DEF FlattensTo, Flattens
  <2>. QED  BY <2>2
<1>2. Flattens(f, s)
  BY <1>1
<1>3. FlattenSeq(s) = f[Len(s)]
  <2>1. Len(s) # 0
    BY EmptySeq
  <2>. QED  BY <2>1 DEF FlattenSeq, Flattens
<1>. HIDE DEF f
<1>4. PICK g : FlattensTo(g, s, S, Len(s))
  BY FlattenExists
<1>5. \A i \in 1 .. Len(s) : f[i] = IF i = 1 THEN s[i] ELSE f[i - 1] \o s[i]
  BY <1>2 DEF Flattens
<1>6. \A i \in 1 .. Len(s) : f[i] = g[i]
  <2>. DEFINE N == {i \in Nat : i \in 1 .. Len(s) => f[i] = g[i]}
  <2>1. 0 \in N
    OBVIOUS
  <2>2. ASSUME NEW i \in N PROVE i + 1 \in N
    <3>. SUFFICES ASSUME i + 1 \in 1 .. Len(s) PROVE f[i + 1] = g[i + 1]
      OBVIOUS
    <3>0. Len(s) \in Nat
      OBVIOUS
    <3>1. /\ f[i + 1] = IF i + 1 = 1 THEN s[i + 1] ELSE f[(i + 1) - 1] \o s[i + 1]
          /\ g[i + 1] = IF i + 1 = 1 THEN s[i + 1] ELSE g[(i + 1) - 1] \o s[i + 1]
      BY <1>4, <1>5 DEF FlattensTo
    <3>2. (i + 1) - 1 = i /\ (i + 1 # 1 => i \in 1 .. Len(s))
      BY <3>0
    <3>3. i + 1 # 1 => f[i] = g[i]
      BY <3>2
    <3>. QED  BY <3>1, <3>2, <3>3
  <2>3. \A i \in Nat : i \in N
    <3>. HIDE DEF N
    <3>1. N \in SUBSET Nat
      BY DEF N
    <3>. QED  BY <2>1, <2>2, <3>1, CountUp
  <2>. QED  BY <2>3
<1>7. Len(s) \in 1 .. Len(s)
  BY EmptySeq
<1>. QED  BY <1>3, <1>4, <1>6, <1>7

\* Two sequences that have nothing in common, one after the other.
LEMMA JoinIs ==
  ASSUME NEW X, NEW a \in Seq(X), NEW b \in Seq(X)
  PROVE  /\ a \o b \in Seq(X)
         /\ ToSet(a \o b) = ToSet(a) \cup ToSet(b)
         /\ NoRepeats(a) /\ NoRepeats(b) /\ ToSet(a) \cap ToSet(b) = {} => NoRepeats(a \o b)
<1>. DEFINE c == a \o b
<1>1. /\ Len(a) \in Nat /\ Len(b) \in Nat /\ DOMAIN a = 1 .. Len(a) /\ DOMAIN b = 1 .. Len(b)
      /\ c \in Seq(X) /\ DOMAIN c = 1 .. Len(a) + Len(b)
      /\ \A i \in 1 .. Len(a) : c[i] = a[i]
      /\ \A i \in 1 .. Len(b) : c[Len(a) + i] = b[i]
  <2>1. c \in Seq(X) /\ Len(c) = Len(a) + Len(b)
    BY ConcatProperties
  <2>2. \A i \in 1 .. Len(c) : c[i] = IF i <= Len(a) THEN a[i] ELSE b[i - Len(a)]
    BY ConcatProperties
  <2>3. Len(a) \in Nat /\ Len(b) \in Nat /\ DOMAIN a = 1 .. Len(a) /\ DOMAIN b = 1 .. Len(b)
    OBVIOUS
  <2>. HIDE DEF c
  <2>4. DOMAIN c = 1 .. Len(a) + Len(b)
    BY <2>1
  <2>5. \A i \in 1 .. Len(a) : c[i] = a[i]
    BY <2>1, <2>2, <2>3
  <2>6. ASSUME NEW i \in 1 .. Len(b) PROVE c[Len(a) + i] = b[i]
    <3>1. Len(a) + i \in 1 .. Len(c) /\ ~(Len(a) + i <= Len(a)) /\ (Len(a) + i) - Len(a) = i
      BY <2>1, <2>3
    <3>2. c[Len(a) + i] = b[(Len(a) + i) - Len(a)]
      BY <2>2, <3>1
    <3>. QED  BY <3>1, <3>2
  <2>. QED  BY <2>1, <2>3, <2>4, <2>5, <2>6
<1>. HIDE DEF c
<1>2. \A i \in DOMAIN c : i \in 1 .. Len(a) \/ (i - Len(a) \in 1 .. Len(b) /\ Len(a) + (i - Len(a)) = i)
  BY <1>1
<1>3. ToSet(c) = ToSet(a) \cup ToSet(b)
  <2>1. ASSUME NEW i \in DOMAIN c PROVE c[i] \in ToSet(a) \cup ToSet(b)
    <3>1. CASE i \in 1 .. Len(a)
      BY <1>1, <3>1 DEF ToSet
    <3>2. CASE i \notin 1 .. Len(a)
      <4>1. i - Len(a) \in 1 .. Len(b) /\ Len(a) + (i - Len(a)) = i
        BY <1>2, <3>2
      <4>2. c[i] = b[i - Len(a)]
        BY <1>1, <4>1
      <4>. QED  BY <1>1, <4>1, <4>2 DEF ToSet
    <3>. QED  BY <3>1, <3>2
  <2>2. ASSUME NEW i \in 1 .. Len(a) PROVE a[i] \in ToSet(c)
    <3>1. i \in DOMAIN c /\ c[i] = a[i]
      BY <1>1
    <3>. QED  BY <3>1 DEF ToSet
  <2>3. ASSUME NEW i \in 1 .. Len(b) PROVE b[i] \in ToSet(c)
    <3>1. Len(a) + i \in DOMAIN c /\ c[Len(a) + i] = b[i]
      BY <1>1
    <3>. QED  BY <3>1 DEF ToSet
  <2>4. ToSet(a) = {a[i] : i \in 1 .. Len(a)} /\ ToSet(b) = {b[i] : i \in 1 .. Len(b)}
    BY <1>1 DEF ToSet
  <2>5. ToSet(c) = {c[i] : i \in DOMAIN c}
    BY DEF ToSet
  <2>. QED  BY <2>1, <2>2, <2>3, <2>4, <2>5
<1>4. ASSUME NoRepeats(a), NoRepeats(b), ToSet(a) \cap ToSet(b) = {},
             NEW i \in DOMAIN c, NEW j \in DOMAIN c, c[i] = c[j]
      PROVE  i = j
  <2>1. \A x \in 1 .. Len(a) : \A y \in 1 .. Len(b) : a[x] # b[y]
    BY <1>1, <1>4 DEF ToSet
  <2>2. \/ i \in 1 .. Len(a) /\ c[i] = a[i]
        \/ (i - Len(a) \in 1 .. Len(b) /\ c[i] = b[i - Len(a)])
    BY <1>1, <1>2
  <2>3. \/ j \in 1 .. Len(a) /\ c[j] = a[j]
        \/ (j - Len(a) \in 1 .. Len(b) /\ c[j] = b[j - Len(a)])
    BY <1>1, <1>2
  <2>4. CASE i \in 1 .. Len(a) /\ c[i] = a[i]
    <3>1. j \in 1 .. Len(a) /\ c[j] = a[j]
      BY <1>4, <2>1, <2>3, <2>4
    <3>. QED  BY <1>1, <1>4, <2>4, <3>1 DEF NoRepeats
  <2>5. CASE i - Len(a) \in 1 .. Len(b) /\ c[i] = b[i - Len(a)]
    <3>1. j - Len(a) \in 1 .. Len(b) /\ c[j] = b[j - Len(a)]
      BY <1>4, <2>1, <2>3, <2>5
    <3>2. i - Len(a) = j - Len(a)
      BY <1>1, <1>4, <2>5, <3>1 DEF NoRepeats
    <3>. QED  BY <1>1, <3>2
  <2>. QED  BY <2>2, <2>4, <2>5
<1>. QED  BY <1>1, <1>3, <1>4 DEF NoRepeats, c

\* Sequences that have nothing in common.
Disjoint(s) ==
  /\ \A i \in DOMAIN s : NoRepeats(s[i])
  /\ \A i, j \in DOMAIN s : i # j => ToSet(s[i]) \cap ToSet(s[j]) = {}

\* What all of them are put together has everything they have, once.
LEMMA FlattenSets ==
  ASSUME NEW X, NEW s \in Seq(Seq(X)), Disjoint(s)
  PROVE  /\ FlattenSeq(s) \in Seq(X)
         /\ \A x : x \in ToSet(FlattenSeq(s)) <=> \E i \in DOMAIN s : x \in ToSet(s[i])
         /\ NoRepeats(FlattenSeq(s))
<1>0. Len(s) \in Nat /\ DOMAIN s = 1 .. Len(s) /\ \A i \in 1 .. Len(s) : s[i] \in Seq(X)
  OBVIOUS
<1>1. CASE s = <<>>
  <2>1. Len(s) = 0
    BY <1>1, EmptySeq
  <2>2. FlattenSeq(s) = s
    BY <2>1 DEF FlattenSeq
  <2>3. DOMAIN s = {}
    BY <1>0, <2>1
  <2>4. s \in Seq(X)
    BY <1>1, EmptySeq
  <2>. QED  BY <2>2, <2>3, <2>4 DEF ToSet, NoRepeats
<1>2. CASE s # <<>>
  <2>1. PICK f : FlattensTo(f, s, X, Len(s)) /\ FlattenSeq(s) = f[Len(s)]
    BY <1>2, FlattenIs
  <2>2. Len(s) \in 1 .. Len(s)
    BY <1>0, <1>2, EmptySeq
  <2>3. \A i \in 1 .. Len(s) : f[i] \in Seq(X) /\ f[i] = IF i = 1 THEN s[i] ELSE f[i - 1] \o s[i]
    BY <2>1 DEF FlattensTo
  <2>. DEFINE Good(n) == /\ \A x : x \in ToSet(f[n]) <=> \E i \in 1 .. n : x \in ToSet(s[i])
                         /\ NoRepeats(f[n])
              N == {n \in Nat : n \in 1 .. Len(s) => Good(n)}
  <2>. HIDE DEF Good
  <2>4. 0 \in N
    <3>1. Len(s) \in Nat /\ 0 \notin 1 .. Len(s)
      BY <1>0
    <3>. QED  BY <3>1
  <2>5. ASSUME NEW n \in Nat, n \in 1 .. Len(s) => Good(n), n + 1 \in 1 .. Len(s)
        PROVE  Good(n + 1)
    <3>1. NoRepeats(s[n + 1])
      BY <1>0, <2>5 DEF Disjoint
    <3>2. CASE n = 0
      <4>1. f[1] = s[1] /\ n + 1 = 1
        BY <2>3, <2>5, <3>2
      <4>2. \A i \in 1 .. 1 : i = 1
        OBVIOUS
      <4>3. 1 \in 1 .. 1
        OBVIOUS
      <4>4. \A x : x \in ToSet(f[1]) <=> \E i \in 1 .. 1 : x \in ToSet(s[i])
        BY <4>1, <4>2, <4>3
      <4>5. NoRepeats(f[1])
        BY <3>1, <4>1, Zenon
      <4>. QED  BY <4>1, <4>4, <4>5, Zenon DEF Good
    <3>3. CASE n # 0
      <4>1. n \in 1 .. Len(s) /\ (n + 1) - 1 = n
        BY <1>0, <2>5, <3>3
      <4>2. f[n + 1] = f[n] \o s[n + 1] /\ f[n] \in Seq(X) /\ s[n + 1] \in Seq(X)
        <5>1. f[n + 1] = IF n + 1 = 1 THEN s[n + 1] ELSE f[(n + 1) - 1] \o s[n + 1]
          BY <2>3, <2>5
        <5>2. n + 1 # 1
          BY <3>3
        <5>. QED  BY <1>0, <2>3, <2>5, <4>1, <5>1, <5>2
      <4>3. /\ \A x : x \in ToSet(f[n]) <=> \E i \in 1 .. n : x \in ToSet(s[i])
            /\ NoRepeats(f[n])
        BY <2>5, <4>1 DEF Good
      <4>4. \A i \in 1 .. n : i \in 1 .. Len(s) /\ i # n + 1
        BY <1>0, <2>5, <4>1
      <4>5. \A i \in 1 .. n : ToSet(s[i]) \cap ToSet(s[n + 1]) = {}
        BY <1>0, <2>5, <4>4 DEF Disjoint
      <4>6. ToSet(f[n]) \cap ToSet(s[n + 1]) = {}
        BY <4>3, <4>5
      <4>7. ToSet(f[n + 1]) = ToSet(f[n]) \cup ToSet(s[n + 1]) /\ NoRepeats(f[n + 1])
        BY <3>1, <4>2, <4>3, <4>6, JoinIs
      <4>8. \A i \in 1 .. n + 1 : i \in 1 .. n \/ i = n + 1
        BY <4>1
      <4>9. n + 1 \in 1 .. n + 1 /\ \A i \in 1 .. n : i \in 1 .. n + 1
        BY <4>1
      <4>. QED  BY <4>3, <4>7, <4>8, <4>9 DEF Good
    <3>. QED  BY <3>2, <3>3
  <2>6. ASSUME NEW n \in N PROVE n + 1 \in N
    <3>1. n \in Nat /\ n + 1 \in Nat /\ (n \in 1 .. Len(s) => Good(n))
      OBVIOUS
    <3>2. n + 1 \in 1 .. Len(s) => Good(n + 1)
      BY <2>5, <3>1
    <3>. QED  BY <3>1, <3>2
  <2>7. Len(s) \in N
    <3>. HIDE DEF N
    <3>1. N \in SUBSET Nat
      BY DEF N
    <3>. QED  BY <1>0, <2>4, <2>6, <3>1, CountUp
  <2>8. Good(Len(s))
    BY <2>2, <2>7
  <2>9. /\ \A x : x \in ToSet(f[Len(s)]) <=> \E i \in 1 .. Len(s) : x \in ToSet(s[i])
        /\ NoRepeats(f[Len(s)])
    BY <2>8 DEF Good
  <2>10. FlattenSeq(s) = f[Len(s)] /\ f[Len(s)] \in Seq(X)
    BY <2>1, <2>2, <2>3
  <2>. QED  BY <1>0, <2>9, <2>10, Zenon
<1>. QED  BY <1>1, <1>2

\* The elements of a sequence that are in S.
LEMMA AmongIs ==
  ASSUME NEW X, NEW seq \in Seq(X), NoRepeats(seq), NEW S
  PROVE  /\ Among(seq, S) \in Seq(X)
         /\ ToSet(Among(seq, S)) = {x \in ToSet(seq) : x \in S}
         /\ NoRepeats(Among(seq, S))
<1>. DEFINE s == [i \in DOMAIN seq |-> IF seq[i] \in S THEN <<seq[i]>> ELSE <<>>]
<1>0. Len(seq) \in Nat /\ DOMAIN seq = 1 .. Len(seq) /\ \A i \in DOMAIN seq : seq[i] \in X
  OBVIOUS
<1>1. s \in Seq(Seq(X)) /\ DOMAIN s = DOMAIN seq
  <2>1. \A i \in 1 .. Len(seq) : (IF seq[i] \in S THEN <<seq[i]>> ELSE <<>>) \in Seq(X)
    BY <1>0
  <2>2. s \in [1 .. Len(seq) -> Seq(X)]
    BY <1>0, <2>1
  <2>. QED  BY <1>0, <2>2
<1>2. \A i \in DOMAIN seq : \A x : x \in ToSet(s[i]) <=> x = seq[i] /\ x \in S
  BY DEF ToSet
<1>3. Disjoint(s)
  <2>1. \A i \in DOMAIN seq : s[i] = <<>> \/ s[i] = <<seq[i]>>
    OBVIOUS
  <2>3. \A x : NoRepeats(<<x>>) /\ NoRepeats(<<>>)
    BY DEF NoRepeats
  <2>. HIDE DEF s
  <2>2. \A i, j \in DOMAIN seq : i # j => ToSet(s[i]) \cap ToSet(s[j]) = {}
    BY <1>2 DEF NoRepeats
  <2>. QED  BY <1>1, <2>1, <2>2, <2>3 DEF Disjoint
<1>4. Among(seq, S) = FlattenSeq(s)
  BY DEF Among
<1>. HIDE DEF s
<1>5. /\ Among(seq, S) \in Seq(X) /\ NoRepeats(Among(seq, S))
      /\ \A x : x \in ToSet(Among(seq, S)) <=> \E i \in DOMAIN s : x \in ToSet(s[i])
  BY <1>1, <1>3, <1>4, FlattenSets
<1>6. \A x : x \in ToSet(seq) <=> \E i \in DOMAIN seq : x = seq[i]
  BY DEF ToSet
<1>7. \A x : x \in ToSet(Among(seq, S)) <=> x \in ToSet(seq) /\ x \in S
  BY <1>1, <1>2, <1>5, <1>6, Zenon
<1>. QED  BY <1>5, <1>7

-----------------------------------------------------------------------------
(* Division. *)

LEMMA Products ==
  /\ \A a, b \in Nat : a * b \in Nat
  /\ \A a, b \in Nat \ {0} : a * b \in Nat \ {0} /\ a <= a * b /\ b <= a * b
  OBVIOUS

LEMMA DivisionIs ==
  ASSUME NEW i \in Nat, NEW n \in Nat \ {0}
  PROVE  /\ i \div n \in Nat /\ i % n \in 0 .. n - 1
         /\ i = n * (i \div n) + (i % n)
  OBVIOUS

LEMMA MoreTimes ==
  ASSUME NEW a \in Nat, NEW b \in Nat, NEW n \in Nat, a < b
  PROVE  n * a + n <= n * b
<1>1. n * (a + 1) <= n * b
  <2>1. \A x, y \in Nat : x <= y => n * x <= n * y
    OBVIOUS
  <2>. QED  BY <2>1
<1>2. n * (a + 1) = n * a + n
  OBVIOUS
<1>. QED  BY <1>1, <1>2

\* There is one quotient.
LEMMA QuotientIs ==
  ASSUME NEW n \in Nat \ {0}, NEW q \in Nat, NEW r \in 0 .. n - 1
  PROVE  (n * q + r) \div n = q
  OBVIOUS

\* Dividing by a product is dividing by one factor, then by the other.
LEMMA QuotientOf ==
  ASSUME NEW i \in Nat, NEW a \in Nat \ {0}, NEW b \in Nat \ {0}
  PROVE  i \div (a * b) = (i \div b) \div a
<1>. DEFINE q == i \div b
            r == i % b
            d == q \div a
            m == q % a
            s == b * m + r
<1>1. q \in Nat /\ r \in Nat /\ r < b /\ i = b * q + r
  BY DivisionIs
<1>. HIDE DEF q, r
<1>2. d \in Nat /\ m \in Nat /\ m < a /\ q = a * d + m
  BY <1>1, DivisionIs
<1>. HIDE DEF d, m
<1>3. i = (a * b) * d + s
  <2>1. b * q = b * (a * d + m)
    BY <1>2
  <2>2. b * (a * d + m) = (a * b) * d + b * m
    BY <1>2
  <2>3. a * d \in Nat /\ (a * b) * d \in Nat /\ b * m \in Nat
    BY <1>2, Products
  <2>. QED  BY <1>1, <2>1, <2>2, <2>3
<1>4. s \in 0 .. (a * b) - 1
  <2>1. b * m + b <= b * a
    BY <1>2, MoreTimes
  <2>2. b * m \in Nat /\ a * b \in Nat /\ b * a = a * b
    BY <1>2, Products
  <2>. QED  BY <1>1, <2>1, <2>2
<1>5. a * b \in Nat \ {0}
  BY Products
<1>. HIDE DEF s
<1>6. ((a * b) * d + s) \div (a * b) = d
  BY <1>2, <1>4, <1>5, QuotientIs
<1>. QED  BY <1>3, <1>6 DEF d, q

-----------------------------------------------------------------------------
(* The grid: levels, completions, and a path's place. *)

Levels == Len(LevelSizes)

LEMMA LevelsAre ==
  /\ Levels \in Nat /\ DOMAIN LevelSizes = 1 .. Levels
  /\ \A j \in 1 .. Levels : LevelSizes[j] \in Nat \ {0}
  /\ \A i \in DOMAIN Segments : IsRouting(i) =>
       /\ LevelOf(i) \in 1 .. Levels
       /\ LevelSizes[LevelOf(i)] = Segments[i].experts
<1>. DEFINE places == [i \in DOMAIN Segments |-> i]
            routing == {i \in DOMAIN Segments : IsRouting(i)}
<1>0. /\ Len(Segments) \in Nat /\ DOMAIN Segments = 1 .. Len(Segments)
      /\ \A i \in DOMAIN Segments : Segments[i].experts \in Nat \ {0}
  <2>. DEFINE R == [role : {"embed", "body", "head"}, experts : Nat \ {0},
                    sharing : {"shared", "private"}]
  <2>1. \A x \in R : x.experts \in Nat \ {0}
    OBVIOUS
  <2>2. Segments \in Seq(R)
    BY SegmentsAssumption
  <2>. HIDE DEF R
  <2>. QED  BY <2>1, <2>2
<1>1. places \in Seq(DOMAIN Segments) /\ ToSet(places) = DOMAIN Segments /\ NoRepeats(places)
  <2>1. places \in [1 .. Len(Segments) -> DOMAIN Segments]
    BY <1>0
  <2>. QED  BY <1>0, <2>1 DEF ToSet, NoRepeats
<1>2. RoutingIndices = Among(places, routing)
  BY DEF RoutingIndices
<1>. HIDE DEF places
<1>3. RoutingIndices \in Seq(DOMAIN Segments) /\ ToSet(RoutingIndices) = routing
  BY <1>1, <1>2, AmongIs
<1>4. DOMAIN RoutingIndices = 1 .. Len(RoutingIndices) /\ Len(RoutingIndices) \in Nat
  BY <1>3
<1>5. \A j \in DOMAIN RoutingIndices : RoutingIndices[j] \in DOMAIN Segments
  BY <1>3
<1>6. DOMAIN LevelSizes = DOMAIN RoutingIndices
      /\ \A j \in DOMAIN RoutingIndices : LevelSizes[j] = Segments[RoutingIndices[j]].experts
  BY DEF LevelSizes
<1>7. LevelSizes \in Seq(Nat \ {0})
  <2>1. \A j \in DOMAIN RoutingIndices : LevelSizes[j] \in Nat \ {0}
    BY <1>0, <1>5, <1>6
  <2>2. LevelSizes = [j \in 1 .. Len(RoutingIndices) |-> LevelSizes[j]]
    BY <1>4 DEF LevelSizes
  <2>3. LevelSizes \in [1 .. Len(RoutingIndices) -> Nat \ {0}]
    BY <1>4, <2>1, <2>2
  <2>. QED  BY <1>4, <2>3
<1>8. /\ Levels \in Nat /\ DOMAIN LevelSizes = 1 .. Levels
      /\ \A j \in 1 .. Levels : LevelSizes[j] \in Nat \ {0}
  <2>1. \A s \in Seq(Nat \ {0}) : /\ Len(s) \in Nat /\ DOMAIN s = 1 .. Len(s)
                                  /\ \A j \in 1 .. Len(s) : s[j] \in Nat \ {0}
    OBVIOUS
  <2>. QED  BY <1>7, <2>1, Zenon DEF Levels
<1>9. ASSUME NEW i \in DOMAIN Segments, IsRouting(i)
      PROVE  LevelOf(i) \in 1 .. Levels /\ LevelSizes[LevelOf(i)] = Segments[i].experts
  <2>1. \E j \in DOMAIN RoutingIndices : RoutingIndices[j] = i
    BY <1>3, <1>9 DEF ToSet
  <2>2. LevelOf(i) \in DOMAIN RoutingIndices /\ RoutingIndices[LevelOf(i)] = i
    BY <2>1 DEF LevelOf
  <2>. QED  BY <1>6, <1>8, <2>2
<1>. QED  BY <1>8, <1>9

\* Completions of the levels from k on.
CompletesFrom(f, k) ==
  /\ f \in [k .. Levels -> Nat \ {0}]
  /\ \A j \in k .. Levels : f[j] = IF j = Levels THEN 1 ELSE LevelSizes[j + 1] * f[j + 1]

LEMMA CompletionsExist == \E f : CompletesFrom(f, 0)
<1>. DEFINE N == {n \in Nat : n <= Levels => \E f : CompletesFrom(f, Levels - n)}
<1>0. Levels \in Nat /\ \A j \in 1 .. Levels : LevelSizes[j] \in Nat \ {0}
  BY LevelsAre
<1>1. 0 \in N
  <2>. DEFINE f == [j \in Levels .. Levels |-> 1]
  <2>1. Levels - 0 = Levels /\ \A j \in Levels .. Levels : j = Levels
    BY <1>0
  <2>2. CompletesFrom(f, Levels)
    BY <2>1 DEF CompletesFrom
  <2>. QED  BY <2>1, <2>2
<1>2. ASSUME NEW n \in N PROVE n + 1 \in N
  <2>. SUFFICES ASSUME n + 1 <= Levels PROVE \E f : CompletesFrom(f, Levels - (n + 1))
    OBVIOUS
  <2>. DEFINE k == Levels - (n + 1)
  <2>1. k \in Nat /\ k + 1 = Levels - n /\ k < Levels /\ k + 1 \in 1 .. Levels /\ n <= Levels
    BY <1>0
  <2>. HIDE DEF k
  <2>2. PICK f : CompletesFrom(f, k + 1)
    BY <2>1
  <2>. DEFINE x == LevelSizes[k + 1] * f[k + 1]
              g == [j \in k .. Levels |-> IF j = k THEN x ELSE f[j]]
  <2>3. x \in Nat \ {0}
    <3>1. k + 1 \in k + 1 .. Levels
      BY <1>0, <2>1
    <3>2. f[k + 1] \in Nat \ {0} /\ LevelSizes[k + 1] \in Nat \ {0}
      BY <1>0, <2>1, <2>2, <3>1 DEF CompletesFrom
    <3>. QED  BY <3>2, Products
  <2>4. ASSUME NEW j \in k .. Levels
        PROVE  g[j] \in Nat \ {0} /\ g[j] = IF j = Levels THEN 1 ELSE LevelSizes[j + 1] * g[j + 1]
    <3>1. CASE j = k
      <4>1. g[j] = x /\ j # Levels /\ k + 1 \in k .. Levels /\ k + 1 # k
        BY <1>0, <2>1, <3>1
      <4>2. g[k + 1] = f[k + 1]
        BY <4>1
      <4>. HIDE DEF g
      <4>. QED  BY <2>3, <3>1, <4>1, <4>2
    <3>2. CASE j # k
      <4>1. j \in k + 1 .. Levels /\ (j # Levels => j + 1 \in k .. Levels /\ j + 1 # k)
        BY <1>0, <2>1, <3>2
      <4>2. g[j] = f[j] /\ (j # Levels => g[j + 1] = f[j + 1])
        BY <3>2, <4>1
      <4>3. f[j] \in Nat \ {0} /\ f[j] = IF j = Levels THEN 1 ELSE LevelSizes[j + 1] * f[j + 1]
        BY <2>2, <4>1 DEF CompletesFrom
      <4>. HIDE DEF g
      <4>. QED  BY <4>2, <4>3
    <3>. QED  BY <3>1, <3>2
  <2>5. CompletesFrom(g, k)
    <3>1. g = [j \in k .. Levels |-> g[j]]
      OBVIOUS
    <3>. HIDE DEF g
    <3>. QED  BY <2>4, <3>1 DEF CompletesFrom
  <2>. QED  BY <2>5 DEF k
<1>3. Levels \in N
  <2>. HIDE DEF N
  <2>1. N \in SUBSET Nat
    BY DEF N
  <2>. QED  BY <1>0, <1>1, <1>2, <2>1, CountUp
<1>4. Levels - Levels = 0 /\ Levels <= Levels
  BY <1>0
<1>. QED  BY <1>3, <1>4

\* Any choice on the first levels can be completed, and there are more completions
\* the fewer levels are chosen.
LEMMA CompletionsAre ==
  /\ Completions[Levels] = 1
  /\ \A j \in 0 .. Levels : Completions[j] \in Nat \ {0} /\ Completions[j] <= Completions[0]
  /\ \A j \in 1 .. Levels : Completions[j - 1] = LevelSizes[j] * Completions[j]
<1>0. Levels \in Nat /\ \A j \in 1 .. Levels : LevelSizes[j] \in Nat \ {0}
  BY LevelsAre
<1>1. PICK f : CompletesFrom(f, 0)
  BY CompletionsExist
<1>2. \E c : c = [j \in 0 .. Len(LevelSizes) |->
                     IF j = Len(LevelSizes) THEN 1 ELSE LevelSizes[j + 1] * c[j + 1]]
  <2>1. f = [j \in 0 .. Levels |-> IF j = Levels THEN 1 ELSE LevelSizes[j + 1] * f[j + 1]]
    BY <1>1 DEF CompletesFrom
  <2>. QED  BY <2>1 DEF Levels
<1>3. Completions = [j \in 0 .. Len(LevelSizes) |->
                       IF j = Len(LevelSizes) THEN 1 ELSE LevelSizes[j + 1] * Completions[j + 1]]
  BY <1>2 DEF Completions
<1>4. \A j \in 0 .. Levels :
        Completions[j] = IF j = Levels THEN 1 ELSE LevelSizes[j + 1] * Completions[j + 1]
  BY <1>3, Zenon DEF Levels
<1>5. Completions[Levels] = 1
  BY <1>0, <1>4
<1>6. \A j \in 1 .. Levels : Completions[j - 1] = LevelSizes[j] * Completions[j]
  <2>1. ASSUME NEW j \in 1 .. Levels PROVE Completions[j - 1] = LevelSizes[j] * Completions[j]
    <3>1. j - 1 \in 0 .. Levels /\ j - 1 # Levels /\ (j - 1) + 1 = j
      BY <1>0
    <3>. QED  BY <1>4, <3>1, Zenon
  <2>. QED  BY <2>1
<1>7. \A j \in 0 .. Levels : Completions[j] \in Nat \ {0}
  <2>. DEFINE N == {n \in Nat : n <= Levels => Completions[Levels - n] \in Nat \ {0}}
  <2>1. 0 \in N
    BY <1>0, <1>5
  <2>2. ASSUME NEW n \in N PROVE n + 1 \in N
    <3>. SUFFICES ASSUME n + 1 <= Levels PROVE Completions[Levels - (n + 1)] \in Nat \ {0}
      OBVIOUS
    <3>1. Levels - n \in 1 .. Levels /\ Levels - (n + 1) = (Levels - n) - 1
      BY <1>0
    <3>2. Completions[Levels - n] \in Nat \ {0} /\ LevelSizes[Levels - n] \in Nat \ {0}
      BY <1>0, <3>1
    <3>3. Completions[Levels - (n + 1)] = LevelSizes[Levels - n] * Completions[Levels - n]
      BY <1>6, <3>1
    <3>. QED  BY <3>2, <3>3, Products
  <2>3. \A n \in Nat : n \in N
    <3>. HIDE DEF N
    <3>1. N \in SUBSET Nat
      BY DEF N
    <3>. QED  BY <2>1, <2>2, <3>1, CountUp
  <2>4. \A j \in 0 .. Levels : Levels - j \in Nat /\ Levels - j <= Levels /\ Levels - (Levels - j) = j
    BY <1>0
  <2>. QED  BY <2>3, <2>4
<1>8. \A j \in 0 .. Levels : Completions[j] <= Completions[0]
  <2>. DEFINE N == {n \in Nat : n <= Levels => Completions[n] <= Completions[0]}
  <2>1. 0 \in N
    BY <1>0, <1>7
  <2>2. ASSUME NEW n \in N PROVE n + 1 \in N
    <3>. SUFFICES ASSUME n + 1 <= Levels PROVE Completions[n + 1] <= Completions[0]
      OBVIOUS
    <3>1. n + 1 \in 1 .. Levels /\ (n + 1) - 1 = n /\ n \in 0 .. Levels /\ 0 \in 0 .. Levels
      BY <1>0
    <3>2. /\ Completions[n] = LevelSizes[n + 1] * Completions[n + 1]
          /\ Completions[n + 1] \in Nat \ {0} /\ LevelSizes[n + 1] \in Nat \ {0}
          /\ Completions[n] \in Nat /\ Completions[0] \in Nat
      BY <1>0, <1>6, <1>7, <3>1
    <3>3. Completions[n + 1] <= Completions[n]
      BY <3>2, Products
    <3>4. Completions[n] <= Completions[0]
      BY <3>1
    <3>. QED  BY <3>2, <3>3, <3>4
  <2>3. \A n \in Nat : n \in N
    <3>. HIDE DEF N
    <3>1. N \in SUBSET Nat
      BY DEF N
    <3>. QED  BY <2>1, <2>2, <3>1, CountUp
  <2>. QED  BY <1>0, <2>3
<1>. QED  BY <1>5, <1>6, <1>7, <1>8

-----------------------------------------------------------------------------
(* Paths: a path's digits, and its place. *)

PathNumber == 0 .. NumPaths - 1

LEMMA DigitsAre ==
  ASSUME NEW i \in PathNumber
  PROVE  /\ DOMAIN PathFromIndex(i) = 1 .. Levels
         /\ \A j \in 1 .. Levels : PathFromIndex(i)[j] \in 0 .. LevelSizes[j] - 1
         /\ PathIndex(PathFromIndex(i)) = i
<1>. DEFINE p == PathFromIndex(i)
<1>0. /\ Levels \in Nat /\ DOMAIN LevelSizes = 1 .. Levels
      /\ \A j \in 1 .. Levels : LevelSizes[j] \in Nat \ {0}
      /\ \A j \in 0 .. Levels : Completions[j] \in Nat \ {0}
      /\ NumPaths \in Nat \ {0} /\ i \in Nat /\ i < NumPaths
  <2>1. NumPaths \in Nat \ {0}
    BY LevelsAre, CompletionsAre DEF NumPaths
  <2>. QED  BY <2>1, LevelsAre, CompletionsAre DEF PathNumber
<1>1. DOMAIN p = 1 .. Levels /\ \A j \in 1 .. Levels : p[j] = (i \div Completions[j]) % LevelSizes[j]
  BY <1>0 DEF PathFromIndex
<1>. HIDE DEF p
<1>2. \A j \in 0 .. Levels : i \div Completions[j] \in Nat
  BY <1>0, DivisionIs
<1>3. ASSUME NEW j \in 1 .. Levels PROVE p[j] \in 0 .. LevelSizes[j] - 1
  <2>. DEFINE q == i \div Completions[j]
              n == LevelSizes[j]
  <2>1. j \in 0 .. Levels
    BY <1>0
  <2>2. q \in Nat /\ n \in Nat \ {0} /\ p[j] = q % n
    BY <1>0, <1>1, <1>2, <2>1
  <2>. HIDE DEF q
  <2>3. q % n \in 0 .. n - 1
    BY <2>2, DivisionIs
  <2>. QED  BY <2>2, <2>3
<1>4. i \div Completions[0] = 0
  <2>1. NumPaths * 0 + i = i /\ i \in 0 .. NumPaths - 1
    BY <1>0
  <2>2. (NumPaths * 0 + i) \div NumPaths = 0
    BY <1>0, <2>1, QuotientIs
  <2>. QED  BY <2>1, <2>2, Zenon DEF NumPaths
<1>5. ASSUME NEW j \in 1 .. Levels
      PROVE  i \div Completions[j] = (i \div Completions[j - 1]) * LevelSizes[j] + p[j]
  <2>. DEFINE a == LevelSizes[j]
              b == Completions[j]
              q == i \div b
  <2>1. a \in Nat \ {0} /\ b \in Nat \ {0} /\ q \in Nat
    BY <1>0, <1>2
  <2>2. Completions[j - 1] = a * b /\ p[j] = q % a
    BY <1>1, CompletionsAre
  <2>. HIDE DEF a, b
  <2>3. i \div (a * b) = q \div a
    BY <1>0, <2>1, QuotientOf
  <2>. HIDE DEF q
  <2>4. q = a * (q \div a) + (q % a) /\ q \div a \in Nat
    BY <2>1, DivisionIs
  <2>5. a * (q \div a) = (q \div a) * a
    BY <2>1, <2>4
  <2>. QED  BY <2>2, <2>3, <2>4, <2>5 DEF q, a, b
<1>. DEFINE h == [j \in 0 .. Levels |-> i \div Completions[j]]
<1>6. h = [j \in 0 .. Levels |-> IF j = 0 THEN 0 ELSE h[j - 1] * LevelSizes[j] + p[j]]
  <2>1. ASSUME NEW j \in 0 .. Levels
        PROVE  i \div Completions[j] = IF j = 0 THEN 0 ELSE h[j - 1] * LevelSizes[j] + p[j]
    <3>1. CASE j = 0
      BY <1>4, <3>1
    <3>2. CASE j # 0
      <4>1. j \in 1 .. Levels /\ j - 1 \in 0 .. Levels
        BY <1>0, <3>2
      <4>2. h[j - 1] = i \div Completions[j - 1]
        BY <4>1
      <4>. QED  BY <1>5, <3>2, <4>1, <4>2
    <3>. QED  BY <3>1, <3>2
  <2>. QED  BY <2>1, Zenon
<1>. HIDE DEF h
<1>. DEFINE c == CHOOSE f : f = [j \in 0 .. Levels |-> IF j = 0 THEN 0 ELSE f[j - 1] * LevelSizes[j] + p[j]]
<1>7. PathIndex(p) = c[Levels]
  BY DEF PathIndex, Levels
<1>8. c = [j \in 0 .. Levels |-> IF j = 0 THEN 0 ELSE c[j - 1] * LevelSizes[j] + p[j]]
  BY <1>6, Zenon
<1>. HIDE DEF c
<1>9. \A j \in 0 .. Levels : c[j] = h[j]
  <2>. DEFINE N == {n \in Nat : n <= Levels => c[n] = h[n]}
  <2>1. 0 \in N
    BY <1>0, <1>6, <1>8
  <2>2. ASSUME NEW n \in N PROVE n + 1 \in N
    <3>. SUFFICES ASSUME n + 1 <= Levels PROVE c[n + 1] = h[n + 1]
      OBVIOUS
    <3>1. n + 1 \in 0 .. Levels /\ n + 1 # 0 /\ (n + 1) - 1 = n /\ c[n] = h[n]
      BY <1>0
    <3>2. /\ c[n + 1] = c[n] * LevelSizes[n + 1] + p[n + 1]
          /\ h[n + 1] = h[n] * LevelSizes[n + 1] + p[n + 1]
      BY <1>6, <1>8, <3>1, Zenon
    <3>. QED  BY <3>1, <3>2
  <2>3. \A n \in Nat : n \in N
    <3>. HIDE DEF N
    <3>1. N \in SUBSET Nat
      BY DEF N
    <3>. QED  BY <2>1, <2>2, <3>1, CountUp
  <2>. QED  BY <1>0, <2>3
<1>10. PathIndex(p) = i
  <2>1. Levels \in 0 .. Levels
    BY <1>0
  <2>2. (1 * i + 0) \div 1 = i /\ 1 * i + 0 = i
    BY <1>0
  <2>3. h[Levels] = i
    <3>1. h[Levels] = i \div Completions[Levels] /\ Completions[Levels] = 1
      BY <2>1, CompletionsAre DEF h
    <3>. QED  BY <2>2, <3>1
  <2>. QED  BY <1>7, <1>9, <2>1, <2>3
<1>. QED  BY <1>1, <1>3, <1>10 DEF p

\* The paths are as many as the numbers, and each is where its number says.
LEMMA PathsAre ==
  /\ NumPaths \in Nat \ {0}
  /\ Paths \in Seq(GridPath) /\ DOMAIN Paths = 1 .. NumPaths
  /\ \A k \in 1 .. NumPaths : Paths[k] = PathFromIndex(k - 1) /\ PathIndex(Paths[k]) = k - 1
  /\ \A i \in PathNumber : PathFromIndex(i) \in GridPath
  /\ \A p \in GridPath : PathIndex(p) \in PathNumber /\ p = PathFromIndex(PathIndex(p))
<1>1. NumPaths \in Nat \ {0}
  BY LevelsAre, CompletionsAre DEF NumPaths
<1>2. Paths = [k \in 1 .. NumPaths |-> PathFromIndex(k - 1)]
  BY DEF Paths
<1>3. GridPath = {Paths[k] : k \in 1 .. NumPaths}
  BY <1>2 DEF GridPath, ToSet
<1>4. \A k \in 1 .. NumPaths : k - 1 \in PathNumber
  BY <1>1 DEF PathNumber
<1>5. \A k \in 1 .. NumPaths : Paths[k] = PathFromIndex(k - 1) /\ PathIndex(Paths[k]) = k - 1
  BY <1>2, <1>4, DigitsAre
<1>6. Paths \in Seq(GridPath) /\ DOMAIN Paths = 1 .. NumPaths
  <2>1. \A k \in 1 .. NumPaths : Paths[k] \in GridPath
    BY <1>3
  <2>2. Paths \in [1 .. NumPaths -> GridPath]
    BY <1>2, <2>1
  <2>. QED  BY <1>1, <2>2
<1>7. ASSUME NEW i \in PathNumber PROVE PathFromIndex(i) \in GridPath
  <2>1. i + 1 \in 1 .. NumPaths /\ (i + 1) - 1 = i
    BY <1>1 DEF PathNumber
  <2>. QED  BY <1>3, <1>5, <2>1
<1>8. \A p \in GridPath : PathIndex(p) \in PathNumber /\ p = PathFromIndex(PathIndex(p))
  BY <1>3, <1>4, <1>5
<1>. QED  BY <1>1, <1>5, <1>6, <1>7, <1>8

LEMMA GridIs == NumPaths \in Nat \ {0} /\ IsFiniteSet(Rank)
  BY PathsAre, TrainingAssumption, FS_Interval DEF Rank

\* The ranks share the paths out in blocks of the same size.
LEMMA SharedOut ==
  /\ GroupSize \in Nat \ {0} /\ GroupSize * World = NumPaths
<1>1. NumPaths \in Nat \ {0} /\ World \in Nat \ {0} /\ NumPaths % World = 0
  BY PathsAre, TrainingAssumption
<1>2. NumPaths \div World \in Nat /\ NumPaths = World * (NumPaths \div World) + (NumPaths % World)
  BY <1>1, DivisionIs
<1>. DEFINE q == NumPaths \div World
<1>3. q \in Nat /\ NumPaths = World * q + 0
  BY <1>1, <1>2
<1>. HIDE DEF q
<1>4. World * q = q * World /\ World * q \in Nat /\ World * 0 = 0
  BY <1>1, <1>3, Products
<1>5. q \in Nat \ {0} /\ q * World = NumPaths
  BY <1>1, <1>3, <1>4
<1>. QED  BY <1>5 DEF q, GroupSize

LEMMA RankIs == \A p \in GridPath : RankOf(p) \in Rank
<1>. SUFFICES ASSUME NEW p \in GridPath PROVE RankOf(p) \in Rank
  OBVIOUS
<1>. DEFINE i == PathIndex(p)
            q == i \div GroupSize
<1>1. i \in Nat /\ i < NumPaths /\ NumPaths \in Nat /\ World \in Nat \ {0}
  BY PathsAre, TrainingAssumption DEF PathNumber
<1>. HIDE DEF i
<1>2. q \in Nat /\ GroupSize * q <= i /\ GroupSize * q \in Nat
  <2>1. q \in Nat /\ i % GroupSize \in 0 .. GroupSize - 1 /\ i = GroupSize * q + (i % GroupSize)
    BY <1>1, SharedOut, DivisionIs
  <2>. DEFINE m == i % GroupSize
  <2>. HIDE DEF m, q
  <2>2. GroupSize * q \in Nat
    BY <2>1, SharedOut, Products
  <2>. QED  BY <2>1, <2>2, SharedOut DEF m
<1>. HIDE DEF q
<1>3. q < World
  <2>1. World <= q => GroupSize * World <= GroupSize * q
    <3>1. \A n, a, b \in Nat : a <= b => n * a <= n * b
      OBVIOUS
    <3>. QED  BY <1>1, <1>2, <3>1, SharedOut
  <2>. QED  BY <1>1, <1>2, <2>1, SharedOut
<1>4. q \in Rank
  BY <1>1, <1>2, <1>3 DEF Rank
<1>. QED  BY <1>4 DEF q, i, RankOf

\* A rank's block: the paths it owns, each once.
LEMMA OwnedSeq ==
  ASSUME NEW r \in Rank
  PROVE  /\ OwnedPaths[r] \in Seq(GridPath) /\ NoRepeats(OwnedPaths[r])
         /\ ToSet(OwnedPaths[r]) = {p \in GridPath : RankOf(p) = r}
<1>. DEFINE n == GroupSize
            b == r * GroupSize
            s == SubSeq(Paths, b + 1, (r + 1) * GroupSize)
<1>0. /\ n \in Nat \ {0} /\ b \in Nat /\ b + n <= NumPaths /\ (r + 1) * GroupSize = b + n
      /\ NumPaths \in Nat /\ b = n * r /\ r \in Nat
  <2>1. r \in Nat /\ World \in Nat /\ r < World
    BY TrainingAssumption DEF Rank
  <2>2. n * r + n <= n * World /\ n \in Nat \ {0}
    BY <2>1, MoreTimes, SharedOut
  <2>3. n * r = b /\ n * World = GroupSize * World /\ (r + 1) * GroupSize = b + n
    BY <2>1, SharedOut
  <2>4. b \in Nat
    BY <2>1, <2>2, Products
  <2>. QED  BY <2>1, <2>2, <2>3, <2>4, SharedOut, PathsAre
<1>1. OwnedPaths[r] = s
  BY DEF OwnedPaths
<1>. HIDE DEF n, b
<1>2. s \in Seq(GridPath) /\ Len(s) = n /\ DOMAIN s = 1 .. n
      /\ \A k \in 1 .. n : s[k] = Paths[b + k]
  <2>0. s = SubSeq(Paths, b + 1, b + n)
    BY <1>0
  <2>1. Paths \in Seq(GridPath) /\ Len(Paths) = NumPaths
    BY PathsAre
  <2>2. b + 1 \in 1 .. Len(Paths) + 1 /\ b + n \in b + 1 - 1 .. Len(Paths)
        /\ (b + n) - (b + 1) + 1 = n /\ b + 1 \in Int /\ b + n \in Int
    BY <1>0, <2>1
  <2>. HIDE DEF s
  <2>3. s \in Seq(GridPath) /\ Len(s) = n
    BY <1>0, <2>0, <2>1, <2>2, SubSeqProperties
  <2>4. \A k \in 1 .. n : s[k] = Paths[b + 1 + k - 1]
    BY <1>0, <2>0, <2>1, <2>2, SubSeqProperties
  <2>5. \A k \in 1 .. n : b + 1 + k - 1 = b + k
    BY <1>0
  <2>. QED  BY <2>3, <2>4, <2>5
<1>. HIDE DEF s
<1>3. ASSUME NEW k \in 1 .. n
      PROVE  s[k] \in GridPath /\ PathIndex(s[k]) = n * r + (k - 1) /\ RankOf(s[k]) = r
  <2>1. b + k \in 1 .. NumPaths /\ (b + k) - 1 = n * r + (k - 1) /\ k - 1 \in 0 .. n - 1
    BY <1>0
  <2>2. PathIndex(s[k]) = n * r + (k - 1)
    BY <1>2, <2>1, PathsAre
  <2>3. (n * r + (k - 1)) \div n = r
    BY <1>0, <2>1, QuotientIs
  <2>. QED  BY <1>2, <2>2, <2>3 DEF RankOf, n
<1>4. NoRepeats(s)
  <2>1. ASSUME NEW i \in 1 .. n, NEW j \in 1 .. n, s[i] = s[j] PROVE i = j
    <3>1. n * r + (i - 1) = n * r + (j - 1)
      BY <1>3, <2>1
    <3>2. n * r \in Nat
      BY <1>0, Products
    <3>. QED  BY <3>1, <3>2
  <2>. QED  BY <1>2, <2>1 DEF NoRepeats
<1>5. ASSUME NEW p \in GridPath, RankOf(p) = r PROVE p \in ToSet(s)
  <2>. DEFINE i == PathIndex(p)
              m == i % n
  <2>1. i \in PathNumber /\ p = PathFromIndex(i) /\ i \in Nat
    BY PathsAre DEF PathNumber
  <2>2. i \div n = r
    BY <1>5 DEF RankOf, n
  <2>. HIDE DEF i
  <2>3. m \in 0 .. n - 1 /\ i = n * r + m
    BY <1>0, <2>1, <2>2, DivisionIs
  <2>. HIDE DEF m
  <2>4. m + 1 \in 1 .. n /\ b + (m + 1) \in 1 .. NumPaths /\ (b + (m + 1)) - 1 = i
    BY <1>0, <2>3
  <2>5. s[m + 1] = p
    BY <1>2, <2>1, <2>4, PathsAre
  <2>. QED  BY <1>2, <2>4, <2>5 DEF ToSet
<1>6. ToSet(s) = {p \in GridPath : RankOf(p) = r}
  <2>1. ToSet(s) = {s[k] : k \in 1 .. n}
    BY <1>2 DEF ToSet
  <2>. QED  BY <1>3, <1>5, <2>1
<1>. QED  BY <1>1, <1>2, <1>4, <1>6

LEMMA OwnedIs == \A r \in Rank : ToSet(OwnedPaths[r]) = {p \in GridPath : RankOf(p) = r}
  BY OwnedSeq

LEMMA TrainedIs ==
  \A r \in Rank : /\ Trained[r] \in Seq(GridPath) /\ NoRepeats(Trained[r])
                  /\ ToSet(Trained[r]) = {p \in GridPath : RankOf(p) = r /\ Tokens[p] > 0}
<1>. SUFFICES ASSUME NEW r \in Rank
              PROVE  /\ Trained[r] \in Seq(GridPath) /\ NoRepeats(Trained[r])
                     /\ ToSet(Trained[r]) = {p \in GridPath : RankOf(p) = r /\ Tokens[p] > 0}
  OBVIOUS
<1>1. Trained[r] = Among(OwnedPaths[r], {p \in GridPath : Tokens[p] > 0})
  BY DEF Trained
<1>2. /\ OwnedPaths[r] \in Seq(GridPath) /\ NoRepeats(OwnedPaths[r])
      /\ ToSet(OwnedPaths[r]) = {p \in GridPath : RankOf(p) = r}
  BY OwnedSeq
<1>. QED  BY <1>1, <1>2, AmongIs

LEMMA ThroughIs ==
  \A r \in Rank : \A key : /\ Through(r, key) \in Seq(GridPath) /\ NoRepeats(Through(r, key))
                  /\ ToSet(Through(r, key)) = {p \in ToSet(Trained[r]) : key \in KeysOf[p]}
<1>. SUFFICES ASSUME NEW r \in Rank, NEW key
              PROVE  /\ Through(r, key) \in Seq(GridPath) /\ NoRepeats(Through(r, key))
                     /\ ToSet(Through(r, key)) = {p \in ToSet(Trained[r]) : key \in KeysOf[p]}
  OBVIOUS
<1>1. Through(r, key) = Among(Trained[r], {p \in GridPath : key \in KeysOf[p]})
  BY DEF Through
<1>2. Trained[r] \in Seq(GridPath) /\ NoRepeats(Trained[r]) /\ ToSet(Trained[r]) \subseteq GridPath
  BY TrainedIs
<1>. QED  BY <1>1, <1>2, AmongIs
-----------------------------------------------------------------------------
(* Modules: the keys there are, and who shares them. *)

LEMMA CopiesAre ==
  ASSUME NEW i \in DOMAIN Segments
  PROVE  /\ Copies(i) \in Nat \ {0} /\ Copies(i) <= NumPaths
         /\ IsRouting(i) => Copies(i) = LevelSizes[LevelOf(i)]
<1>1. NumPaths \in Nat \ {0}
  BY PathsAre
<1>2. CASE IsRouting(i)
  <2>. DEFINE j == LevelOf(i)
  <2>1. j \in 1 .. Levels /\ LevelSizes[j] = Segments[i].experts /\ LevelSizes[j] \in Nat \ {0} /\ Levels \in Nat
    BY <1>2, LevelsAre
  <2>2. Copies(i) = LevelSizes[j]
    BY <1>2, <2>1 DEF Copies
  <2>. HIDE DEF j
  <2>3. /\ Completions[j - 1] = LevelSizes[j] * Completions[j] /\ Completions[j - 1] <= NumPaths
        /\ Completions[j] \in Nat \ {0} /\ Completions[j - 1] \in Nat
    <3>1. j \in 0 .. Levels /\ j - 1 \in 0 .. Levels
      BY <2>1
    <3>. QED  BY <2>1, <3>1, CompletionsAre DEF NumPaths
  <2>4. LevelSizes[j] <= Completions[j - 1]
    BY <2>1, <2>3, Products
  <2>. QED  BY <1>1, <2>1, <2>2, <2>3, <2>4 DEF j
<1>3. CASE ~IsRouting(i)
  BY <1>1, <1>3 DEF Copies
<1>. QED  BY <1>2, <1>3

\* ModuleKeys: of each segment, its copies.
LEMMA KeyIs ==
  /\ ModuleKeys \in Seq(Key) /\ NoRepeats(ModuleKeys)
  /\ \A key : key \in Key <=> \E i \in DOMAIN Segments : \E c \in 1 .. Copies(i) : key = <<i, c - 1>>
<1>. DEFINE X == {<<i, c - 1>> : i \in DOMAIN Segments, c \in Nat}
            s == [i \in DOMAIN Segments |-> [c \in 1 .. Copies(i) |-> <<i, c - 1>>]]
<1>0. Len(Segments) \in Nat /\ DOMAIN Segments = 1 .. Len(Segments)
  BY SegmentsAssumption
<1>1. ASSUME NEW i \in DOMAIN Segments
      PROVE  /\ s[i] \in Seq(X) /\ NoRepeats(s[i])
             /\ \A x : x \in ToSet(s[i]) <=> \E c \in 1 .. Copies(i) : x = <<i, c - 1>>
  <2>. DEFINE t == [c \in 1 .. Copies(i) |-> <<i, c - 1>>]
  <2>1. Copies(i) \in Nat
    BY CopiesAre
  <2>2. t \in [1 .. Copies(i) -> X]
    BY <2>1
  <2>3. t \in Seq(X)
    <3>. HIDE DEF t, X
    <3>. QED  BY <2>1, <2>2
  <2>4. NoRepeats(t)
    BY <2>1 DEF NoRepeats
  <2>5. \A x : x \in ToSet(t) <=> \E c \in 1 .. Copies(i) : x = <<i, c - 1>>
    BY DEF ToSet
  <2>6. s[i] = t
    OBVIOUS
  <2>. HIDE DEF s, t, X
  <2>. QED  BY <2>3, <2>4, <2>5, <2>6
<1>2. s \in Seq(Seq(X)) /\ DOMAIN s = DOMAIN Segments
  <2>1. DOMAIN s = DOMAIN Segments
    OBVIOUS
  <2>2. s = [i \in DOMAIN s |-> s[i]]
    OBVIOUS
  <2>. HIDE DEF s, X
  <2>3. s \in [1 .. Len(Segments) -> Seq(X)]
    BY <1>0, <1>1, <2>1, <2>2
  <2>. QED  BY <1>0, <2>1, <2>3
<1>3. ModuleKeys = FlattenSeq(s)
  BY DEF ModuleKeys
<1>. HIDE DEF s, X
<1>4. Disjoint(s)
  <2>1. \A i, j \in DOMAIN Segments : i # j => ToSet(s[i]) \cap ToSet(s[j]) = {}
    <3>1. ASSUME NEW i \in DOMAIN Segments, NEW x \in ToSet(s[i]) PROVE x[1] = i
      <4>1. PICK c \in 1 .. Copies(i) : x = <<i, c - 1>>
        BY <1>1, <3>1
      <4>. QED  BY <4>1
    <3>. QED  BY <3>1
  <2>. QED  BY <1>1, <1>2, <2>1 DEF Disjoint
<1>5. /\ ModuleKeys \in Seq(X) /\ NoRepeats(ModuleKeys)
      /\ \A x : x \in Key <=> \E i \in DOMAIN Segments : x \in ToSet(s[i])
  BY <1>2, <1>3, <1>4, FlattenSets DEF Key
<1>6. ModuleKeys \in Seq(Key)
  <2>1. \A k \in 1 .. Len(ModuleKeys) : ModuleKeys[k] \in Key
    BY <1>5 DEF Key, ToSet
  <2>2. ModuleKeys \in [1 .. Len(ModuleKeys) -> X] /\ Len(ModuleKeys) \in Nat
    BY <1>5
  <2>3. ModuleKeys \in [1 .. Len(ModuleKeys) -> Key]
    BY <2>1, <2>2
  <2>. QED  BY <2>2, <2>3
<1>. QED  BY <1>1, <1>5, <1>6

LEMMA WalkIs == ModuleKeys \in Seq(Key) /\ NoRepeats(ModuleKeys)
  BY KeyIs

\* The module a path uses in a segment is one of the segment's copies, and there is
\* one such: a key is the path's if it is the one of its segment.
LEMMA PathKeys ==
  ASSUME NEW p \in GridPath
  PROVE  /\ KeysOf[p] \subseteq Key
         /\ \A key \in Key : /\ key[1] \in DOMAIN Segments
                             /\ key \in KeysOf[p] <=> key = SegmentKey(key[1], p)
<1>1. KeysOf[p] = {SegmentKey(i, p) : i \in DOMAIN Segments}
  BY DEF KeysOf, PathModuleKeys, ToSet
<1>2. ASSUME NEW i \in DOMAIN Segments PROVE SegmentKey(i, p) \in Key /\ SegmentKey(i, p)[1] = i
  <2>1. PathIndex(p) \in 0 .. NumPaths - 1 /\ NumPaths \in Nat \ {0} /\ p = PathFromIndex(PathIndex(p))
    BY PathsAre DEF PathNumber
  <2>. DEFINE d == IF IsRouting(i) THEN p[LevelOf(i)] ELSE IF IsPrivate(<<i>>) THEN PathIndex(p) ELSE 0
  <2>2. SegmentKey(i, p) = <<i, d>>
    BY DEF SegmentKey
  <2>3. d \in 0 .. Copies(i) - 1 /\ Copies(i) \in Nat
    <3>1. CASE IsRouting(i)
      <4>1. Copies(i) = LevelSizes[LevelOf(i)] /\ LevelOf(i) \in 1 .. Levels /\ Copies(i) \in Nat
        BY <3>1, LevelsAre, CopiesAre
      <4>2. p[LevelOf(i)] \in 0 .. LevelSizes[LevelOf(i)] - 1
        BY <2>1, <4>1, DigitsAre DEF PathNumber
      <4>. QED  BY <3>1, <4>1, <4>2
    <3>2. CASE ~IsRouting(i) /\ IsPrivate(<<i>>)
      <4>1. Copies(i) = NumPaths /\ d = PathIndex(p)
        BY <3>2 DEF Copies
      <4>. QED  BY <2>1, <4>1
    <3>3. CASE ~IsRouting(i) /\ ~IsPrivate(<<i>>)
      <4>1. Copies(i) = 1 /\ d = 0
        BY <3>3 DEF Copies
      <4>. QED  BY <4>1
    <3>. QED  BY <3>1, <3>2, <3>3
  <2>. HIDE DEF d
  <2>4. d + 1 \in 1 .. Copies(i) /\ (d + 1) - 1 = d
    BY <2>3
  <2>5. <<i, d>> \in Key
    BY <2>4, KeyIs
  <2>. QED  BY <2>2, <2>5
<1>3. ASSUME NEW key \in Key PROVE key[1] \in DOMAIN Segments
  <2>1. PICK i \in DOMAIN Segments : \E c \in 1 .. Copies(i) : key = <<i, c - 1>>
    BY KeyIs
  <2>. QED  BY <2>1
<1>4. ASSUME NEW key \in Key, key \in KeysOf[p] PROVE key = SegmentKey(key[1], p)
  BY <1>1, <1>2, <1>4
<1>5. ASSUME NEW key \in Key, key = SegmentKey(key[1], p) PROVE key \in KeysOf[p]
  BY <1>1, <1>3, <1>5
<1>. QED  BY <1>1, <1>2, <1>3, <1>4, <1>5

LEMMA KeysAre == \A p \in GridPath : KeysOf[p] \subseteq Key
  BY PathKeys

\* Whose module a key is, by the kind of its segment.
LEMMA UsersAre ==
  ASSUME NEW key \in Key, NEW p \in GridPath
  PROVE  /\ IsPrivate(key) => (key \in KeysOf[p] <=> PathIndex(p) = key[2])
         /\ IsRouting(key[1]) => (key \in KeysOf[p] <=> p[LevelOf(key[1])] = key[2])
         /\ ~IsPrivate(key) /\ ~IsRouting(key[1]) => key \in KeysOf[p] /\ key[2] = 0
<1>0. PICK i \in DOMAIN Segments : \E c \in 1 .. Copies(i) : key = <<i, c - 1>>
  BY KeyIs
<1>1. PICK c \in 1 .. Copies(i) : key = <<i, c - 1>>
  BY <1>0
<1>2. key[1] = i /\ key[2] = c - 1
  BY <1>1
<1>3. key \in KeysOf[p] <=> key = SegmentKey(i, p)
  BY <1>2, PathKeys
<1>4. IsPrivate(key) <=> IsPrivate(<<i>>)
  BY <1>2 DEF IsPrivate
<1>. DEFINE d == IF IsRouting(i) THEN p[LevelOf(i)] ELSE IF IsPrivate(<<i>>) THEN PathIndex(p) ELSE 0
<1>5. SegmentKey(i, p) = <<i, d>>
  BY DEF SegmentKey
<1>6. key \in KeysOf[p] <=> d = key[2]
  <2>. HIDE DEF d
  <2>. QED  BY <1>1, <1>2, <1>3, <1>5
<1>7. IsPrivate(key) => ~IsRouting(i)
  BY <1>2 DEF IsPrivate
<1>8. ~IsPrivate(key) /\ ~IsRouting(i) => key[2] = 0
  <2>. SUFFICES ASSUME ~IsPrivate(key), ~IsRouting(i) PROVE key[2] = 0
    OBVIOUS
  <2>1. Copies(i) = 1
    BY <1>4 DEF Copies
  <2>. QED  BY <1>2, <2>1
<1>. QED  BY <1>2, <1>4, <1>6, <1>7, <1>8

LEMMA PrivateIs ==
  \A key \in Key : IsPrivate(key) =>
    \A p, q \in GridPath : key \in KeysOf[p] /\ key \in KeysOf[q] => p = q
<1>. SUFFICES ASSUME NEW key \in Key, IsPrivate(key), NEW p \in GridPath, NEW q \in GridPath,
                     key \in KeysOf[p], key \in KeysOf[q]
              PROVE  p = q
  OBVIOUS
<1>1. PathIndex(p) = key[2] /\ PathIndex(q) = key[2]
  BY UsersAre
<1>2. p = PathFromIndex(PathIndex(p)) /\ q = PathFromIndex(PathIndex(q))
  BY PathsAre
<1>. QED  BY <1>1, <1>2

\* PathsThrough: the paths with the key; every key is some path's.
LEMMA ThroughKey ==
  ASSUME NEW key \in Key
  PROVE  /\ PathsThrough(key) = {p \in GridPath : key \in KeysOf[p]}
         /\ PathsThrough(key) # {}
<1>0. PICK i \in DOMAIN Segments : \E c \in 1 .. Copies(i) : key = <<i, c - 1>>
  BY KeyIs
<1>1. PICK c \in 1 .. Copies(i) : key = <<i, c - 1>>
  BY <1>0
<1>. DEFINE d == c - 1
<1>2. /\ key[1] = i /\ key[2] = d /\ d \in Nat /\ d < Copies(i) /\ Copies(i) <= NumPaths
      /\ NumPaths \in Nat \ {0} /\ Copies(i) \in Nat
  BY <1>1, CopiesAre, PathsAre
<1>. HIDE DEF d
<1>3. CASE IsPrivate(key)
  <2>1. PathsThrough(key) = {PathFromIndex(d)}
    BY <1>2, <1>3 DEF PathsThrough
  <2>2. d \in PathNumber
    BY <1>2 DEF PathNumber
  <2>3. PathFromIndex(d) \in GridPath /\ PathIndex(PathFromIndex(d)) = d
    BY <2>2, PathsAre, DigitsAre
  <2>4. \A p \in GridPath : PathIndex(p) = d => p = PathFromIndex(d)
    BY PathsAre
  <2>5. \A p \in GridPath : key \in KeysOf[p] <=> PathIndex(p) = d
    BY <1>2, <1>3, UsersAre
  <2>. QED  BY <2>1, <2>3, <2>4, <2>5
<1>4. CASE IsRouting(i)
  <2>. DEFINE j == LevelOf(i)
              n == LevelSizes[j]
              k == Completions[j]
  <2>1. /\ j \in 1 .. Levels /\ Levels \in Nat /\ n = Copies(i) /\ n \in Nat \ {0} /\ k \in Nat \ {0}
        /\ Completions[j - 1] = n * k /\ Completions[j - 1] <= NumPaths /\ n * k \in Nat
    <3>1. j \in 1 .. Levels /\ Levels \in Nat /\ n = Copies(i) /\ n \in Nat \ {0}
      BY <1>4, LevelsAre, CopiesAre
    <3>2. j \in 0 .. Levels /\ j - 1 \in 0 .. Levels
      BY <3>1
    <3>. QED  BY <3>1, <3>2, CompletionsAre, Products DEF NumPaths
  <2>2. PathsThrough(key) = {p \in GridPath : key \in KeysOf[p]}
    <3>1. ~IsPrivate(key)
      BY <1>2, <1>4 DEF IsPrivate
    <3>2. PathsThrough(key) = {p \in GridPath : p[j] = d}
      BY <1>2, <1>4, <3>1 DEF PathsThrough
    <3>. QED  BY <1>2, <1>4, <3>2, UsersAre
  <2>. HIDE DEF j, n, k
  <2>3. k * d \in PathNumber /\ (k * d) \div k = d /\ d % n = d
    <3>1. k * d \in Nat /\ n * k = k * n /\ k * d + 0 = k * d
      BY <1>2, <2>1, Products
    <3>2. k * d + k <= k * n
      BY <1>2, <2>1, MoreTimes
    <3>3. (k * d + 0) \div k = d
      BY <1>2, <2>1, QuotientIs
    <3>4. d % n = d
      <4>1. \A x, m \in Nat : x < m => x % m = x
        OBVIOUS
      <4>. QED  BY <1>2, <2>1, <4>1
    <3>5. k * d < NumPaths
      BY <1>2, <2>1, <3>1, <3>2
    <3>. QED  BY <1>2, <3>1, <3>3, <3>4, <3>5 DEF PathNumber
  <2>4. PathFromIndex(k * d)[j] = d /\ PathFromIndex(k * d) \in GridPath
    <3>1. j \in DOMAIN LevelSizes
      BY <2>1, LevelsAre
    <3>2. PathFromIndex(k * d)[j] = ((k * d) \div k) % n
      BY <3>1 DEF PathFromIndex, k, n
    <3>. QED  BY <2>3, <3>2, PathsAre
  <2>5. key \in KeysOf[PathFromIndex(k * d)]
    BY <1>2, <1>4, <2>4, UsersAre DEF j
  <2>. QED  BY <2>2, <2>4, <2>5
<1>5. CASE ~IsPrivate(key) /\ ~IsRouting(i)
  <2>1. PathsThrough(key) = GridPath /\ \A p \in GridPath : key \in KeysOf[p]
    BY <1>2, <1>5, UsersAre DEF PathsThrough
  <2>2. 0 \in PathNumber
    BY <1>2 DEF PathNumber
  <2>. QED  BY <2>1, <2>2, PathsAre
<1>. QED  BY <1>3, <1>4, <1>5

LEMMA MembersAre ==
  \A key \in Key : /\ Members[key] = {RankOf(p) : p \in {q \in GridPath : key \in KeysOf[q]}}
                   /\ GatherSource[key] \in Members[key]
<1>. SUFFICES ASSUME NEW key \in Key
              PROVE  /\ Members[key] = {RankOf(p) : p \in {q \in GridPath : key \in KeysOf[q]}}
                     /\ GatherSource[key] \in Members[key]
  OBVIOUS
<1>. DEFINE users == PathsThrough(key)
<1>1. users = {q \in GridPath : key \in KeysOf[q]} /\ users # {} /\ users \subseteq GridPath
  BY ThroughKey
<1>2. Members[key] = {r \in Rank : \E p \in users : RankOf(p) = r}
  BY DEF Members
<1>3. GatherSource[key] = RankOf(CHOOSE p \in users : \A q \in users : PathIndex(p) <= PathIndex(q))
  BY DEF GatherSource
<1>. HIDE DEF users
<1>4. Members[key] = {RankOf(p) : p \in users}
  BY <1>1, <1>2, RankIs
<1>5. \E p \in users : \A q \in users : PathIndex(p) <= PathIndex(q)
  <2>. DEFINE N == {PathIndex(p) : p \in users}
  <2>1. N \in SUBSET Nat /\ N # {}
    BY <1>1, PathsAre DEF PathNumber
  <2>. HIDE DEF N
  <2>2. PICK n \in N : \A m \in N : n <= m
    BY <2>1, LeastNumber
  <2>. QED  BY <2>2 DEF N
<1>6. (CHOOSE p \in users : \A q \in users : PathIndex(p) <= PathIndex(q)) \in users
  BY <1>5
<1>. QED  BY <1>1, <1>3, <1>4, <1>6

LEMMA WeightIs == \A key \in Key : \A p \in GridPath : OuterWeight(key, p) \in Nat
<1>. SUFFICES ASSUME NEW key \in Key, NEW p \in GridPath PROVE OuterWeight(key, p) \in Nat
  OBVIOUS
<1>1. PICK i \in DOMAIN Segments : key[1] = i
  BY PathKeys
<1>2. NumPaths \in Nat \ {0} /\ Copies(i) \in Nat \ {0} /\ Copies(i) <= NumPaths
  BY PathsAre, CopiesAre
<1>3. SharingCount(key) \in Nat \ {0}
  <2>1. CASE IsRouting(i) /\ ~IsPrivate(key)
    <3>. DEFINE n == Segments[i].experts
    <3>1. n = Copies(i)
      BY <2>1, LevelsAre, CopiesAre
    <3>2. SharingCount(key) = NumPaths \div n
      BY <1>1, <2>1 DEF SharingCount
    <3>. HIDE DEF n
    <3>. DEFINE q == NumPaths \div n
                m == NumPaths % n
    <3>3. q \in Nat /\ m \in 0 .. n - 1 /\ NumPaths = n * q + m
      BY <1>2, <3>1, DivisionIs
    <3>. HIDE DEF q, m
    <3>4. q # 0
      <4>1. n * 0 = 0
        BY <1>2, <3>1
      <4>. QED  BY <1>2, <3>1, <3>3, <4>1
    <3>. QED  BY <3>2, <3>3, <3>4 DEF q
  <2>2. CASE ~(IsRouting(i) /\ ~IsPrivate(key))
    BY <1>1, <1>2, <2>2 DEF SharingCount
  <2>. QED  BY <2>1, <2>2
<1>4. NumPaths \div SharingCount(key) \in Nat
  BY <1>2, <1>3, DivisionIs
<1>5. Tokens[p] \in Nat
  BY TrainingAssumption
<1>. QED  BY <1>4, <1>5 DEF OuterWeight

LEMMA OwnedKeysSeq ==
  ASSUME NEW r \in Rank
  PROVE  /\ OwnedKeys[r] \in Seq(Key) /\ NoRepeats(OwnedKeys[r])
         /\ ToSet(OwnedKeys[r]) = {key \in Key : r \in Members[key]}
<1>1. OwnedKeys[r] = Among(ModuleKeys, {key \in Key : r \in Members[key]})
  BY DEF OwnedKeys
<1>2. ModuleKeys \in Seq(Key) /\ NoRepeats(ModuleKeys) /\ ToSet(ModuleKeys) = Key
  BY WalkIs DEF Key
<1>. QED  BY <1>1, <1>2, AmongIs

LEMMA OwnedKeysAre ==
  \A r \in Rank : ToSet(OwnedKeys[r]) = {key \in Key : r \in Members[key]}
  BY OwnedKeysSeq

LEMMA SharedKeysAre ==
  \A r \in Rank :
    /\ SharedKeys[r] \in Seq(Key) /\ NoRepeats(SharedKeys[r])
    /\ ToSet(SharedKeys[r]) = {key \in Key : r \in Members[key] /\ ~IsPrivate(key)}
<1>. SUFFICES ASSUME NEW r \in Rank
              PROVE  /\ SharedKeys[r] \in Seq(Key) /\ NoRepeats(SharedKeys[r])
                     /\ ToSet(SharedKeys[r]) = {key \in Key : r \in Members[key] /\ ~IsPrivate(key)}
  OBVIOUS
<1>1. SharedKeys[r] = Among(OwnedKeys[r], {key \in Key : ~IsPrivate(key)})
  BY DEF SharedKeys
<1>2. /\ OwnedKeys[r] \in Seq(Key) /\ NoRepeats(OwnedKeys[r])
      /\ ToSet(OwnedKeys[r]) = {key \in Key : r \in Members[key]}
  BY OwnedKeysSeq
<1>. QED  BY <1>1, <1>2, AmongIs

-----------------------------------------------------------------------------
(* The invariant of the ranks. *)

\* What a path learns in the round after g others, what of it a shared module gets,
\* and a rank's part of what all paths give that module.
Learnt(p, g) == Gain(g * Len(Trained[RankOf(p)]) + Before[p], g)
Worth(key, p, g) == OuterWeight(key, p) * Learnt(p, g)
Part(r, key, g) ==
  [p \in GridPath |->
     IF p \in ToSet(Trained[r]) /\ key \in KeysOf[p] THEN Worth(key, p, g) ELSE 0]

\* A rank's share of the uninterrupted run after round g: its bank, its momentum,
\* its path models, its snapshots.
BankAt(r, g) == [key \in ToSet(OwnedKeys[r]) |-> Expected[g].bank[key]]
OuterAt(r, g) == [key \in ToSet(SharedKeys[r]) |-> Expected[g].outer[key]]
ModelsAt(r, g) == [p \in ToSet(OwnedPaths[r]) |-> ExpectedModel(p, g)]
Snapshot(p, i) == [loss |-> ValLoss[p][i], state |-> ExpectedModel(p, i)]
BestAt(r, g) == [p \in ToSet(OwnedPaths[r]) |-> Snapshot(p, BestRound(p, g))]

Counted(r, phases, drawn, g) ==
  /\ \A p \in ToSet(Trained[r]) : Seen(phases, p) = g
  /\ drawn = g * Len(Trained[r])
BestIs(r, b, g) == IF g = 0 THEN DOMAIN b = {} ELSE b = BestAt(r, g)

\* What a rank keeps of g rounds, in memory or in a file.
Kept(r, x, g) ==
  /\ x.bank = BankAt(r, g)
  /\ x.outer = OuterAt(r, g)
  /\ Counted(r, x.inner, x.draws, g)
  /\ BestIs(r, x.best, g)

\* All a rank holds, together.
Here(r) ==
  [pc |-> pc[r], at |-> at[r], groups |-> groups[r], bank |-> bank[r], outer |-> outer[r],
   work |-> work[r], inner |-> inner[r], draws |-> draws[r], best |-> best[r], round |-> round[r],
   acc |-> acc[r], full |-> full[r]]

\* Between two rounds.
Whole(r, x, m) ==
  /\ Kept(r, x, x.round)
  /\ IF m = "eager" THEN x.work = ModelsAt(r, x.round) ELSE DOMAIN x.work = {}

\* In a round, its paths trained: the private modules are a round ahead, and the
\* sums of the shared ones are the rank's, or where it has met its group, everyone's.
HalfBank(r, g) ==
  [key \in ToSet(OwnedKeys[r]) |-> Expected[IF IsPrivate(key) THEN g + 1 ELSE g].bank[key]]
HalfWork(r, w, g) ==
  /\ DOMAIN w = ToSet(OwnedPaths[r])
  /\ \A p \in ToSet(OwnedPaths[r]) :
       /\ DOMAIN w[p] = KeysOf[p]
       /\ \A key \in KeysOf[p] : IsPrivate(key) => w[p][key] = Expected[g + 1].bank[key]
SumsTo(r, a, n, g) ==
  /\ DOMAIN a = ToSet(SharedKeys[r])
  /\ \A k \in 1 .. Len(SharedKeys[r]) :
       LET key == SharedKeys[r][k] IN a[key].sum = IF k < n THEN Update[key][g] ELSE Part(r, key, g)
Half(r, x, m) ==
  /\ x.bank = HalfBank(r, x.round)
  /\ x.outer = OuterAt(r, x.round)
  /\ IF m = "eager" THEN HalfWork(r, x.work, x.round) ELSE DOMAIN x.work = {}
  /\ Counted(r, x.inner, x.draws, x.round + 1)
  /\ BestIs(r, x.best, x.round)
  /\ x.pc = "reduce" => x.at \in 1 .. Len(SharedKeys[r]) /\ SumsTo(r, x.acc, x.at, x.round)
  /\ x.pc = "outer" => SumsTo(r, x.acc, Len(SharedKeys[r]) + 1, x.round)

\* A walk over the keys, and the keys it has passed.
InWalk(n) == n \in Nat \ {0} /\ (Key # {} => n <= Len(ModuleKeys))
Walked(n) == {ModuleKeys[k] : k \in 1 .. n - 1}

Stand(r, x, m) ==
  /\ x.pc \in {"down", "build", "make"} => x.draws = 0 /\ DOMAIN x.best = {} /\ x.round = 0
  /\ x.pc = "down" => x.groups = {}
  /\ x.pc = "build" => InWalk(x.at) /\ x.groups = Walked(x.at)
  /\ x.pc \notin {"down", "build"} => x.groups = Key
  /\ x.pc \notin {"build", "reduce", "gather"} => x.at = 1
  /\ x.pc \in {"train", "save", "meta", "barrier", "gather", "done"} => Whole(r, x, m)
  /\ x.pc \in {"reduce", "outer"} => Half(r, x, m)
  /\ x.pc \in {"gather", "done"} => x.round = Rounds
  /\ x.pc \notin {"gather", "done"} => DOMAIN x.full = {}
  /\ x.pc = "gather" => InWalk(x.at) /\ DOMAIN x.full = Walked(x.at)
  /\ x.pc = "done" => DOMAIN x.full = Key
  /\ \A key \in DOMAIN x.full : x.full[key] = Expected[Rounds].bank[key]

DirsExact ==
  \A g \in 1 .. Rounds : \A r \in DOMAIN dirs[g].files : r \in Rank /\ Kept(r, dirs[g].files[r], g)

Domains ==
  /\ DOMAIN at = Rank /\ DOMAIN groups = Rank /\ DOMAIN bank = Rank /\ DOMAIN outer = Rank
  /\ DOMAIN work = Rank /\ DOMAIN inner = Rank /\ DOMAIN draws = Rank /\ DOMAIN best = Rank /\ DOMAIN acc = Rank
  /\ DOMAIN full = Rank

Running ==
  /\ Rounding /\ Domains
  /\ mode \in {"eager", "serial"}
  /\ \A r \in Rank : Stand(r, Here(r), mode)
  /\ DirsExact

-----------------------------------------------------------------------------
(* Vectors of counts, one for each path. *)

Vector == [GridPath -> Nat]

LEMMA VectorsAdd ==
  /\ Zero \in Vector
  /\ \A c, d \in Vector : Plus(c, d) \in Vector /\ \A p \in GridPath : Plus(c, d)[p] = c[p] + d[p]
  /\ \A c \in Vector : Plus(c, Zero) = c /\ Plus(Zero, c) = c
<1>1. Zero \in Vector
  BY DEF Zero, Vector
<1>2. ASSUME NEW c \in Vector, NEW d \in Vector
      PROVE  Plus(c, d) \in Vector /\ \A p \in GridPath : Plus(c, d)[p] = c[p] + d[p]
  <2>1. \A p \in GridPath : c[p] + d[p] \in Nat
    BY DEF Vector
  <2>. QED  BY <2>1 DEF Plus, Vector
<1>3. ASSUME NEW c \in Vector PROVE Plus(c, Zero) = c /\ Plus(Zero, c) = c
  <2>1. \A p \in GridPath : c[p] + 0 = c[p] /\ 0 + c[p] = c[p]
    BY DEF Vector
  <2>. QED  BY <2>1 DEF Plus, Zero, Vector
<1>. QED  BY <1>1, <1>2, <1>3

\* What a path learns is a number.
LEMMA LearntIs == \A p \in GridPath : \A g \in 0 .. Rounds : Learnt(p, g) \in Nat
<1>. SUFFICES ASSUME NEW p \in GridPath, NEW g \in 0 .. Rounds PROVE Learnt(p, g) \in Nat
  OBVIOUS
<1>. DEFINE seq == Trained[RankOf(p)]
            earlier == {q \in ToSet(seq) : PathIndex(q) < PathIndex(p)}
<1>1. seq \in Seq(GridPath)
  BY RankIs, TrainedIs
<1>. HIDE DEF seq
<1>2. IsFiniteSet(ToSet(seq))
  <2>1. Len(seq) \in Nat /\ DOMAIN seq = 1 .. Len(seq)
    BY <1>1
  <2>2. IsFiniteSet(1 .. Len(seq))
    BY <2>1, FS_Interval
  <2>3. seq \in Surjection(1 .. Len(seq), ToSet(seq))
    BY <1>1, <2>1 DEF Surjection, ToSet
  <2>. QED  BY <2>2, <2>3, FS_Surjection
<1>3. Cardinality(earlier) \in Nat
  BY <1>2, FS_Subset, FS_CardinalityType
<1>4. Before[p] = Cardinality(earlier)
  BY DEF Before, seq
<1>. HIDE DEF earlier
<1>5. Rounds \in Nat /\ g \in Nat /\ Len(seq) \in Nat
  BY <1>1, TrainingAssumption
<1>6. g * Len(seq) \in Nat
  BY <1>5, Products, Zenon
<1>. DEFINE m == g * Len(seq)
<1>7. Learnt(p, g) = m + Before[p] + g + 1
  BY DEF Learnt, Gain, seq
<1>. HIDE DEF m
<1>8. m \in Nat /\ Before[p] \in Nat
  BY <1>3, <1>4, <1>6 DEF m
<1>. QED  BY <1>5, <1>7, <1>8

\* What a round adds, and a rank's part, are vectors.
LEMMA UpdateIs ==
  ASSUME NEW key \in Key, NEW g \in 0 .. Rounds
  PROVE  /\ Update[key][g] \in Vector
         /\ \A r \in Rank : Part(r, key, g) \in Vector
         /\ \A p \in GridPath : Worth(key, p, g) \in Nat
         /\ \A p \in GridPath :
              Update[key][g][p] =
                IF Tokens[p] > 0 /\ key \in KeysOf[p]
                THEN IF IsPrivate(key) THEN Learnt(p, g) ELSE Worth(key, p, g) ELSE 0
<1>1. ASSUME NEW p \in GridPath PROVE Worth(key, p, g) \in Nat
  <2>1. OuterWeight(key, p) \in Nat /\ Learnt(p, g) \in Nat
    BY WeightIs, LearntIs
  <2>. QED  BY <2>1, Products, Zenon DEF Worth
<1>2. ASSUME NEW p \in GridPath PROVE 1 * Learnt(p, g) = Learnt(p, g)
  <2>1. Learnt(p, g) \in Nat
    BY LearntIs
  <2>. QED  BY <2>1
<1>. DEFINE u == Update[key][g]
<1>3. u = [p \in GridPath |->
             IF key \in KeysOf[p] /\ Tokens[p] > 0 THEN Share(key, p) * Learnt(p, g) ELSE 0]
  BY DEF Update, Learnt
<1>4. ASSUME NEW p \in GridPath
      PROVE  Share(key, p) * Learnt(p, g) = IF IsPrivate(key) THEN Learnt(p, g) ELSE Worth(key, p, g)
  <2>1. CASE IsPrivate(key)
    BY <1>2, <2>1, Zenon DEF Share
  <2>2. CASE ~IsPrivate(key)
    BY <2>2, Zenon DEF Share, Worth
  <2>. QED  BY <2>1, <2>2
<1>5. ASSUME NEW p \in GridPath
      PROVE  /\ u[p] \in Nat
             /\ u[p] = IF Tokens[p] > 0 /\ key \in KeysOf[p]
                       THEN IF IsPrivate(key) THEN Learnt(p, g) ELSE Worth(key, p, g) ELSE 0
  <2>. DEFINE a == Share(key, p) * Learnt(p, g)
  <2>1. u[p] = IF key \in KeysOf[p] /\ Tokens[p] > 0 THEN a ELSE 0
    BY <1>3
  <2>2. a = (IF IsPrivate(key) THEN Learnt(p, g) ELSE Worth(key, p, g)) /\ a \in Nat
    BY <1>1, <1>4, LearntIs, Zenon
  <2>. HIDE DEF a, u
  <2>. QED  BY <2>1, <2>2
<1>6. u \in Vector
  <2>1. u = [p \in GridPath |-> u[p]]
    BY <1>3
  <2>. HIDE DEF u
  <2>. QED  BY <1>5, <2>1 DEF Vector
<1>7. \A r \in Rank : Part(r, key, g) \in Vector
  BY <1>1 DEF Part, Vector
<1>. QED  BY <1>1, <1>5, <1>6, <1>7

\* The rounds of the uninterrupted run, one after the other.
Unbegun == [bank |-> [key \in Key |-> Zero], outer |-> [key \in Key |-> Zero]]
Momentum(x, i) ==
  [key \in Key |-> IF IsPrivate(key) THEN Zero ELSE Plus(x.outer[key], Update[key][i])]
RoundOn(x, i) ==
  [outer |-> Momentum(x, i),
   bank  |-> [key \in Key |-> Plus(Plus(x.bank[key], Update[key][i]), Momentum(x, i)[key])]]
Uninterrupted(e, n) ==
  e = [g \in 0 .. n |-> IF g = 0 THEN Unbegun ELSE RoundOn(e[g - 1], g - 1)]

LEMMA UninterruptedExists == \E e : Uninterrupted(e, Rounds)
<1>. DEFINE N == {n \in Nat : \E e : Uninterrupted(e, n)}
<1>1. 0 \in N
  <2>. DEFINE e == [g \in 0 .. 0 |-> Unbegun]
  <2>1. \A g \in 0 .. 0 : g = 0
    OBVIOUS
  <2>2. Uninterrupted(e, 0)
    BY <2>1 DEF Uninterrupted
  <2>. QED  BY <2>2
<1>2. ASSUME NEW n \in N PROVE n + 1 \in N
  <2>0. n \in Nat
    OBVIOUS
  <2>1. PICK e : Uninterrupted(e, n)
    OBVIOUS
  <2>. DEFINE f == [g \in 0 .. n + 1 |-> IF g = n + 1 THEN RoundOn(e[n], n) ELSE e[g]]
              h == [g \in 0 .. n + 1 |-> IF g = 0 THEN Unbegun ELSE RoundOn(f[g - 1], g - 1)]
  <2>. HIDE DEF N
  <2>2. ASSUME NEW g \in 0 .. n + 1 PROVE f[g] = h[g]
    <3>1. CASE g = n + 1
      <4>1. g # 0 /\ g - 1 = n /\ n \in 0 .. n + 1 /\ n # n + 1
        BY <2>0, <3>1
      <4>2. f[n] = e[n]
        BY <4>1
      <4>3. h[g] = RoundOn(f[n], n)
        BY <4>1
      <4>4. f[g] = RoundOn(e[n], n)
        BY <3>1
      <4>. HIDE DEF f, h
      <4>. QED  BY <4>2, <4>3, <4>4, Zenon
    <3>2. CASE g # n + 1
      <4>1. g \in 0 .. n /\ (g # 0 => g - 1 \in 0 .. n + 1 /\ g - 1 # n + 1)
        BY <2>0, <3>2
      <4>2. e[g] = IF g = 0 THEN Unbegun ELSE RoundOn(e[g - 1], g - 1)
        BY <2>1, <4>1 DEF Uninterrupted
      <4>3. f[g] = e[g] /\ (g # 0 => f[g - 1] = e[g - 1])
        BY <3>2, <4>1
      <4>4. h[g] = IF g = 0 THEN Unbegun ELSE RoundOn(f[g - 1], g - 1)
        OBVIOUS
      <4>. HIDE DEF f, h
      <4>. QED  BY <4>2, <4>3, <4>4, Zenon
    <3>. QED  BY <3>1, <3>2
  <2>3. f = h
    <3>1. f = [g \in 0 .. n + 1 |-> f[g]] /\ h = [g \in 0 .. n + 1 |-> h[g]]
      OBVIOUS
    <3>. HIDE DEF f, h
    <3>. QED  BY <2>2, <3>1, Zenon
  <2>4. Uninterrupted(f, n + 1)
    BY <2>3, Zenon DEF Uninterrupted
  <2>. QED  BY <2>0, <2>4 DEF N
<1>3. Rounds \in N
  <2>. HIDE DEF N
  <2>1. N \in SUBSET Nat
    BY DEF N
  <2>. QED  BY <1>1, <1>2, <2>1, CountUp, TrainingAssumption
<1>. QED  BY <1>3

\* The uninterrupted run begins with nothing; a round adds its update to a private
\* module, and to a shared one the momentum as well.
LEMMA ExpectedIs ==
  ASSUME NEW key \in Key
  PROVE  /\ \A g \in 0 .. Rounds : Expected[g].bank[key] \in Vector
         /\ Expected[0].bank[key] = Zero /\ Expected[0].outer[key] = Zero
         /\ \A g \in 0 .. Rounds : g < Rounds =>
              IF IsPrivate(key)
              THEN Expected[g + 1].bank[key] = Plus(Expected[g].bank[key], Update[key][g])
              ELSE /\ Expected[g + 1].outer[key] = Plus(Expected[g].outer[key], Update[key][g])
                   /\ Expected[g + 1].bank[key] =
                        Plus(Plus(Expected[g].bank[key], Update[key][g]), Expected[g + 1].outer[key])
<1>0. Rounds \in Nat
  BY TrainingAssumption
<1>1. \E e : Uninterrupted(e, Rounds)
  BY UninterruptedExists
<1>2. Uninterrupted(Expected, Rounds)
  <2>1. Expected = CHOOSE e : Uninterrupted(e, Rounds)
    BY Zenon DEF Expected, Uninterrupted, Unbegun, RoundOn, Momentum
  <2>. QED  BY <1>1, <2>1, Zenon
<1>3. ASSUME NEW g \in 0 .. Rounds
      PROVE  Expected[g] = IF g = 0 THEN Unbegun ELSE RoundOn(Expected[g - 1], g - 1)
  BY <1>2, Zenon DEF Uninterrupted
<1>4. /\ 0 \in 0 .. Rounds /\ Expected[0] = Unbegun
      /\ Expected[0].bank[key] = Zero /\ Expected[0].outer[key] = Zero
  <2>1. 0 \in 0 .. Rounds
    BY <1>0
  <2>2. Expected[0] = Unbegun
    BY <1>3, <2>1, Zenon
  <2>. QED  BY <2>1, <2>2 DEF Unbegun
<1>5. ASSUME NEW g \in 0 .. Rounds, g < Rounds
      PROVE  /\ Expected[g + 1].outer[key] =
                  IF IsPrivate(key) THEN Zero ELSE Plus(Expected[g].outer[key], Update[key][g])
             /\ Expected[g + 1].bank[key] =
                  Plus(Plus(Expected[g].bank[key], Update[key][g]), Expected[g + 1].outer[key])
  <2>1. g + 1 \in 0 .. Rounds /\ g + 1 # 0 /\ (g + 1) - 1 = g
    BY <1>0, <1>5
  <2>2. Expected[g + 1] = RoundOn(Expected[g], g)
    BY <1>3, <2>1, Zenon
  <2>. DEFINE x == Expected[g]
              y == Expected[g + 1]
  <2>. HIDE DEF x, y
  <2>3. y = RoundOn(x, g)
    BY <2>2 DEF x, y
  <2>4. y.outer = Momentum(x, g)
    BY <2>3 DEF RoundOn
  <2>5. y.bank = [k \in Key |-> Plus(Plus(x.bank[k], Update[k][g]), Momentum(x, g)[k])]
    BY <2>3 DEF RoundOn
  <2>6. y.outer[key] = IF IsPrivate(key) THEN Zero ELSE Plus(x.outer[key], Update[key][g])
    BY <2>4 DEF Momentum
  <2>7. y.bank[key] = Plus(Plus(x.bank[key], Update[key][g]), y.outer[key])
    BY <2>4, <2>5
  <2>. QED  BY <2>6, <2>7 DEF x, y
<1>6. \A g \in 0 .. Rounds : Expected[g].bank[key] \in Vector /\ Expected[g].outer[key] \in Vector
  <2>. DEFINE N == {n \in Nat : n <= Rounds =>
                      Expected[n].bank[key] \in Vector /\ Expected[n].outer[key] \in Vector}
  <2>1. 0 \in N
    BY <1>4, VectorsAdd
  <2>2. ASSUME NEW n \in N PROVE n + 1 \in N
    <3>. SUFFICES ASSUME n + 1 <= Rounds
                  PROVE  Expected[n + 1].bank[key] \in Vector /\ Expected[n + 1].outer[key] \in Vector
      OBVIOUS
    <3>1. n \in 0 .. Rounds /\ n < Rounds
      BY <1>0
    <3>2. Expected[n].bank[key] \in Vector /\ Expected[n].outer[key] \in Vector
      BY <1>0
    <3>. HIDE DEF N
    <3>3. Update[key][n] \in Vector
      BY <3>1, UpdateIs
    <3>4. Expected[n + 1].outer[key] \in Vector
      BY <1>5, <3>1, <3>2, <3>3, VectorsAdd
    <3>5. Plus(Expected[n].bank[key], Update[key][n]) \in Vector
      BY <3>2, <3>3, VectorsAdd
    <3>. QED  BY <1>5, <3>1, <3>4, <3>5, VectorsAdd
  <2>3. \A n \in Nat : n \in N
    <3>. HIDE DEF N
    <3>1. N \in SUBSET Nat
      BY DEF N
    <3>. QED  BY <2>1, <2>2, <3>1, CountUp
  <2>4. \A g \in 0 .. Rounds : g \in Nat /\ g <= Rounds
    BY <1>0
  <2>. QED  BY <2>3, <2>4
<1>7. ASSUME NEW g \in 0 .. Rounds, g < Rounds, IsPrivate(key)
      PROVE  Expected[g + 1].bank[key] = Plus(Expected[g].bank[key], Update[key][g])
  <2>1. Plus(Expected[g].bank[key], Update[key][g]) \in Vector
    BY <1>6, UpdateIs, VectorsAdd
  <2>2. Expected[g + 1].outer[key] = Zero
    BY <1>5, <1>7
  <2>. QED  BY <1>5, <1>7, <2>1, <2>2, VectorsAdd
<1>. QED  BY <1>4, <1>5, <1>6, <1>7

-----------------------------------------------------------------------------
(* Sums of vectors of which at most one is not zero at a place. *)

\* A set of finite sets that is not empty has one of which no smaller is in it.
LEMMA LeastSubset ==
  ASSUME NEW S, IsFiniteSet(S), NEW B \in SUBSET SUBSET S, B # {}
  PROVE  \E s \in B : \A x \in s : s \ {x} \notin B
<1>. DEFINE N == {Cardinality(s) : s \in B}
<1>0. \A s \in B : IsFiniteSet(s) /\ Cardinality(s) \in Nat
  BY FS_Subset, FS_CardinalityType
<1>1. N \in SUBSET Nat /\ N # {}
  BY <1>0
<1>. HIDE DEF N
<1>2. PICK n \in N : \A m \in N : n <= m
  BY <1>1, LeastNumber
<1>3. PICK s \in B : n = Cardinality(s)
  BY <1>2 DEF N
<1>4. ASSUME NEW x \in s PROVE s \ {x} \notin B
  <2>1. Cardinality(s \ {x}) = Cardinality(s) - 1
    BY <1>0, FS_RemoveElement
  <2>2. ASSUME s \ {x} \in B PROVE n <= n - 1
    <3>1. Cardinality(s \ {x}) \in N
      BY <2>2 DEF N
    <3>. QED  BY <1>2, <1>3, <2>1, <3>1
  <2>3. n \in Nat
    BY <1>0, <1>3
  <2>. QED  BY <2>2, <2>3
<1>. QED  BY <1>4

\* At every place at most one of the vectors is not zero.
Apart(f, S) ==
  /\ f \in [S -> Vector]
  /\ \A p \in GridPath : \A x, y \in S : f[x][p] # 0 /\ f[y][p] # 0 => x = y

\* Their sum.
Joined(f, s) ==
  [p \in GridPath |->
     IF \E x \in s : f[x][p] # 0 THEN f[CHOOSE x \in s : f[x][p] # 0][p] ELSE 0]

LEMMA JoinedAt ==
  ASSUME NEW S, NEW f, Apart(f, S), NEW s \in SUBSET S
  PROVE  /\ Joined(f, s) \in Vector
         /\ \A p \in GridPath : \A x \in s : f[x][p] # 0 => Joined(f, s)[p] = f[x][p]
         /\ \A p \in GridPath : (\A x \in s : f[x][p] = 0) => Joined(f, s)[p] = 0
<1>1. ASSUME NEW p \in GridPath, NEW x \in s, f[x][p] # 0
      PROVE  Joined(f, s)[p] = f[x][p]
  <2>. DEFINE y == CHOOSE z \in s : f[z][p] # 0
  <2>1. y \in s /\ f[y][p] # 0
    BY <1>1
  <2>2. Joined(f, s)[p] = f[y][p]
    BY <1>1 DEF Joined
  <2>. HIDE DEF y
  <2>3. x = y
    BY <1>1, <2>1 DEF Apart
  <2>. QED  BY <2>2, <2>3
<1>2. ASSUME NEW p \in GridPath, \A x \in s : f[x][p] = 0
      PROVE  Joined(f, s)[p] = 0
  BY <1>2 DEF Joined
<1>3. \A p \in GridPath : Joined(f, s)[p] \in Nat
  <2>1. \A x \in s : \A p \in GridPath : f[x][p] \in Nat
    BY DEF Apart, Vector
  <2>. QED  BY <1>1, <1>2, <2>1
<1>4. Joined(f, s) \in Vector
  <2>1. Joined(f, s) = [p \in GridPath |-> Joined(f, s)[p]]
    BY DEF Joined
  <2>. QED  BY <1>3, <2>1 DEF Vector
<1>. QED  BY <1>1, <1>2, <1>4

\* It is made by adding any of them to the sum of the others.
LEMMA JoinedStep ==
  ASSUME NEW S, NEW f, Apart(f, S), NEW s \in SUBSET S, NEW x \in s
  PROVE  /\ Joined(f, s) = Plus(f[x], Joined(f, s \ {x}))
         /\ Joined(f, s) = Plus(Joined(f, s \ {x}), f[x])
<1>. DEFINE J == Joined(f, s)
            K == Joined(f, s \ {x})
<1>0. s \ {x} \in SUBSET S /\ x \in S
  OBVIOUS
<1>1. J \in Vector /\ K \in Vector /\ f[x] \in Vector
  BY <1>0, JoinedAt DEF Apart
<1>2. \A p \in GridPath : J[p] = f[x][p] + K[p] /\ J[p] = K[p] + f[x][p]
  <2>. SUFFICES ASSUME NEW p \in GridPath PROVE J[p] = f[x][p] + K[p] /\ J[p] = K[p] + f[x][p]
    OBVIOUS
  <2>0. J[p] \in Nat /\ K[p] \in Nat /\ f[x][p] \in Nat
    BY <1>1 DEF Vector
  <2>1. CASE f[x][p] # 0
    <3>1. \A y \in s \ {x} : f[y][p] = 0
      BY <2>1, <1>0 DEF Apart
    <3>2. J[p] = f[x][p] /\ K[p] = 0
      BY <1>0, <2>1, <3>1, JoinedAt
    <3>. HIDE DEF J, K
    <3>. QED  BY <2>0, <3>2
  <2>2. CASE f[x][p] = 0
    <3>1. CASE \E y \in s : f[y][p] # 0
      <4>1. PICK y \in s : f[y][p] # 0
        BY <3>1
      <4>2. y \in s \ {x}
        BY <2>2, <4>1
      <4>3. J[p] = f[y][p] /\ K[p] = f[y][p]
        BY <1>0, <4>1, <4>2, JoinedAt
      <4>. HIDE DEF J, K
      <4>. QED  BY <2>0, <2>2, <4>3
    <3>2. CASE \A y \in s : f[y][p] = 0
      <4>1. J[p] = 0 /\ K[p] = 0
        BY <1>0, <3>2, JoinedAt
      <4>. HIDE DEF J, K
      <4>. QED  BY <2>0, <2>2, <4>1
    <3>. QED  BY <3>1, <3>2
  <2>. QED  BY <2>1, <2>2
<1>3. J = [p \in GridPath |-> J[p]]
  BY <1>1 DEF Vector
<1>. HIDE DEF J, K
<1>4. J = Plus(f[x], K) /\ J = Plus(K, f[x])
  BY <1>2, <1>3 DEF Plus
<1>. QED  BY <1>4 DEF J, K

\* g adds up the vectors of any subset, one after the other in some order.
AddsUp(g, f, S) ==
  \A s \in SUBSET S :
    /\ s = {} => g[s] = Zero
    /\ s # {} => \E x \in s : g[s] \in {Plus(f[x], g[s \ {x}]), Plus(g[s \ {x}], f[x])}

\* It then comes to their sum.
LEMMA AddedUp ==
  ASSUME NEW S, IsFiniteSet(S), NEW f, Apart(f, S), NEW g, AddsUp(g, f, S)
  PROVE  g[S] = Joined(f, S)
<1>. DEFINE B == {s \in SUBSET S : g[s] # Joined(f, s)}
<1>1. ASSUME B # {} PROVE FALSE
  <2>1. B \in SUBSET SUBSET S
    OBVIOUS
  <2>2. PICK s \in B : \A x \in s : s \ {x} \notin B
    <3>. HIDE DEF B
    <3>. QED  BY <1>1, <2>1, LeastSubset
  <2>3. s \in SUBSET S /\ g[s] # Joined(f, s) /\ \A x \in s : g[s \ {x}] = Joined(f, s \ {x})
    BY <2>2
  <2>4. Joined(f, {}) = Zero
    BY DEF Joined, Zero
  <2>5. s # {}
    BY <2>3, <2>4 DEF AddsUp
  <2>6. PICK x \in s : g[s] \in {Plus(f[x], g[s \ {x}]), Plus(g[s \ {x}], f[x])}
    BY <2>3, <2>5 DEF AddsUp
  <2>7. /\ Joined(f, s) = Plus(f[x], Joined(f, s \ {x}))
        /\ Joined(f, s) = Plus(Joined(f, s \ {x}), f[x])
    BY <2>3, JoinedStep
  <2>. QED  BY <2>3, <2>6, <2>7
<1>. QED  BY <1>1

-----------------------------------------------------------------------------
(* What a group adds up, and what a rank does. *)

Pick(s) == CHOOSE x \in s : TRUE

\* The table of the fold over a group.
GroupTable(g, f, S) ==
  g = [s \in SUBSET S |-> IF s = {} THEN Zero ELSE Plus(f[Pick(s)], g[s \ {Pick(s)}])]

\* If the ranks of a group hold their parts, they have the round's update together:
\* every path is a rank's, and no path two ranks'.
LEMMA GroupSumIs ==
  ASSUME NEW key \in Key, ~IsPrivate(key), NEW g \in 0 .. Rounds,
         \A r \in Members[key] : acc[r][key].sum = Part(r, key, g)
  PROVE  GroupSum(key).sum = Update[key][g]
<1>. DEFINE group == Members[key]
            f == [r \in group |-> acc[r][key].sum]
<1>0. group \in SUBSET Rank /\ IsFiniteSet(group)
  BY GridIs, FS_Subset DEF Members
<1>1. \A r \in group : \A p \in GridPath :
        f[r][p] = IF RankOf(p) = r /\ Tokens[p] > 0 /\ key \in KeysOf[p] THEN Worth(key, p, g) ELSE 0
  BY <1>0, TrainedIs DEF Part
<1>2. Apart(f, group)
  <2>1. \A r \in group : f[r] \in Vector
    BY <1>0, UpdateIs
  <2>. HIDE DEF f
  <2>2. f \in [group -> Vector]
    BY <2>1 DEF f
  <2>3. \A p \in GridPath : \A q, r \in group : f[q][p] # 0 /\ f[r][p] # 0 => q = r
    BY <1>1
  <2>. QED  BY <2>2, <2>3 DEF Apart
<1>3. \E h : GroupTable(h, f, group)
  <2>. DEFINE h == [s \in SUBSET group |-> Joined(f, s)]
  <2>1. \A s \in SUBSET group :
          Joined(f, s) = IF s = {} THEN Zero ELSE Plus(f[Pick(s)], h[s \ {Pick(s)}])
    <3>. SUFFICES ASSUME NEW s \in SUBSET group
                  PROVE  Joined(f, s) = IF s = {} THEN Zero ELSE Plus(f[Pick(s)], h[s \ {Pick(s)}])
      OBVIOUS
    <3>. HIDE DEF f
    <3>1. CASE s = {}
      BY <3>1 DEF Joined, Zero
    <3>2. CASE s # {}
      <4>1. Pick(s) \in s /\ s \ {Pick(s)} \in SUBSET group
        BY <3>2 DEF Pick
      <4>2. Joined(f, s) = Plus(f[Pick(s)], Joined(f, s \ {Pick(s)}))
        BY <1>2, <4>1, JoinedStep
      <4>. QED  BY <3>2, <4>1, <4>2
    <3>. QED  BY <3>1, <3>2
  <2>2. GroupTable(h, f, group)
    BY <2>1, Zenon DEF GroupTable
  <2>. QED  BY <2>2
<1>. DEFINE t == CHOOSE h : GroupTable(h, f, group)
<1>4. GroupSum(key).sum = t[group]
  BY DEF GroupSum, FoldFunctionOnSet, MapThenFoldSet, GroupTable, Pick
<1>5. GroupTable(t, f, group)
  BY <1>3, Zenon
<1>. HIDE DEF t
<1>6. AddsUp(t, f, group)
  <2>. SUFFICES ASSUME NEW s \in SUBSET group
                PROVE  /\ s = {} => t[s] = Zero
                       /\ s # {} => \E x \in s : t[s] \in {Plus(f[x], t[s \ {x}]), Plus(t[s \ {x}], f[x])}
    BY DEF AddsUp
  <2>1. t[s] = IF s = {} THEN Zero ELSE Plus(f[Pick(s)], t[s \ {Pick(s)}])
    BY <1>5 DEF GroupTable
  <2>2. s # {} => Pick(s) \in s
    BY DEF Pick
  <2>. HIDE DEF f
  <2>. QED  BY <2>1, <2>2
<1>7. t[group] = Joined(f, group)
  BY <1>0, <1>2, <1>6, AddedUp
<1>8. \A p \in GridPath : Joined(f, group)[p] = Update[key][g][p]
  <2>. SUFFICES ASSUME NEW p \in GridPath PROVE Joined(f, group)[p] = Update[key][g][p]
    OBVIOUS
  <2>1. /\ \A r \in group : f[r][p] # 0 => Joined(f, group)[p] = f[r][p]
        /\ (\A r \in group : f[r][p] = 0) => Joined(f, group)[p] = 0
    <3>. HIDE DEF f
    <3>. QED  BY <1>2, JoinedAt
  <2>2. key \in KeysOf[p] => RankOf(p) \in group
    BY MembersAre
  <2>3. Tokens[p] \in Nat
    BY TrainingAssumption
  <2>4. Update[key][g][p] = IF Tokens[p] > 0 /\ key \in KeysOf[p] THEN Worth(key, p, g) ELSE 0
    BY <2>3, UpdateIs
  <2>. HIDE DEF f, group
  <2>5. CASE Tokens[p] > 0 /\ key \in KeysOf[p] /\ Worth(key, p, g) # 0
    <3>1. f[RankOf(p)][p] = Worth(key, p, g)
      BY <1>1, <2>2, <2>5
    <3>. QED  BY <2>1, <2>2, <2>4, <2>5, <3>1
  <2>6. CASE ~(Tokens[p] > 0 /\ key \in KeysOf[p] /\ Worth(key, p, g) # 0)
    <3>1. \A r \in group : f[r][p] = 0
      BY <1>1, <2>6
    <3>. QED  BY <2>1, <2>4, <2>6, <3>1
  <2>. QED  BY <2>5, <2>6
<1>9. Joined(f, group) = [p \in GridPath |-> Joined(f, group)[p]]
  BY DEF Joined
<1>10. Update[key][g] = [p \in GridPath |-> Update[key][g][p]]
  BY UpdateIs DEF Vector
<1>. QED  BY <1>4, <1>7, <1>8, <1>9, <1>10

\* The largest of some of the numbers up to n is one of them.
LEMMA MaxIn ==
  ASSUME NEW n \in Nat, NEW s \in SUBSET (1 .. n), s # {}
  PROVE  Max(s) \in s
<1>. DEFINE N == {n - x : x \in s}
<1>1. N \in SUBSET Nat /\ N # {}
  OBVIOUS
<1>. HIDE DEF N
<1>2. PICK m \in N : \A k \in N : m <= k
  BY <1>1, LeastNumber
<1>3. PICK x \in s : m = n - x
  BY DEF N
<1>4. \A y \in s : x >= y
  <2>. SUFFICES ASSUME NEW y \in s PROVE x >= y
    OBVIOUS
  <2>1. n - x <= n - y
    BY <1>2, <1>3 DEF N
  <2>2. x \in Nat /\ y \in Nat
    OBVIOUS
  <2>. QED  BY <2>1, <2>2
<1>. QED  BY <1>4 DEF Max

Weighted(r, key, p) == Times(OuterWeight(key, p), Minus(Local(r, p)[key], bank[r][key]))

\* The table of the fold over a rank's paths.
PathsTable(g, r, key, seq) ==
  g = [s \in SUBSET DOMAIN seq |->
         IF s = {} THEN Zero ELSE Plus(g[s \ {Max(s)}], Weighted(r, key, seq[Max(s)]))]

\* One path's training, weighted.
One(key, p, g) == [q \in GridPath |-> IF q = p THEN Worth(key, p, g) ELSE 0]

\* If training a path adds what it learns to a module, the rank's sum is its part.
LEMMA LocalSumIs ==
  ASSUME NEW key \in Key, NEW r \in Rank, NEW g \in 0 .. Rounds,
         \A p \in ToSet(Through(r, key)) : Weighted(r, key, p) = One(key, p, g)
  PROVE  LocalSum(r, key).sum = Part(r, key, g)
<1>. DEFINE seq == Through(r, key)
            S == DOMAIN seq
            f == [i \in S |-> One(key, seq[i], g)]
<1>0. /\ Len(seq) \in Nat /\ S = 1 .. Len(seq) /\ IsFiniteSet(S)
      /\ \A i \in S : seq[i] \in GridPath /\ Weighted(r, key, seq[i]) = f[i]
      /\ \A i, j \in S : seq[i] = seq[j] => i = j
  <2>1. seq \in Seq(GridPath)
    BY ThroughIs
  <2>2. Len(seq) \in Nat /\ S = 1 .. Len(seq)
    BY <2>1
  <2>3. IsFiniteSet(S)
    BY <2>2, FS_Interval
  <2>4. \A i \in S : seq[i] \in GridPath /\ Weighted(r, key, seq[i]) = f[i]
    BY <2>1 DEF ToSet
  <2>5. \A i, j \in S : seq[i] = seq[j] => i = j
    BY ThroughIs DEF NoRepeats
  <2>. QED  BY <2>2, <2>3, <2>4, <2>5
<1>1. \A i \in S : \A p \in GridPath : f[i][p] = IF p = seq[i] THEN Worth(key, p, g) ELSE 0
  BY DEF One
<1>2. Apart(f, S)
  <2>1. ASSUME NEW i \in S PROVE One(key, seq[i], g) \in Vector
    <3>1. Worth(key, seq[i], g) \in Nat
      BY <1>0, UpdateIs
    <3>. HIDE DEF seq, S, f
    <3>. QED  BY <3>1 DEF One, Vector
  <2>2. f \in [S -> Vector]
    BY <2>1
  <2>. HIDE DEF f, S, seq
  <2>3. \A p \in GridPath : \A i, j \in S : f[i][p] # 0 /\ f[j][p] # 0 => i = j
    BY <1>0, <1>1
  <2>. QED  BY <2>2, <2>3 DEF Apart
<1>3. ASSUME NEW s \in SUBSET S, s # {}
      PROVE  /\ Max(s) \in s /\ s \ {Max(s)} \in SUBSET S
             /\ Weighted(r, key, seq[Max(s)]) = f[Max(s)]
  <2>. HIDE DEF S, f, seq
  <2>1. Max(s) \in s
    BY <1>0, <1>3, MaxIn
  <2>. QED  BY <1>0, <2>1
<1>4. \E t : PathsTable(t, r, key, seq)
  <2>. DEFINE e == [s \in SUBSET S |-> Joined(f, s)]
              h == [s \in SUBSET S |->
                      IF s = {} THEN Zero ELSE Plus(e[s \ {Max(s)}], Weighted(r, key, seq[Max(s)]))]
  <2>1. ASSUME NEW s \in SUBSET S PROVE e[s] = h[s]
    <3>. HIDE DEF f, S, seq
    <3>1. CASE s = {}
      BY <3>1 DEF Joined, Zero
    <3>2. CASE s # {}
      <4>1. Joined(f, s) = Plus(Joined(f, s \ {Max(s)}), f[Max(s)])
        BY <1>2, <1>3, <3>2, JoinedStep
      <4>. QED  BY <1>3, <3>2, <4>1
    <3>. QED  BY <3>1, <3>2
  <2>2. e = h
    <3>. HIDE DEF f, S, seq
    <3>1. e = [s \in SUBSET S |-> e[s]] /\ h = [s \in SUBSET S |-> h[s]]
      OBVIOUS
    <3>. HIDE DEF e, h
    <3>. QED  BY <2>1, <3>1
  <2>3. PathsTable(e, r, key, seq)
    BY <2>2, Zenon DEF PathsTable
  <2>. QED  BY <2>3
<1>. DEFINE t == CHOOSE h : PathsTable(h, r, key, seq)
<1>5. LocalSum(r, key).sum = t[S]
  BY DEF LocalSum, FoldLeft, MapThenFoldSet, PathsTable, Weighted
<1>6. PathsTable(t, r, key, seq)
  BY <1>4, Zenon
<1>. HIDE DEF t
<1>7. AddsUp(t, f, S)
  <2>1. \A s \in SUBSET S :
          t[s] = IF s = {} THEN Zero ELSE Plus(t[s \ {Max(s)}], Weighted(r, key, seq[Max(s)]))
    BY <1>6 DEF PathsTable
  <2>. HIDE DEF f, S, seq
  <2>. SUFFICES ASSUME NEW s \in SUBSET S
                PROVE  /\ s = {} => t[s] = Zero
                       /\ s # {} => \E x \in s : t[s] \in {Plus(f[x], t[s \ {x}]), Plus(t[s \ {x}], f[x])}
    BY DEF AddsUp
  <2>. QED  BY <1>3, <2>1
<1>8. t[S] = Joined(f, S)
  <2>. HIDE DEF f, S, seq
  <2>. QED  BY <1>0, <1>2, <1>7, AddedUp
<1>9. \A p \in GridPath : p \in ToSet(seq) <=> p \in ToSet(Trained[r]) /\ key \in KeysOf[p]
  BY ThroughIs
<1>10. ASSUME NEW p \in GridPath PROVE Joined(f, S)[p] = Part(r, key, g)[p]
  <2>1. /\ \A i \in S : f[i][p] # 0 => Joined(f, S)[p] = f[i][p]
        /\ (\A i \in S : f[i][p] = 0) => Joined(f, S)[p] = 0
    <3>. HIDE DEF f, S, seq
    <3>. QED  BY <1>2, JoinedAt
  <2>2. Part(r, key, g)[p] = IF p \in ToSet(seq) THEN Worth(key, p, g) ELSE 0
    BY <1>9 DEF Part
  <2>3. ToSet(seq) = {seq[i] : i \in S}
    BY DEF ToSet
  <2>. HIDE DEF f, S, seq
  <2>4. CASE p \in ToSet(seq) /\ Worth(key, p, g) # 0
    BY <1>1, <2>1, <2>2, <2>3, <2>4
  <2>5. CASE ~(p \in ToSet(seq) /\ Worth(key, p, g) # 0)
    <3>1. \A i \in S : f[i][p] = 0
      BY <1>1, <2>3, <2>5
    <3>. QED  BY <2>1, <2>2, <2>5, <3>1
  <2>. QED  BY <2>4, <2>5
<1>11. Joined(f, S) = [p \in GridPath |-> Joined(f, S)[p]]
  BY DEF Joined
<1>12. Part(r, key, g) = [p \in GridPath |-> Part(r, key, g)[p]]
  BY DEF Part
<1>. HIDE DEF f, S, seq
<1>13. Joined(f, S) = Part(r, key, g)
  BY <1>10, <1>11, <1>12
<1>. QED  BY <1>5, <1>8, <1>13

-----------------------------------------------------------------------------
(* Snapshots: the best round so far. *)

IsBest(p, g, i) ==
  /\ i \in 1 .. g
  /\ \A j \in 1 .. g : \/ ValLoss[p][i] < ValLoss[p][j]
                       \/ ValLoss[p][i] = ValLoss[p][j] /\ i <= j

\* There is one best round of any number of rounds.
LEMMA BestRoundIs ==
  ASSUME NEW p \in GridPath, NEW g \in 1 .. Rounds
  PROVE  /\ IsBest(p, g, BestRound(p, g))
         /\ \A i : IsBest(p, g, i) => i = BestRound(p, g)
<1>0. Rounds \in Nat /\ \A i \in 1 .. g : ValLoss[p][i] \in Nat
  BY TrainingAssumption
<1>. DEFINE N == {ValLoss[p][i] : i \in 1 .. g}
<1>1. N \in SUBSET Nat /\ N # {}
  BY <1>0
<1>. HIDE DEF N
<1>2. PICK m \in N : \A n \in N : m <= n
  BY <1>1, LeastNumber
<1>. DEFINE L == {i \in 1 .. g : ValLoss[p][i] = m}
<1>3. L \in SUBSET Nat /\ L # {}
  BY <1>0, <1>2 DEF N
<1>. HIDE DEF L
<1>4. PICK i \in L : \A j \in L : i <= j
  BY <1>3, LeastNumber
<1>5. i \in 1 .. g /\ ValLoss[p][i] = m /\ m \in Nat
  BY <1>1, <1>4 DEF L
<1>6. IsBest(p, g, i)
  <2>. SUFFICES ASSUME NEW j \in 1 .. g
                PROVE  \/ ValLoss[p][i] < ValLoss[p][j]
                       \/ ValLoss[p][i] = ValLoss[p][j] /\ i <= j
    BY <1>5 DEF IsBest
  <2>1. m <= ValLoss[p][j] /\ ValLoss[p][j] \in Nat
    BY <1>0, <1>2 DEF N
  <2>2. ValLoss[p][j] = m => i <= j
    BY <1>4 DEF L
  <2>. QED  BY <1>5, <2>1, <2>2
<1>7. ASSUME NEW k, IsBest(p, g, k) PROVE k = i
  <2>1. k \in 1 .. g /\ ValLoss[p][k] \in Nat /\ ValLoss[p][i] \in Nat
    BY <1>0, <1>5, <1>7 DEF IsBest
  <2>2. /\ ValLoss[p][i] < ValLoss[p][k] \/ (ValLoss[p][i] = ValLoss[p][k] /\ i <= k)
        /\ ValLoss[p][k] < ValLoss[p][i] \/ (ValLoss[p][i] = ValLoss[p][k] /\ k <= i)
    BY <1>5, <1>6, <1>7, <2>1 DEF IsBest
  <2>. QED  BY <1>5, <2>1, <2>2
<1>8. BestRound(p, g) = CHOOSE k : IsBest(p, g, k)
  BY DEF BestRound, IsBest
<1>9. IsBest(p, g, BestRound(p, g))
  BY <1>6, <1>8
<1>. QED  BY <1>7, <1>9

\* A further round is the best if its loss is lower than the best so far.
LEMMA BestRoundStep ==
  ASSUME NEW p \in GridPath, NEW g \in 0 .. Rounds, g < Rounds
  PROVE  BestRound(p, g + 1) =
           IF g > 0 /\ ValLoss[p][BestRound(p, g)] <= ValLoss[p][g + 1] THEN BestRound(p, g) ELSE g + 1
<1>. DEFINE b == BestRound(p, g)
<1>0. Rounds \in Nat /\ g \in Nat /\ g + 1 \in 1 .. Rounds /\ \A i \in 1 .. g + 1 : ValLoss[p][i] \in Nat
  BY TrainingAssumption
<1>1. \A i : IsBest(p, g + 1, i) => i = BestRound(p, g + 1)
  BY <1>0, BestRoundIs
<1>2. g > 0 => IsBest(p, g, b)
  BY <1>0, BestRoundIs
<1>. HIDE DEF b
<1>3. CASE g > 0 /\ ValLoss[p][b] <= ValLoss[p][g + 1]
  <2>1. IsBest(p, g + 1, b)
    <3>1. b \in 1 .. g /\ ValLoss[p][b] \in Nat /\ ValLoss[p][g + 1] \in Nat
      BY <1>0, <1>2, <1>3 DEF IsBest
    <3>2. \A j \in 1 .. g + 1 : j = g + 1 \/ j \in 1 .. g
      BY <1>0
    <3>. QED  BY <1>0, <1>2, <1>3, <3>1, <3>2 DEF IsBest
  <2>. QED  BY <1>1, <1>3, <2>1 DEF b
<1>4. CASE ~(g > 0 /\ ValLoss[p][b] <= ValLoss[p][g + 1])
  <2>1. IsBest(p, g + 1, g + 1)
    <3>1. \A j \in 1 .. g + 1 : j = g + 1 \/ (g > 0 /\ j \in 1 .. g)
      BY <1>0
    <3>2. ASSUME g > 0, NEW j \in 1 .. g PROVE ValLoss[p][g + 1] < ValLoss[p][j]
      <4>1. /\ b \in 1 .. g /\ ValLoss[p][b] \in Nat /\ ValLoss[p][g + 1] \in Nat /\ ValLoss[p][j] \in Nat
            /\ ValLoss[p][b] <= ValLoss[p][j]
        BY <1>0, <1>2, <3>2 DEF IsBest
      <4>. QED  BY <1>4, <3>2, <4>1
    <3>3. g + 1 \in 1 .. g + 1 /\ ValLoss[p][g + 1] \in Nat
      BY <1>0
    <3>. QED  BY <1>0, <3>1, <3>2, <3>3 DEF IsBest
  <2>. QED  BY <1>1, <1>4, <2>1 DEF b
<1>. QED  BY <1>3, <1>4 DEF b

-----------------------------------------------------------------------------
(* What a rank owns. *)

LEMMA RankOwns ==
  ASSUME NEW r \in Rank
  PROVE  /\ ToSet(Trained[r]) \subseteq ToSet(OwnedPaths[r])
         /\ ToSet(OwnedKeys[r]) \subseteq Key
         /\ \A p \in ToSet(OwnedPaths[r]) : p \in GridPath /\ KeysOf[p] \subseteq ToSet(OwnedKeys[r])
         /\ \A p \in ToSet(Trained[r]) : p \in GridPath /\ Tokens[p] > 0
         /\ Len(Trained[r]) \in Nat
<1>1. ToSet(OwnedPaths[r]) = {p \in GridPath : RankOf(p) = r}
  BY OwnedIs
<1>2. /\ Trained[r] \in Seq(GridPath)
      /\ ToSet(Trained[r]) = {p \in GridPath : RankOf(p) = r /\ Tokens[p] > 0}
  BY TrainedIs
<1>3. ToSet(OwnedKeys[r]) = {key \in Key : r \in Members[key]}
  BY OwnedKeysAre
<1>4. ASSUME NEW p \in ToSet(OwnedPaths[r]), NEW key \in KeysOf[p]
      PROVE  key \in ToSet(OwnedKeys[r])
  <2>1. p \in GridPath /\ RankOf(p) = r
    BY <1>1
  <2>2. key \in Key
    BY <2>1, KeysAre
  <2>3. r \in Members[key]
    BY <2>1, <2>2, MembersAre
  <2>. QED  BY <1>3, <2>2, <2>3
<1>5. Len(Trained[r]) \in Nat
  BY <1>2
<1>. QED  BY <1>1, <1>2, <1>3, <1>4, <1>5

\* The models built from a rank's exact bank are exact.
LEMMA ModelsFromBank ==
  ASSUME NEW r \in Rank, NEW g
  PROVE  /\ \A p \in ToSet(OwnedPaths[r]) : PathModel(BankAt(r, g), p) = ExpectedModel(p, g)
         /\ mode = "eager" => WorkOf(r, BankAt(r, g)) = ModelsAt(r, g)
         /\ mode # "eager" => DOMAIN WorkOf(r, BankAt(r, g)) = {}
<1>1. ASSUME NEW p \in ToSet(OwnedPaths[r])
      PROVE  PathModel(BankAt(r, g), p) = ExpectedModel(p, g)
  <2>1. \A key \in KeysOf[p] : BankAt(r, g)[key] = Expected[g].bank[key]
    BY RankOwns DEF BankAt
  <2>. QED  BY <2>1 DEF PathModel, ExpectedModel
<1>2. mode = "eager" => WorkOf(r, BankAt(r, g)) = ModelsAt(r, g)
  BY <1>1 DEF WorkOf, ModelsAt
<1>3. mode # "eager" => DOMAIN WorkOf(r, BankAt(r, g)) = {}
  BY DEF WorkOf
<1>. QED  BY <1>1, <1>2, <1>3

\* A walk starts at the first key and passes one after the other.
LEMMA Walking ==
  /\ InWalk(1) /\ Walked(1) = {}
  /\ \A n : InWalk(n) /\ Key # {} =>
       /\ n \in 1 .. Len(ModuleKeys)
       /\ n = Len(ModuleKeys) => Walked(n) \cup {ModuleKeys[n]} = Key
       /\ n # Len(ModuleKeys) => InWalk(n + 1) /\ Walked(n + 1) = Walked(n) \cup {ModuleKeys[n]}
<1>0. Len(ModuleKeys) \in Nat /\ DOMAIN ModuleKeys = 1 .. Len(ModuleKeys)
      /\ Key = {ModuleKeys[k] : k \in 1 .. Len(ModuleKeys)}
  BY WalkIs DEF Key, ToSet
<1>1. InWalk(1) /\ Walked(1) = {}
  BY <1>0 DEF InWalk, Walked
<1>2. ASSUME NEW n, InWalk(n), Key # {}
      PROVE  /\ n \in 1 .. Len(ModuleKeys)
             /\ n = Len(ModuleKeys) => Walked(n) \cup {ModuleKeys[n]} = Key
             /\ n # Len(ModuleKeys) => InWalk(n + 1) /\ Walked(n + 1) = Walked(n) \cup {ModuleKeys[n]}
  <2>1. n \in 1 .. Len(ModuleKeys)
    BY <1>0, <1>2 DEF InWalk
  <2>2. {ModuleKeys[k] : k \in 1 .. n} = Walked(n) \cup {ModuleKeys[n]}
    <3>1. \A k \in 1 .. n : k = n \/ k \in 1 .. n - 1
      BY <1>0, <2>1
    <3>2. n \in 1 .. n /\ \A k \in 1 .. n - 1 : k \in 1 .. n
      BY <1>0, <2>1
    <3>. QED  BY <3>1, <3>2 DEF Walked
  <2>0. Len(ModuleKeys) \in Nat /\ n \in Nat /\ n <= Len(ModuleKeys)
    BY <1>0, <2>1
  <2>3. n # Len(ModuleKeys) => InWalk(n + 1)
    BY <2>0 DEF InWalk
  <2>4. (n + 1) - 1 = n
    BY <2>0
  <2>5. Walked(n + 1) = {ModuleKeys[k] : k \in 1 .. n}
    BY <2>4, Zenon DEF Walked
  <2>6. n = Len(ModuleKeys) => {ModuleKeys[k] : k \in 1 .. n} = Key
    BY <1>0, Zenon
  <2>. QED  BY <2>1, <2>2, <2>3, <2>5, <2>6, Zenon
<1>. QED  BY <1>1, <1>2

\* Ranks that meet at a key are at the same place in the walk.
LEMMA MeetInStep ==
  ASSUME NEW key, NEW where \in {"build", "gather"}, Meet(Rank, where, key), Key # {},
         \A r \in Rank : InWalk(at[r])
  PROVE  \E n : n \in 1 .. Len(ModuleKeys) /\ ModuleKeys[n] = key /\ \A r \in Rank : at[r] = n
<1>0. 0 \in Rank
  BY TrainingAssumption DEF Rank
<1>1. \A r \in Rank : at[r] \in 1 .. Len(ModuleKeys) /\ ModuleKeys[at[r]] = key
  BY Walking DEF Meet, Awaits
<1>2. DOMAIN ModuleKeys = 1 .. Len(ModuleKeys)
  BY WalkIs
<1>3. \A r \in Rank : at[r] = at[0]
  BY <1>0, <1>1, <1>2, WalkIs DEF NoRepeats
<1>. QED  BY <1>0, <1>1, <1>3

-----------------------------------------------------------------------------
(* The steps. *)

\* A step of one rank.
LEMMA OneRankSteps ==
  ASSUME Running, Rounding', Domains', UNCHANGED mode, DirsExact', NEW r \in Rank,
         \A q \in Rank \ {r} : Here(q)' = Here(q), Stand(r, Here(r)', mode)
  PROVE  Running'
<1>1. \A q \in Rank : Stand(q, Here(q)', mode)
  BY DEF Running
<1>2. \A q \in Rank : Stand(q, Here(q), mode)'
  BY <1>1
<1>. QED  BY <1>2 DEF Running

LEMMA MakeEngineRuns ==
  ASSUME Running, Rounding', NEW r \in Rank, MakeEngine(r)
  PROVE  Running'
<1>0. /\ Domains /\ Rounding /\ mode \in {"eager", "serial"} /\ DirsExact /\ Stand(r, Here(r), mode)
      /\ DOMAIN pc = Rank /\ DOMAIN round = Rank
  BY DEF Running, Rounding
<1>1. /\ pc[r] = "make" /\ draws[r] = 0 /\ DOMAIN best[r] = {} /\ round[r] = 0
      /\ groups[r] = Key /\ at[r] = 1 /\ DOMAIN full[r] = {}
  BY <1>0 DEF Stand, Here, MakeEngine
<1>2. Domains' /\ \A q \in Rank \ {r} : Here(q)' = Here(q)
  BY <1>0 DEF MakeEngine, Domains, Here
<1>3. FreshBank(r) = BankAt(r, 0) /\ [key \in ToSet(SharedKeys[r]) |-> Zero] = OuterAt(r, 0)
  <2>1. \A key \in ToSet(OwnedKeys[r]) : Expected[0].bank[key] = Zero
    BY RankOwns, ExpectedIs
  <2>2. \A key \in ToSet(SharedKeys[r]) : Expected[0].outer[key] = Zero
    BY SharedKeysAre, ExpectedIs
  <2>. QED  BY <2>1, <2>2 DEF FreshBank, BankAt, OuterAt
<1>4. /\ bank'[r] = BankAt(r, 0) /\ outer'[r] = OuterAt(r, 0) /\ work'[r] = WorkOf(r, BankAt(r, 0))
      /\ inner'[r] = IF mode = "eager" THEN [p \in ToSet(OwnedPaths[r]) |-> 0] ELSE <<>>
      /\ pc'[r] \in {"train", "load"} /\ UNCHANGED <<at, groups, draws, best, round, full, dirs, mode>>
  BY <1>0, <1>3 DEF MakeEngine, Domains
<1>5. Counted(r, inner'[r], 0, 0)
  <2>1. \A p : Seen(inner'[r], p) = 0
    BY <1>4 DEF Seen
  <2>2. Len(Trained[r]) \in Nat
    BY RankOwns
  <2>. QED  BY <2>1, <2>2 DEF Counted
<1>6. IF mode = "eager" THEN work'[r] = ModelsAt(r, 0) ELSE DOMAIN work'[r] = {}
  BY <1>4, ModelsFromBank
<1>. DEFINE y == Here(r)'
<1>7. /\ y.pc = pc'[r] /\ y.at = 1 /\ y.groups = Key /\ y.bank = BankAt(r, 0) /\ y.outer = OuterAt(r, 0)
      /\ y.work = work'[r] /\ y.inner = inner'[r] /\ y.draws = 0 /\ DOMAIN y.best = {} /\ y.round = 0 /\ DOMAIN y.full = {}
  BY <1>1, <1>4 DEF Here
<1>. HIDE DEF y
<1>8. Whole(r, y, mode)
  BY <1>5, <1>6, <1>7 DEF Whole, Kept, BestIs
<1>9. Stand(r, y, mode)
  BY <1>4, <1>7, <1>8 DEF Stand
<1>10. DirsExact'
  BY <1>0, <1>4 DEF DirsExact
<1>. QED  BY <1>2, <1>4, <1>9, <1>10, OneRankSteps DEF y

LEMMA LoadCheckpointRuns ==
  ASSUME Running, Rounding', NEW r \in Rank, LoadCheckpoint(r)
  PROVE  Running'
<1>0. /\ Domains /\ Rounding /\ mode \in {"eager", "serial"} /\ DirsExact /\ Stand(r, Here(r), mode)
      /\ DOMAIN pc = Rank /\ DOMAIN round = Rank
  BY DEF Running, Rounding
<1>. DEFINE g == source
            state == dirs[source].files[r]
<1>1. /\ pc[r] = "load" /\ groups[r] = Key /\ at[r] = 1 /\ DOMAIN full[r] = {}
  BY <1>0 DEF Stand, Here, LoadCheckpoint
<1>2. Domains' /\ \A q \in Rank \ {r} : Here(q)' = Here(q)
  BY <1>0 DEF LoadCheckpoint, Domains, Here
<1>3. /\ Rounds \in Nat /\ g \in 1 .. Rounds /\ r \in DOMAIN dirs[g].files
      /\ Kept(r, state, g) /\ state.round = g
  <2>1. g \in 1 .. Rounds
    BY <1>0, <1>1, TrainingAssumption DEF Rounding
  <2>. QED  BY <1>0, <2>1, TrainingAssumption DEF LoadCheckpoint, DirsExact, Rounding, Files
<1>. HIDE DEF g
<1>4. /\ bank'[r] = state.bank /\ outer'[r] = state.outer /\ work'[r] = WorkOf(r, state.bank)
      /\ draws'[r] = state.draws
      /\ best'[r] = state.best /\ round'[r] = g /\ pc'[r] = AfterRound(g)
      /\ inner'[r] = IF mode = "serial" THEN state.inner
                     ELSE [p \in ToSet(OwnedPaths[r]) |-> Seen(state.inner, p)]
      /\ UNCHANGED <<at, groups, full, dirs, mode>>
  BY <1>0, <1>3 DEF LoadCheckpoint, Domains
<1>. HIDE DEF state
<1>5. Counted(r, inner'[r], state.draws, g)
  <2>1. ASSUME NEW p \in ToSet(Trained[r]) PROVE Seen(inner'[r], p) = Seen(state.inner, p)
    <3>1. p \in ToSet(OwnedPaths[r])
      BY RankOwns
    <3>2. CASE mode = "serial"
      BY <1>4, <3>2
    <3>3. CASE mode # "serial"
      <4>1. p \in DOMAIN inner'[r] /\ inner'[r][p] = Seen(state.inner, p)
        BY <1>4, <3>1, <3>3
      <4>. QED  BY <4>1 DEF Seen
    <3>. QED  BY <3>2, <3>3
  <2>. QED  BY <1>3, <2>1 DEF Kept, Counted
<1>6. state.bank = BankAt(r, g) /\ state.outer = OuterAt(r, g) /\ BestIs(r, state.best, g)
  BY <1>3 DEF Kept
<1>7. IF mode = "eager" THEN work'[r] = ModelsAt(r, g) ELSE DOMAIN work'[r] = {}
  BY <1>4, <1>6, ModelsFromBank
<1>. DEFINE y == Here(r)'
<1>8. /\ y.pc = AfterRound(g) /\ y.at = 1 /\ y.groups = Key /\ y.bank = BankAt(r, g) /\ y.outer = OuterAt(r, g)
      /\ y.work = work'[r] /\ y.inner = inner'[r] /\ y.draws = state.draws /\ y.best = state.best /\ y.round = g
      /\ DOMAIN y.full = {}
  BY <1>1, <1>4, <1>6 DEF Here
<1>. HIDE DEF y
<1>9. Whole(r, y, mode)
  BY <1>5, <1>6, <1>7, <1>8 DEF Whole, Kept
<1>10. Stand(r, y, mode)
  <2>1. AfterRound(g) = "train" \/ (AfterRound(g) = "gather" /\ g = Rounds)
    BY <1>3 DEF AfterRound
  <2>2. InWalk(1) /\ Walked(1) = {}
    BY Walking
  <2>. QED  BY <1>8, <1>9, <2>1, <2>2 DEF Stand
<1>11. DirsExact'
  BY <1>0, <1>4 DEF DirsExact
<1>. QED  BY <1>2, <1>4, <1>10, <1>11, OneRankSteps DEF y

\* All ranks down, with nothing in memory.
LEMMA AllDown ==
  ASSUME Running, Rounding', UNCHANGED <<mode, dirs>>, pc' = [r \in Rank |-> "down"], Wiped
  PROVE  Running'
<1>1. Domains'
  BY DEF Wiped, Domains
<1>2. ASSUME NEW r \in Rank PROVE Stand(r, Here(r), mode)'
  <2>. DEFINE y == Here(r)'
  <2>1. /\ y.pc = "down" /\ y.draws = 0 /\ DOMAIN y.best = {} /\ y.round = 0 /\ y.groups = {}
        /\ y.at = 1 /\ DOMAIN y.full = {}
    BY DEF Here, Wiped
  <2>. HIDE DEF y
  <2>2. Stand(r, y, mode')
    BY <2>1 DEF Stand
  <2>. QED  BY <2>2 DEF y
<1>3. DirsExact'
  BY DEF Running, DirsExact
<1>. QED  BY <1>1, <1>2, <1>3 DEF Running

LEMMA LaunchRuns ==
  ASSUME Running, Rounding', NEW g, NEW m \in {"eager", "serial"}, Launch(g, m)
  PROVE  Running'
<1>0. /\ Domains /\ Rounding /\ DirsExact /\ \A r \in Rank : Stand(r, Here(r), mode)
  BY DEF Running
<1>1. /\ \A r \in Rank : pc[r] = "down" /\ pc'[r] = "build"
      /\ mode' = m /\ UNCHANGED <<at, groups, acc, full, dirs, bank, outer, work, inner, draws, best, round>>
  BY DEF Launch, Up, engine
<1>2. ASSUME NEW r \in Rank PROVE Stand(r, Here(r), mode)'
  <2>. DEFINE x == Here(r)
              y == Here(r)'
  <2>1. /\ x.pc = "down" /\ y.pc = "build" /\ y.draws = x.draws /\ y.best = x.best /\ y.round = x.round
        /\ y.groups = x.groups /\ y.at = x.at /\ y.full = x.full
    BY <1>1 DEF Here
  <2>2. Stand(r, x, mode) /\ InWalk(1) /\ Walked(1) = {}
    BY <1>0, Walking
  <2>. HIDE DEF x, y
  <2>3. Stand(r, y, mode')
    BY <2>1, <2>2 DEF Stand
  <2>. QED  BY <2>3 DEF y
<1>3. Domains' /\ DirsExact'
  BY <1>0, <1>1 DEF Domains, DirsExact
<1>. QED  BY <1>1, <1>2, <1>3 DEF Running

LEMMA BuildGroupRuns ==
  ASSUME Running, Rounding', NEW key \in Key, BuildGroup(key)
  PROVE  Running'
<1>0. /\ Domains /\ Rounding /\ DirsExact /\ \A r \in Rank : Stand(r, Here(r), mode)
      /\ 0 \in Rank
  BY TrainingAssumption DEF Running, Rank
<1>1. /\ \A r \in Rank : pc[r] = "build" /\ groups'[r] = groups[r] \cup {key}
      /\ UNCHANGED <<mode, acc, full, dirs, bank, outer, work, inner, draws, best, round>>
  BY DEF BuildGroup, Meet, engine
<1>2. \A r \in Rank : InWalk(at[r]) /\ groups[r] = Walked(at[r])
  BY <1>0, <1>1 DEF Stand, Here
<1>3. PICK n : n \in 1 .. Len(ModuleKeys) /\ ModuleKeys[n] = key /\ \A r \in Rank : at[r] = n
  BY <1>2, MeetInStep DEF BuildGroup
<1>4. /\ n = Len(ModuleKeys) => Walked(n) \cup {key} = Key
      /\ n # Len(ModuleKeys) => InWalk(n + 1) /\ Walked(n + 1) = Walked(n) \cup {key}
  BY <1>0, <1>2, <1>3, Walking
<1>5. \A r \in Rank : /\ at'[r] = IF n = Len(ModuleKeys) THEN 1 ELSE n + 1
                      /\ pc'[r] = IF n = Len(ModuleKeys) THEN "make" ELSE "build"
  BY <1>0, <1>3 DEF BuildGroup
<1>6. ASSUME NEW r \in Rank PROVE Stand(r, Here(r), mode)'
  <2>. DEFINE x == Here(r)
              y == Here(r)'
  <2>1. /\ x.pc = "build" /\ y.pc = pc'[r] /\ y.draws = x.draws /\ y.best = x.best /\ y.round = x.round
        /\ y.groups = Walked(n) \cup {key} /\ y.at = at'[r] /\ y.full = x.full
    BY <1>1, <1>2, <1>3 DEF Here
  <2>2. Stand(r, x, mode)
    BY <1>0
  <2>. HIDE DEF x, y
  <2>3. CASE n = Len(ModuleKeys)
    <3>1. y.pc = "make" /\ y.at = 1 /\ y.groups = Key
      BY <1>4, <1>5, <2>1, <2>3
    <3>2. Stand(r, y, mode')
      BY <2>1, <2>2, <3>1 DEF Stand
    <3>. QED  BY <3>2 DEF y
  <2>4. CASE n # Len(ModuleKeys)
    <3>1. y.pc = "build" /\ y.at = n + 1 /\ y.groups = Walked(n + 1) /\ InWalk(n + 1)
      BY <1>4, <1>5, <2>1, <2>4
    <3>2. Stand(r, y, mode')
      BY <2>1, <2>2, <3>1 DEF Stand
    <3>. QED  BY <3>2 DEF y
  <2>. QED  BY <2>3, <2>4
<1>7. Domains'
  BY <1>0, <1>1 DEF Domains, BuildGroup
<1>8. DirsExact'
  BY <1>0, <1>1 DEF DirsExact
<1>. QED  BY <1>1, <1>6, <1>7, <1>8 DEF Running

\* Of a private module, only its path's training counts.
LEMMA PrivateAhead ==
  ASSUME NEW key \in Key, IsPrivate(key), NEW p \in GridPath, key \in KeysOf[p],
         NEW g \in 0 .. Rounds, g < Rounds
  PROVE  /\ Tokens[p] > 0 =>
              [Expected[g].bank[key] EXCEPT ![p] = @ + Learnt(p, g)] = Expected[g + 1].bank[key]
         /\ Tokens[p] = 0 => Expected[g].bank[key] = Expected[g + 1].bank[key]
<1>. DEFINE c == Expected[g].bank[key]
            d == Expected[g + 1].bank[key]
            u == Update[key][g]
            n == Learnt(p, g)
<1>1. c \in Vector /\ u \in Vector /\ d = Plus(c, u) /\ n \in Nat
  BY ExpectedIs, UpdateIs, LearntIs
<1>2. \A q \in GridPath : u[q] = IF q = p /\ Tokens[p] > 0 THEN n ELSE 0
  <2>1. \A q \in GridPath : key \in KeysOf[q] <=> q = p
    BY PrivateIs
  <2>2. \A q \in GridPath : u[q] = IF Tokens[q] > 0 /\ key \in KeysOf[q] THEN Learnt(q, g) ELSE 0
    BY UpdateIs, Zenon
  <2>. HIDE DEF u
  <2>. QED  BY <2>1, <2>2
<1>. HIDE DEF c, d, u, n
<1>3. c \in [GridPath -> Nat] /\ d = [q \in GridPath |-> c[q] + u[q]]
  BY <1>1 DEF Vector, Plus
<1>4. ASSUME Tokens[p] > 0 PROVE [c EXCEPT ![p] = @ + n] = d
  <2>1. \A q \in GridPath : c[q] + u[q] = IF q = p THEN c[q] + n ELSE c[q]
    BY <1>1, <1>2, <1>3, <1>4
  <2>. QED  BY <1>3, <2>1
<1>5. ASSUME Tokens[p] = 0 PROVE c = d
  <2>1. \A q \in GridPath : c[q] + u[q] = c[q]
    BY <1>2, <1>3, <1>5
  <2>. QED  BY <1>3, <2>1
<1>. QED  BY <1>4, <1>5 DEF c, d, n

\* A rank about to train, after g rounds.
ReadyAt(r, g) == g \in 0 .. Rounds /\ g < Rounds /\ round[r] = g /\ Whole(r, Here(r), mode)

\* Training a path adds what it learns to each of its modules.
LEMMA LocalIs ==
  ASSUME NEW r \in Rank, NEW g, ReadyAt(r, g), mode \in {"eager", "serial"}, NEW p \in ToSet(Trained[r])
  PROVE  /\ DOMAIN Local(r, p) = KeysOf[p]
         /\ \A key \in KeysOf[p] :
              Local(r, p)[key] = [Expected[g].bank[key] EXCEPT ![p] = @ + Learnt(p, g)]
<1>0. p \in ToSet(OwnedPaths[r]) /\ RankOf(p) = r
  BY RankOwns, TrainedIs
<1>1. /\ bank[r] = BankAt(r, g) /\ Counted(r, inner[r], draws[r], g)
      /\ mode = "eager" => work[r] = ModelsAt(r, g)
  BY DEF ReadyAt, Whole, Kept, Here
<1>2. (IF mode = "eager" THEN work[r][p] ELSE PathModel(bank[r], p)) = ExpectedModel(p, g)
  <2>1. mode = "eager" => work[r][p] = ExpectedModel(p, g)
    BY <1>0, <1>1 DEF ModelsAt
  <2>2. PathModel(bank[r], p) = ExpectedModel(p, g)
    BY <1>0, <1>1, ModelsFromBank
  <2>. QED  BY <2>1, <2>2
<1>3. \A key \in KeysOf[p] : ExpectedModel(p, g)[key] = Expected[g].bank[key]
  BY DEF ExpectedModel, PathModel
<1>4. Gain(draws[r] + Before[p], Seen(inner[r], p)) = Learnt(p, g)
  <2>1. draws[r] = g * Len(Trained[RankOf(p)]) /\ Seen(inner[r], p) = g
    BY <1>0, <1>1 DEF Counted
  <2>. QED  BY <2>1, Zenon DEF Learnt
<1>5. Local(r, p) = [key \in KeysOf[p] |-> [ExpectedModel(p, g)[key] EXCEPT ![p] = @ + Learnt(p, g)]]
  BY <1>2, <1>4 DEF Local
<1>. QED  BY <1>3, <1>5

\* Its pseudo-gradient is then what it learns.
LEMMA WeightedIs ==
  ASSUME NEW r \in Rank, NEW g, ReadyAt(r, g), mode \in {"eager", "serial"}, NEW p \in ToSet(Trained[r]),
         NEW key \in KeysOf[p]
  PROVE  Weighted(r, key, p) = One(key, p, g)
<1>1. p \in GridPath /\ key \in Key /\ key \in ToSet(OwnedKeys[r])
  BY RankOwns
<1>. DEFINE c == Expected[g].bank[key]
            w == OuterWeight(key, p)
            n == Learnt(p, g)
            l == [c EXCEPT ![p] = @ + n]
<1>2. c \in Vector /\ w \in Nat /\ n \in Nat
  BY <1>1, ExpectedIs, WeightIs, LearntIs DEF ReadyAt
<1>3. Local(r, p)[key] = l
  BY LocalIs
<1>4. bank[r][key] = c
  BY <1>1 DEF ReadyAt, Whole, Kept, Here, BankAt
<1>5. Worth(key, p, g) = w * n
  BY DEF Worth
<1>. HIDE DEF c, w, n
<1>6. ASSUME NEW q \in GridPath PROVE w * (l[q] - c[q]) = IF q = p THEN w * n ELSE 0
  <2>1. c[q] \in Nat /\ l[q] = IF q = p THEN c[q] + n ELSE c[q]
    BY <1>1, <1>2 DEF Vector
  <2>. HIDE DEF l
  <2>2. l[q] - c[q] = IF q = p THEN n ELSE 0
    BY <1>2, <2>1
  <2>3. w * 0 = 0
    BY <1>2
  <2>. QED  BY <2>2, <2>3, Zenon
<1>. HIDE DEF l
<1>7. Times(w, Minus(l, c)) = [q \in GridPath |-> IF q = p THEN w * n ELSE 0]
  <2>1. Minus(l, c) = [q \in GridPath |-> l[q] - c[q]]
    BY DEF Minus
  <2>2. \A q \in GridPath : w * Minus(l, c)[q] = IF q = p THEN w * n ELSE 0
    BY <1>6, <2>1, Zenon
  <2>. QED  BY <2>2, Zenon DEF Times
<1>. QED  BY <1>3, <1>4, <1>5, <1>7, Zenon DEF Weighted, One, w

\* The bank after training: private modules are a round ahead.
LEMMA TrainedBank ==
  ASSUME NEW r \in Rank, NEW g, ReadyAt(r, g), mode \in {"eager", "serial"}, groups[r] = Key,
         NEW key \in ToSet(OwnedKeys[r])
  PROVE  (IF IsPrivate(key) /\ Owns(r, key) /\ Through(r, key) # <<>>
          THEN Local(r, Last(Through(r, key)))[key] ELSE bank[r][key])
         = Expected[IF IsPrivate(key) THEN g + 1 ELSE g].bank[key]
<1>1. key \in Key /\ r \in Members[key] /\ bank[r][key] = Expected[g].bank[key]
  BY RankOwns, OwnedKeysAre DEF ReadyAt, Whole, Kept, Here, BankAt
<1>2. Owns(r, key)
  BY <1>1 DEF Owns
<1>3. Through(r, key) \in Seq(GridPath) /\ ToSet(Through(r, key)) = {p \in ToSet(Trained[r]) : key \in KeysOf[p]}
  BY ThroughIs
<1>4. CASE IsPrivate(key) /\ Through(r, key) # <<>>
  <2>. DEFINE p == Last(Through(r, key))
  <2>1. p \in ToSet(Through(r, key))
    <3>1. Len(Through(r, key)) \in DOMAIN Through(r, key)
      BY <1>3, <1>4, EmptySeq
    <3>. QED  BY <3>1 DEF Last, ToSet
  <2>2. p \in ToSet(Trained[r]) /\ key \in KeysOf[p]
    BY <1>3, <2>1
  <2>. HIDE DEF p
  <2>3. p \in GridPath /\ Tokens[p] > 0
    BY <2>2, RankOwns
  <2>4. Local(r, p)[key] = [Expected[g].bank[key] EXCEPT ![p] = @ + Learnt(p, g)]
    BY <2>2, LocalIs
  <2>5. [Expected[g].bank[key] EXCEPT ![p] = @ + Learnt(p, g)] = Expected[g + 1].bank[key]
    BY <1>1, <1>4, <2>2, <2>3, PrivateAhead DEF ReadyAt
  <2>. QED  BY <1>2, <1>4, <2>4, <2>5 DEF p
<1>5. CASE IsPrivate(key) /\ Through(r, key) = <<>>
  <2>1. PICK p \in GridPath : key \in KeysOf[p] /\ RankOf(p) = r
    BY <1>1, MembersAre
  <2>2. ToSet(Through(r, key)) = {}
    BY <1>5 DEF ToSet
  <2>3. p \notin ToSet(Trained[r])
    BY <1>3, <2>1, <2>2
  <2>4. Tokens[p] = 0
    BY <2>1, <2>3, TrainedIs, TrainingAssumption
  <2>5. g \in 0 .. Rounds /\ g < Rounds /\ IsPrivate(key)
    BY <1>5, Zenon DEF ReadyAt
  <2>6. p \in GridPath /\ key \in KeysOf[p] /\ key \in Key
    BY <1>1, <2>1
  <2>7. Tokens[p] = 0 => Expected[g].bank[key] = Expected[g + 1].bank[key]
    BY <2>5, <2>6, PrivateAhead
  <2>8. Expected[g].bank[key] = Expected[g + 1].bank[key]
    BY <2>4, <2>7, Zenon
  <2>9. (IF IsPrivate(key) /\ Owns(r, key) /\ Through(r, key) # <<>>
         THEN Local(r, Last(Through(r, key)))[key] ELSE bank[r][key]) = bank[r][key]
    BY <1>5, Zenon
  <2>10. Expected[IF IsPrivate(key) THEN g + 1 ELSE g].bank[key] = Expected[g + 1].bank[key]
    BY <1>5, Zenon
  <2>. QED  BY <1>1, <2>8, <2>9, <2>10, Zenon
<1>6. CASE ~IsPrivate(key)
  BY <1>1, <1>6
<1>. QED  BY <1>4, <1>5, <1>6

\* The path models after training.
LEMMA TrainedWork ==
  ASSUME NEW r \in Rank, NEW g, ReadyAt(r, g), mode = "eager",
         NEW w, w = [p \in DOMAIN work[r] |-> IF p \in ToSet(Trained[r]) THEN Local(r, p) ELSE work[r][p]]
  PROVE  HalfWork(r, w, g)
<1>1. work[r] = ModelsAt(r, g) /\ g \in 0 .. Rounds /\ g < Rounds
  BY DEF ReadyAt, Whole, Here
<1>2. DOMAIN w = ToSet(OwnedPaths[r])
  BY <1>1 DEF ModelsAt
<1>3. ASSUME NEW p \in ToSet(OwnedPaths[r])
      PROVE  /\ DOMAIN w[p] = KeysOf[p]
             /\ \A key \in KeysOf[p] : IsPrivate(key) => w[p][key] = Expected[g + 1].bank[key]
  <2>1. p \in GridPath /\ KeysOf[p] \subseteq Key
    BY RankOwns
  <2>2. w[p] = IF p \in ToSet(Trained[r]) THEN Local(r, p) ELSE work[r][p]
    BY <1>2
  <2>3. CASE p \in ToSet(Trained[r])
    <3>1. DOMAIN Local(r, p) = KeysOf[p]
      BY <2>3, LocalIs
    <3>2. Tokens[p] > 0
      BY <2>3, RankOwns
    <3>3. ASSUME NEW key \in KeysOf[p], IsPrivate(key)
          PROVE  Local(r, p)[key] = Expected[g + 1].bank[key]
      <4>1. Local(r, p)[key] = [Expected[g].bank[key] EXCEPT ![p] = @ + Learnt(p, g)]
        BY <2>3, LocalIs
      <4>2. [Expected[g].bank[key] EXCEPT ![p] = @ + Learnt(p, g)] = Expected[g + 1].bank[key]
        BY <1>1, <2>1, <3>2, <3>3, PrivateAhead
      <4>. QED  BY <4>1, <4>2
    <3>. QED  BY <2>2, <2>3, <3>1, <3>3
  <2>4. CASE p \notin ToSet(Trained[r])
    <3>1. w[p] = ExpectedModel(p, g)
      BY <1>1, <2>2, <2>4 DEF ModelsAt
    <3>2. Tokens[p] = 0
      BY <2>1, <2>4, OwnedIs, TrainedIs, TrainingAssumption
    <3>3. \A key \in KeysOf[p] : IsPrivate(key) => Expected[g].bank[key] = Expected[g + 1].bank[key]
      BY <1>1, <2>1, <3>2, PrivateAhead
    <3>4. DOMAIN w[p] = KeysOf[p] /\ \A key \in KeysOf[p] : w[p][key] = Expected[g].bank[key]
      BY <3>1 DEF ExpectedModel, PathModel
    <3>. QED  BY <3>3, <3>4
  <2>. QED  BY <2>3, <2>4
<1>. QED  BY <1>2, <1>3 DEF HalfWork

LEMMA TrainPathsRuns ==
  ASSUME Running, Rounding', NEW r \in Rank, TrainPaths(r)
  PROVE  Running'
<1>0. /\ Domains /\ Rounding /\ mode \in {"eager", "serial"} /\ DirsExact /\ Stand(r, Here(r), mode)
      /\ DOMAIN pc = Rank /\ DOMAIN round = Rank
  BY DEF Running, Rounding
<1>. DEFINE g == round[r]
<1>1. pc[r] = "train" /\ groups[r] = Key /\ at[r] = 1 /\ DOMAIN full[r] = {}
  BY <1>0 DEF Stand, Here, TrainPaths
<1>2. Domains' /\ \A q \in Rank \ {r} : Here(q)' = Here(q)
  BY <1>0 DEF TrainPaths, Domains, Here
<1>3. ReadyAt(r, g)
  <2>1. g \in 0 .. Rounds /\ g < Rounds
    BY <1>0, <1>1, TrainingAssumption DEF Rounding, InStep, InRound
  <2>2. Whole(r, Here(r), mode)
    BY <1>0, <1>1 DEF Stand, Here
  <2>. QED  BY <2>1, <2>2 DEF ReadyAt
<1>4. /\ g \in Nat
      /\ Counted(r, inner[r], draws[r], g) /\ BestIs(r, best[r], g)
      /\ bank[r] = BankAt(r, g) /\ outer[r] = OuterAt(r, g)
      /\ mode = "serial" => DOMAIN work[r] = {}
  BY <1>0, <1>3, TrainingAssumption DEF ReadyAt, Whole, Kept, Here
<1>5. /\ acc'[r] = [key \in ToSet(SharedKeys[r]) |-> LocalSum(r, key)]
      /\ bank'[r] = [key \in DOMAIN bank[r] |->
                      IF IsPrivate(key) /\ Owns(r, key) /\ Through(r, key) # <<>>
                      THEN Local(r, Last(Through(r, key)))[key] ELSE bank[r][key]]
      /\ work'[r] = [p \in DOMAIN work[r] |->
                      IF p \in ToSet(Trained[r]) THEN Local(r, p) ELSE work[r][p]]
      /\ inner'[r] = [p \in DOMAIN inner[r] \cup ToSet(Trained[r]) |->
                       Seen(inner[r], p) + (IF p \in ToSet(Trained[r]) THEN 1 ELSE 0)]
      /\ draws'[r] = draws[r] + Len(Trained[r])
      /\ pc'[r] = IF SharedKeys[r] = <<>> THEN "outer" ELSE "reduce"
      /\ UNCHANGED <<at, groups, outer, best, round, full, dirs, mode>>
  BY <1>0 DEF TrainPaths, Domains
<1>6. bank'[r] = HalfBank(r, g)
  <2>1. DOMAIN bank[r] = ToSet(OwnedKeys[r])
    BY <1>4 DEF BankAt
  <2>. HIDE DEF g
  <2>2. \A key \in ToSet(OwnedKeys[r]) :
          (IF IsPrivate(key) /\ Owns(r, key) /\ Through(r, key) # <<>>
           THEN Local(r, Last(Through(r, key)))[key] ELSE bank[r][key])
          = Expected[IF IsPrivate(key) THEN g + 1 ELSE g].bank[key]
    BY <1>0, <1>1, <1>3, TrainedBank
  <2>. QED  BY <1>5, <2>1, <2>2, Zenon DEF HalfBank
<1>7. IF mode = "eager" THEN HalfWork(r, work'[r], g) ELSE DOMAIN work'[r] = {}
  <2>. HIDE DEF g
  <2>1. ASSUME mode = "eager" PROVE HalfWork(r, work'[r], g)
    BY <1>3, <1>5, <2>1, TrainedWork, Zenon
  <2>2. ASSUME mode # "eager" PROVE DOMAIN work'[r] = {}
    BY <1>0, <1>4, <1>5, <2>2
  <2>. QED  BY <2>1, <2>2
<1>8. Counted(r, inner'[r], draws'[r], g + 1)
  <2>1. ASSUME NEW p \in ToSet(Trained[r]) PROVE Seen(inner'[r], p) = g + 1
    <3>1. Seen(inner[r], p) = g
      BY <1>4 DEF Counted
    <3>2. p \in DOMAIN inner'[r] /\ inner'[r][p] = Seen(inner[r], p) + 1
      BY <1>5 DEF Seen
    <3>. QED  BY <3>1, <3>2 DEF Seen
  <2>2. Len(Trained[r]) \in Nat /\ draws[r] = g * Len(Trained[r])
    BY <1>4, RankOwns DEF Counted
  <2>3. \A n \in Nat : g * n + n = (g + 1) * n
    BY <1>4
  <2>4. draws'[r] = (g + 1) * Len(Trained[r])
    BY <1>5, <2>2, <2>3
  <2>. QED  BY <2>1, <2>4 DEF Counted
<1>9. SharedKeys[r] \in Seq(Key) /\ ToSet(SharedKeys[r]) = {key \in Key : r \in Members[key] /\ ~IsPrivate(key)}
  BY SharedKeysAre
<1>10. \A key \in ToSet(SharedKeys[r]) : acc'[r][key].sum = Part(r, key, g)
  <2>. SUFFICES ASSUME NEW key \in ToSet(SharedKeys[r]) PROVE LocalSum(r, key).sum = Part(r, key, g)
    BY <1>5
  <2>1. key \in Key
    BY <1>9
  <2>. HIDE DEF g
  <2>2. \A p \in ToSet(Through(r, key)) : Weighted(r, key, p) = One(key, p, g)
    BY <1>0, <1>3, ThroughIs, WeightedIs
  <2>. QED  BY <1>3, <2>1, <2>2, LocalSumIs DEF ReadyAt
<1>11. /\ SumsTo(r, acc'[r], 1, g)
       /\ SharedKeys[r] = <<>> => SumsTo(r, acc'[r], Len(SharedKeys[r]) + 1, g)
       /\ SharedKeys[r] # <<>> => 1 \in 1 .. Len(SharedKeys[r])
  <2>1. \A k \in 1 .. Len(SharedKeys[r]) : SharedKeys[r][k] \in ToSet(SharedKeys[r]) /\ ~(k < 1)
    BY <1>9 DEF ToSet
  <2>2. DOMAIN acc'[r] = ToSet(SharedKeys[r])
    BY <1>5
  <2>3. SumsTo(r, acc'[r], 1, g)
    BY <1>10, <2>1, <2>2 DEF SumsTo
  <2>4. SharedKeys[r] # <<>> => 1 \in 1 .. Len(SharedKeys[r])
    BY <1>9, EmptySeq
  <2>5. SharedKeys[r] = <<>> => Len(SharedKeys[r]) + 1 = 1
    OBVIOUS
  <2>. QED  BY <2>3, <2>4, <2>5
<1>. DEFINE y == Here(r)'
<1>12. /\ y.pc = pc'[r] /\ y.at = 1 /\ y.groups = Key /\ y.bank = bank'[r] /\ y.outer = OuterAt(r, g)
       /\ y.work = work'[r] /\ y.inner = inner'[r] /\ y.draws = draws'[r] /\ y.best = best[r] /\ y.round = g
       /\ y.acc = acc'[r] /\ DOMAIN y.full = {}
  BY <1>1, <1>4, <1>5 DEF Here
<1>. HIDE DEF y, g
<1>13. Half(r, y, mode)
  BY <1>4, <1>5, <1>6, <1>7, <1>8, <1>11, <1>12 DEF Half
<1>14. Stand(r, y, mode)
  BY <1>5, <1>12, <1>13 DEF Stand
<1>15. DirsExact'
  BY <1>0, <1>5 DEF DirsExact
<1>. QED  BY <1>2, <1>5, <1>14, <1>15, OneRankSteps DEF y

\* The group's all-reduce of the module its ranks are at.
LEMMA ReduceRuns ==
  ASSUME Running, Rounding', NEW key \in Key, Reduce(key)
  PROVE  Running'
<1>0. /\ Domains /\ Rounding /\ mode \in {"eager", "serial"} /\ DirsExact
      /\ \A r \in Rank : Stand(r, Here(r), mode)
      /\ DOMAIN pc = Rank /\ DOMAIN round = Rank
  BY DEF Running, Rounding
<1>. DEFINE group == Members[key]
<1>1. group \in SUBSET Rank /\ group # {}
  BY MembersAre DEF Members
<1>2. ASSUME NEW r \in group
      PROVE  /\ pc[r] = "reduce" /\ groups[r] = Key /\ DOMAIN full[r] = {} /\ Half(r, Here(r), mode)
             /\ at[r] \in 1 .. Len(SharedKeys[r]) /\ SumsTo(r, acc[r], at[r], round[r])
             /\ SharedKeys[r][at[r]] = key
  <2>1. pc[r] = "reduce" /\ SharedKeys[r][at[r]] = key
    BY <1>2 DEF Reduce, Meet, Awaits
  <2>2. groups[r] = Key /\ DOMAIN full[r] = {} /\ Half(r, Here(r), mode)
    BY <1>0, <1>1, <2>1 DEF Stand, Here
  <2>. QED  BY <2>1, <2>2 DEF Half, Here
<1>z. \E g \in 0 .. Rounds : \A r \in group : round[r] = g
  <2>1. PICK g \in 0 .. Rounds : InStep(g)
    BY <1>0 DEF Rounding
  <2>. QED  BY <1>1, <1>2, <2>1 DEF InStep, InRound
<1>g. PICK g \in 0 .. Rounds : \A r \in group : round[r] = g
  BY <1>z
<1>3. \A r \in group : acc[r][key].sum = Part(r, key, g)
  <2>1. \A r \in group : Len(SharedKeys[r]) \in Nat
    BY <1>1, SharedKeysAre
  <2>. QED  BY <1>2, <1>g, <2>1 DEF SumsTo
<1>4. ~IsPrivate(key)
  <2>1. PICK r \in group : TRUE
    BY <1>1
  <2>2. SharedKeys[r] \in Seq(Key) /\ key \in ToSet(SharedKeys[r])
    BY <1>1, <1>2, SharedKeysAre DEF ToSet
  <2>. QED  BY <1>1, <2>2, SharedKeysAre
<1>5. GroupSum(key).sum = Update[key][g]
  BY <1>3, <1>4, GroupSumIs
<1>. HIDE DEF group
<1>6. /\ \A r \in Rank \ group : Here(r)' = Here(r)
      /\ \A r \in group :
           /\ acc'[r] = [acc[r] EXCEPT ![key] = GroupSum(key)]
           /\ at'[r] = IF at[r] = Len(SharedKeys[r]) THEN 1 ELSE at[r] + 1
           /\ pc'[r] = IF at[r] = Len(SharedKeys[r]) THEN "outer" ELSE "reduce"
      /\ UNCHANGED <<mode, groups, full, dirs, bank, outer, work, inner, draws, best, round>>
  <2>1. /\ UNCHANGED <<mode, groups, full, dirs, bank, outer, work, inner, draws, best, round>>
        /\ \A r \in Rank : /\ acc'[r] = IF r \in group THEN [acc[r] EXCEPT ![key] = GroupSum(key)] ELSE acc[r]
                           /\ at'[r] = IF r \notin group THEN at[r]
                                       ELSE IF at[r] = Len(SharedKeys[r]) THEN 1 ELSE at[r] + 1
                           /\ pc'[r] = IF r \in group /\ at[r] = Len(SharedKeys[r]) THEN "outer" ELSE pc[r]
    BY DEF Reduce, engine, group
  <2>. QED  BY <1>1, <1>2, <2>1 DEF Here
<1>7. Domains'
  BY <1>0, <1>6 DEF Reduce, Domains
<1>8. ASSUME NEW r \in group PROVE SumsTo(r, acc'[r], at[r] + 1, g)
  <2>. DEFINE keys == SharedKeys[r]
  <2>1. keys \in Seq(Key) /\ NoRepeats(keys) /\ DOMAIN keys = 1 .. Len(keys) /\ Len(keys) \in Nat
    BY <1>1, SharedKeysAre
  <2>. HIDE DEF keys
  <2>2. at[r] \in 1 .. Len(keys) /\ SumsTo(r, acc[r], at[r], g) /\ keys[at[r]] = key
    BY <1>2, <1>g DEF keys
  <2>3. DOMAIN acc[r] = ToSet(keys) /\ key \in ToSet(keys)
    BY <2>1, <2>2 DEF SumsTo, keys, ToSet
  <2>4. acc'[r] = [acc[r] EXCEPT ![key] = GroupSum(key)]
    BY <1>6
  <2>5. DOMAIN acc'[r] = ToSet(keys)
    BY <2>3, <2>4
  <2>6. ASSUME NEW k \in 1 .. Len(keys)
        PROVE  acc'[r][keys[k]].sum = IF k < at[r] + 1 THEN Update[keys[k]][g] ELSE Part(r, keys[k], g)
    <3>0. keys[k] \in DOMAIN acc[r]
      BY <2>1, <2>3 DEF ToSet
    <3>1. acc[r][keys[k]].sum = IF k < at[r] THEN Update[keys[k]][g] ELSE Part(r, keys[k], g)
      BY <2>2 DEF SumsTo, keys
    <3>2. CASE k = at[r]
      <4>1. acc'[r][keys[k]] = GroupSum(key)
        BY <2>2, <2>3, <2>4, <3>2
      <4>2. k < at[r] + 1
        BY <2>1, <3>2
      <4>. QED  BY <1>5, <2>2, <3>2, <4>1, <4>2
    <3>3. CASE k # at[r]
      <4>1. keys[k] # key
        BY <2>1, <2>2, <3>3 DEF NoRepeats
      <4>2. acc'[r][keys[k]] = acc[r][keys[k]]
        BY <2>4, <3>0, <4>1
      <4>3. k < at[r] + 1 <=> k < at[r]
        BY <2>1, <2>2, <3>3
      <4>. QED  BY <3>1, <4>2, <4>3
    <3>. QED  BY <3>2, <3>3
  <2>. QED  BY <2>5, <2>6 DEF SumsTo, keys
<1>9. ASSUME NEW r \in group PROVE Stand(r, Here(r), mode)'
  <2>. DEFINE x == Here(r)
              y == Here(r)'
  <2>1. /\ y.pc = pc'[r] /\ y.at = at'[r] /\ y.groups = Key /\ y.bank = x.bank /\ y.outer = x.outer
        /\ y.work = x.work /\ y.inner = x.inner /\ y.draws = x.draws /\ y.best = x.best
        /\ y.round = x.round /\ x.round = g /\ y.acc = acc'[r] /\ DOMAIN y.full = {}
    BY <1>2, <1>6, <1>g DEF Here
  <2>2. Half(r, x, mode)
    BY <1>2
  <2>3. Len(SharedKeys[r]) \in Nat /\ at[r] \in 1 .. Len(SharedKeys[r])
    BY <1>1, <1>2, SharedKeysAre
  <2>. HIDE DEF x, y
  <2>4. CASE at[r] = Len(SharedKeys[r])
    <3>1. y.pc = "outer" /\ y.at = 1 /\ SumsTo(r, y.acc, Len(SharedKeys[r]) + 1, g)
      BY <1>6, <1>8, <2>1, <2>4
    <3>2. Half(r, y, mode)
      BY <2>1, <2>2, <3>1 DEF Half
    <3>3. Stand(r, y, mode')
      BY <1>6, <2>1, <3>1, <3>2 DEF Stand
    <3>. QED  BY <3>3 DEF y
  <2>5. CASE at[r] # Len(SharedKeys[r])
    <3>0. y.pc = "reduce" /\ y.at = at[r] + 1 /\ y.acc = acc'[r]
      BY <1>6, <2>1, <2>5
    <3>1. y.pc = "reduce" /\ y.at \in 1 .. Len(SharedKeys[r]) /\ SumsTo(r, y.acc, y.at, g)
      <4>1. y.at \in 1 .. Len(SharedKeys[r])
        BY <2>3, <2>5, <3>0
      <4>2. SumsTo(r, acc'[r], at[r] + 1, g)
        BY <1>8
      <4>. QED  BY <3>0, <4>1, <4>2
    <3>2. Half(r, y, mode)
      BY <2>1, <2>2, <3>1 DEF Half
    <3>3. Stand(r, y, mode')
      BY <1>6, <2>1, <3>1, <3>2 DEF Stand
    <3>. QED  BY <3>3 DEF y
  <2>. QED  BY <2>4, <2>5
<1>10. ASSUME NEW r \in Rank \ group PROVE Stand(r, Here(r), mode)'
  BY <1>0, <1>6
<1>11. DirsExact'
  BY <1>0, <1>6 DEF DirsExact
<1>. QED  BY <1>0, <1>6, <1>7, <1>9, <1>10, <1>11 DEF Running

\* A bank a round ahead in the private modules, the round's updates and the last
\* round's momentum make the next round's momentum and bank.
LEMMA Stepped ==
  ASSUME NEW r \in Rank, NEW g \in 0 .. Rounds, g < Rounds, NEW a,
         SumsTo(r, a, Len(SharedKeys[r]) + 1, g)
  PROVE  /\ [key \in ToSet(SharedKeys[r]) |-> Plus(OuterAt(r, g)[key], a[key].sum)]
            = OuterAt(r, g + 1)
         /\ [key \in ToSet(OwnedKeys[r]) |->
               IF IsPrivate(key) THEN HalfBank(r, g)[key]
               ELSE Plus(Plus(HalfBank(r, g)[key], a[key].sum), OuterAt(r, g + 1)[key])]
            = BankAt(r, g + 1)
<1>1. ASSUME NEW key \in ToSet(SharedKeys[r])
      PROVE  /\ key \in Key /\ ~IsPrivate(key) /\ a[key].sum = Update[key][g]
             /\ OuterAt(r, g)[key] = Expected[g].outer[key]
             /\ OuterAt(r, g + 1)[key] = Expected[g + 1].outer[key]
  <2>1. SharedKeys[r] \in Seq(Key) /\ key \in Key /\ ~IsPrivate(key)
    BY SharedKeysAre
  <2>2. PICK k \in 1 .. Len(SharedKeys[r]) : SharedKeys[r][k] = key
    BY <2>1 DEF ToSet
  <2>3. k < Len(SharedKeys[r]) + 1
    BY <2>1
  <2>4. a[key].sum = Update[key][g]
    BY <2>2, <2>3 DEF SumsTo
  <2>. QED  BY <2>1, <2>4 DEF OuterAt
<1>2. ASSUME NEW key \in ToSet(SharedKeys[r])
      PROVE  Plus(OuterAt(r, g)[key], a[key].sum) = Expected[g + 1].outer[key]
  BY <1>1, ExpectedIs
<1>3. ASSUME NEW key \in ToSet(OwnedKeys[r])
      PROVE  (IF IsPrivate(key) THEN HalfBank(r, g)[key]
              ELSE Plus(Plus(HalfBank(r, g)[key], a[key].sum), OuterAt(r, g + 1)[key]))
             = Expected[g + 1].bank[key]
  <2>1. key \in Key /\ r \in Members[key]
    BY OwnedKeysAre
  <2>2. HalfBank(r, g)[key] = Expected[IF IsPrivate(key) THEN g + 1 ELSE g].bank[key]
    BY DEF HalfBank
  <2>3. CASE IsPrivate(key)
    BY <2>2, <2>3
  <2>4. CASE ~IsPrivate(key)
    <3>1. key \in ToSet(SharedKeys[r])
      BY <2>1, <2>4, SharedKeysAre
    <3>2. HalfBank(r, g)[key] = Expected[g].bank[key]
      BY <2>2, <2>4
    <3>3. Expected[g + 1].bank[key] =
            Plus(Plus(Expected[g].bank[key], Update[key][g]), Expected[g + 1].outer[key])
      BY <2>1, <2>4, ExpectedIs
    <3>. QED  BY <1>1, <2>4, <3>1, <3>2, <3>3
  <2>. QED  BY <2>3, <2>4
<1>. QED  BY <1>2, <1>3, Zenon DEF BankAt, OuterAt

\* The snapshots after the outer step.
LEMMA SteppedBest ==
  ASSUME NEW r \in Rank, NEW g \in 0 .. Rounds, g < Rounds, NEW b, BestIs(r, b, g),
         NEW state, \A p \in ToSet(OwnedPaths[r]) : state[p] = ExpectedModel(p, g + 1)
  PROVE  [p \in ToSet(OwnedPaths[r]) |->
            IF p \in DOMAIN b /\ b[p].loss <= ValLoss[p][g + 1] THEN b[p]
            ELSE [loss |-> ValLoss[p][g + 1], state |-> state[p]]]
         = BestAt(r, g + 1)
<1>0. g \in Nat /\ Rounds \in Nat
  BY TrainingAssumption
<1>1. ASSUME NEW p \in ToSet(OwnedPaths[r])
      PROVE  (IF p \in DOMAIN b /\ b[p].loss <= ValLoss[p][g + 1] THEN b[p]
              ELSE [loss |-> ValLoss[p][g + 1], state |-> state[p]])
             = Snapshot(p, BestRound(p, g + 1))
  <2>1. p \in GridPath
    BY RankOwns
  <2>2. BestRound(p, g + 1) =
          IF g > 0 /\ ValLoss[p][BestRound(p, g)] <= ValLoss[p][g + 1] THEN BestRound(p, g) ELSE g + 1
    BY <2>1, BestRoundStep
  <2>3. [loss |-> ValLoss[p][g + 1], state |-> state[p]] = Snapshot(p, g + 1)
    BY DEF Snapshot
  <2>4. CASE g = 0
    <3>1. p \notin DOMAIN b
      BY <2>4 DEF BestIs
    <3>2. BestRound(p, g + 1) = g + 1
      BY <2>2, <2>4
    <3>. QED  BY <2>3, <3>1, <3>2
  <2>5. CASE g > 0
    <3>1. b = BestAt(r, g)
      BY <1>0, <2>5 DEF BestIs
    <3>2. p \in DOMAIN b /\ b[p] = Snapshot(p, BestRound(p, g))
      BY <3>1 DEF BestAt
    <3>3. b[p].loss = ValLoss[p][BestRound(p, g)]
      BY <3>2 DEF Snapshot
    <3>. QED  BY <2>2, <2>3, <2>5, <3>2, <3>3
  <2>. QED  BY <1>0, <2>4, <2>5
<1>. QED  BY <1>1 DEF BestAt

LEMMA OuterStepRuns ==
  ASSUME Running, Rounding', NEW r \in Rank, OuterStep(r)
  PROVE  Running'
<1>0. /\ Domains /\ Rounding /\ mode \in {"eager", "serial"} /\ DirsExact /\ Stand(r, Here(r), mode)
      /\ DOMAIN pc = Rank /\ DOMAIN round = Rank
  BY DEF Running, Rounding
<1>. DEFINE g == round[r]
            m == [key \in DOMAIN outer[r] |-> Plus(outer[r][key], acc[r][key].sum)]
            b == [key \in DOMAIN bank[r] |->
                    IF IsPrivate(key) THEN bank[r][key]
                    ELSE Plus(Plus(bank[r][key], acc[r][key].sum), m[key])]
            w == [p \in DOMAIN work[r] |->
                    [key \in DOMAIN work[r][p] |->
                       IF Owns(r, key) /\ ~IsPrivate(key) THEN b[key] ELSE work[r][p][key]]]
<1>1. pc[r] = "outer" /\ groups[r] = Key /\ at[r] = 1 /\ DOMAIN full[r] = {} /\ Half(r, Here(r), mode)
  BY <1>0 DEF Stand, Here, OuterStep
<1>2. Domains' /\ \A q \in Rank \ {r} : Here(q)' = Here(q)
  BY <1>0 DEF OuterStep, Domains, Here
<1>3. g \in 0 .. Rounds /\ g < Rounds /\ g + 1 \in 1 .. Rounds
  BY <1>0, <1>1, TrainingAssumption DEF Rounding, InStep, InRound
<1>4. /\ bank[r] = HalfBank(r, g) /\ outer[r] = OuterAt(r, g)
      /\ SumsTo(r, acc[r], Len(SharedKeys[r]) + 1, g)
      /\ Counted(r, inner[r], draws[r], g + 1) /\ BestIs(r, best[r], g)
      /\ IF mode = "eager" THEN HalfWork(r, work[r], g) ELSE DOMAIN work[r] = {}
  BY <1>1 DEF Half, Here
<1>5. /\ bank'[r] = b /\ outer'[r] = m /\ work'[r] = w /\ best'[r] = TrackBest(r, b, g + 1)
      /\ round'[r] = g + 1 /\ pc'[r] = "save"
      /\ UNCHANGED <<at, groups, inner, draws, full, dirs, mode>>
  BY <1>0 DEF OuterStep, Domains
<1>6. m = OuterAt(r, g + 1) /\ b = BankAt(r, g + 1)
  <2>1. DOMAIN bank[r] = ToSet(OwnedKeys[r]) /\ DOMAIN outer[r] = ToSet(SharedKeys[r])
    BY <1>4 DEF HalfBank, OuterAt
  <2>. HIDE DEF g
  <2>2. [key \in ToSet(SharedKeys[r]) |-> Plus(OuterAt(r, g)[key], acc[r][key].sum)]
         = OuterAt(r, g + 1)
    BY <1>3, <1>4, Stepped
  <2>3. m = OuterAt(r, g + 1)
    BY <1>4, <2>1, <2>2
  <2>. HIDE DEF m
  <2>4. [key \in ToSet(OwnedKeys[r]) |->
            IF IsPrivate(key) THEN HalfBank(r, g)[key]
            ELSE Plus(Plus(HalfBank(r, g)[key], acc[r][key].sum), OuterAt(r, g + 1)[key])]
         = BankAt(r, g + 1)
    BY <1>3, <1>4, Stepped
  <2>. QED  BY <1>4, <2>1, <2>3, <2>4
<1>. HIDE DEF b, m
<1>7. IF mode = "eager" THEN w = ModelsAt(r, g + 1) ELSE DOMAIN w = {}
  <2>1. ASSUME mode # "eager" PROVE DOMAIN w = {}
    BY <1>4, <2>1
  <2>2. ASSUME mode = "eager" PROVE w = ModelsAt(r, g + 1)
    <3>1. DOMAIN work[r] = ToSet(OwnedPaths[r])
      BY <1>4, <2>2 DEF HalfWork
    <3>2. ASSUME NEW p \in ToSet(OwnedPaths[r])
          PROVE  [key \in DOMAIN work[r][p] |->
                    IF Owns(r, key) /\ ~IsPrivate(key) THEN b[key] ELSE work[r][p][key]]
                 = ExpectedModel(p, g + 1)
      <4>1. /\ DOMAIN work[r][p] = KeysOf[p]
            /\ \A key \in KeysOf[p] : IsPrivate(key) => work[r][p][key] = Expected[g + 1].bank[key]
        BY <1>4, <2>2 DEF HalfWork
      <4>2. KeysOf[p] \subseteq ToSet(OwnedKeys[r])
        BY RankOwns
      <4>3. \A key \in KeysOf[p] : Owns(r, key)
        BY <1>1, <4>2, OwnedKeysAre DEF Owns
      <4>4. \A key \in KeysOf[p] : b[key] = Expected[g + 1].bank[key]
        BY <1>6, <4>2 DEF BankAt
      <4>. HIDE DEF g
      <4>5. \A key \in KeysOf[p] :
              (IF Owns(r, key) /\ ~IsPrivate(key) THEN b[key] ELSE work[r][p][key])
              = Expected[g + 1].bank[key]
        BY <4>1, <4>3, <4>4
      <4>. QED  BY <4>1, <4>5 DEF ExpectedModel, PathModel
    <3>. HIDE DEF g
    <3>. QED  BY <3>1, <3>2 DEF ModelsAt
  <2>. QED  BY <2>1, <2>2
<1>. HIDE DEF w
<1>8. best'[r] = BestAt(r, g + 1)
  <2>. DEFINE state == [p \in ToSet(OwnedPaths[r]) |->
                          IF mode = "eager" THEN work'[r][p] ELSE PathModel(b, p)]
  <2>1. \A p \in ToSet(OwnedPaths[r]) : state[p] = ExpectedModel(p, g + 1)
    <3>1. mode = "eager" => \A p \in ToSet(OwnedPaths[r]) : work'[r][p] = ExpectedModel(p, g + 1)
      BY <1>5, <1>7 DEF ModelsAt
    <3>2. \A p \in ToSet(OwnedPaths[r]) : PathModel(b, p) = ExpectedModel(p, g + 1)
      BY <1>6, ModelsFromBank
    <3>. QED  BY <3>1, <3>2
  <2>2. TrackBest(r, b, g + 1)
        = [p \in ToSet(OwnedPaths[r]) |->
             IF p \in DOMAIN best[r] /\ best[r][p].loss <= ValLoss[p][g + 1] THEN best[r][p]
             ELSE [loss |-> ValLoss[p][g + 1], state |-> state[p]]]
    BY DEF TrackBest
  <2>. HIDE DEF g, state
  <2>. QED  BY <1>3, <1>4, <1>5, <2>1, <2>2, SteppedBest
<1>. DEFINE y == Here(r)'
<1>9. /\ y.pc = "save" /\ y.at = 1 /\ y.groups = Key /\ y.bank = BankAt(r, g + 1)
      /\ y.outer = OuterAt(r, g + 1) /\ y.work = w /\ y.inner = inner[r] /\ y.draws = draws[r] /\ y.best = BestAt(r, g + 1) /\ y.round = g + 1
      /\ DOMAIN y.full = {}
  BY <1>1, <1>5, <1>6, <1>8 DEF Here
<1>. HIDE DEF y, g
<1>10. Whole(r, y, mode)
  <2>1. g + 1 # 0
    BY <1>3
  <2>. QED  BY <1>4, <1>7, <1>9, <2>1 DEF Whole, Kept, BestIs
<1>11. Stand(r, y, mode)
  BY <1>9, <1>10 DEF Stand
<1>12. DirsExact'
  BY <1>0, <1>5 DEF DirsExact
<1>. QED  BY <1>2, <1>5, <1>11, <1>12, OneRankSteps DEF y

LEMMA SaveRankRuns ==
  ASSUME Running, Rounding', NEW r \in Rank, SaveRank(r)
  PROVE  Running'
<1>0. /\ Domains /\ Rounding /\ mode \in {"eager", "serial"} /\ DirsExact /\ Stand(r, Here(r), mode)
      /\ DOMAIN pc = Rank /\ DOMAIN dirs = 1 .. Rounds
  BY DEF Running, Rounding, Files
<1>. DEFINE g == round[r]
            state == StateDict(r)
            files == [q \in DOMAIN dirs[g].files \cup {r} |->
                        IF q = r THEN state ELSE dirs[g].files[q]]
<1>1. pc[r] = "save" /\ groups[r] = Key /\ at[r] = 1 /\ DOMAIN full[r] = {} /\ Whole(r, Here(r), mode)
  BY <1>0 DEF Stand, Here, SaveRank
<1>2. Domains' /\ \A q \in Rank \ {r} : Here(q)' = Here(q)
  BY <1>0 DEF SaveRank, Domains, Here, engine
<1>3. g \in 1 .. Rounds
  BY <1>0, <1>1, TrainingAssumption DEF Rounding, InStep, AfterStep
<1>4. Kept(r, state, g)
  BY <1>1 DEF Whole, Kept, Here, StateDict
<1>5. /\ dirs' = [dirs EXCEPT ![g].files = files]
      /\ pc'[r] \in {"meta", "barrier"}
      /\ UNCHANGED <<at, groups, bank, outer, work, inner, draws, best, round, full, mode>>
  BY <1>0 DEF SaveRank, engine
<1>. HIDE DEF state
<1>6. DirsExact'
  <2>1. ASSUME NEW h \in 1 .. Rounds, NEW q \in DOMAIN dirs'[h].files
        PROVE  q \in Rank /\ Kept(q, dirs'[h].files[q], h)
    <3>. HIDE DEF g
    <3>1. CASE h # g
      <4>1. dirs'[h] = dirs[h]
        <5>. HIDE DEF files
        <5>. QED  BY <1>5, <3>1
      <4>. QED  BY <1>0, <2>1, <4>1 DEF DirsExact
    <3>2. CASE h = g
      <4>1. dirs'[h].files = files
        <5>. HIDE DEF files
        <5>. QED  BY <1>0, <1>3, <1>5, <3>2
      <4>2. CASE q = r
        BY <1>4, <3>2, <4>1, <4>2
      <4>3. CASE q # r
        <5>1. q \in DOMAIN dirs[g].files /\ files[q] = dirs[g].files[q]
          BY <2>1, <4>1, <4>3
        <5>. QED  BY <1>0, <1>3, <3>2, <4>1, <5>1 DEF DirsExact
      <4>. QED  BY <4>2, <4>3
    <3>. QED  BY <3>1, <3>2
  <2>. QED  BY <2>1 DEF DirsExact
<1>. DEFINE x == Here(r)
            y == Here(r)'
<1>7. /\ y.pc \in {"meta", "barrier"} /\ y.at = 1 /\ y.groups = Key /\ y.bank = x.bank /\ y.outer = x.outer
      /\ y.work = x.work /\ y.inner = x.inner /\ y.draws = x.draws /\ y.best = x.best /\ y.round = x.round
      /\ DOMAIN y.full = {}
  BY <1>1, <1>5 DEF Here
<1>8. Whole(r, x, mode)
  BY <1>1
<1>. HIDE DEF x, y
<1>9. Whole(r, y, mode)
  BY <1>7, <1>8 DEF Whole, Kept
<1>10. Stand(r, y, mode)
  BY <1>7, <1>9 DEF Stand
<1>. QED  BY <1>2, <1>5, <1>6, <1>10, OneRankSteps DEF y

LEMMA WriteMetaRuns ==
  ASSUME Running, Rounding', WriteMeta
  PROVE  Running'
<1>. 0 \in Rank
  BY TrainingAssumption DEF Rank
<1>0. /\ Domains /\ Rounding /\ DirsExact /\ Stand(0, Here(0), mode)
      /\ DOMAIN pc = Rank /\ DOMAIN dirs = 1 .. Rounds
  BY DEF Running, Rounding, Files
<1>1. /\ pc[0] = "meta" /\ pc'[0] = "barrier" /\ dirs' = [dirs EXCEPT ![round[0]].meta = TRUE]
      /\ UNCHANGED <<at, groups, bank, outer, work, inner, draws, best, round, acc, full, mode>>
  BY <1>0 DEF WriteMeta, engine
<1>2. Domains' /\ \A q \in Rank \ {0} : Here(q)' = Here(q)
  BY <1>0, <1>1 DEF WriteMeta, Domains, Here
<1>3. DirsExact'
  <2>1. \A g \in 1 .. Rounds : dirs'[g].files = dirs[g].files
    BY <1>0, <1>1
  <2>. QED  BY <1>0, <2>1 DEF DirsExact
<1>. DEFINE x == Here(0)
            y == Here(0)'
<1>4. /\ x.pc = "meta" /\ y.pc = "barrier" /\ y.at = x.at /\ y.groups = x.groups /\ y.bank = x.bank
      /\ y.outer = x.outer /\ y.work = x.work /\ y.inner = x.inner /\ y.draws = x.draws /\ y.best = x.best
      /\ y.round = x.round /\ y.full = x.full /\ Stand(0, x, mode)
  BY <1>0, <1>1 DEF Here
<1>. HIDE DEF x, y
<1>5. Whole(0, y, mode)
  BY <1>4 DEF Stand, Whole, Kept
<1>6. Stand(0, y, mode)
  BY <1>4, <1>5 DEF Stand
<1>. QED  BY <1>0, <1>1, <1>2, <1>3, <1>6, OneRankSteps DEF y

LEMMA BarrierRuns ==
  ASSUME Running, Rounding', Barrier
  PROVE  Running'
<1>0. /\ Domains /\ Rounding /\ DirsExact /\ \A r \in Rank : Stand(r, Here(r), mode)
  BY DEF Running
<1>1. /\ \A r \in Rank : pc[r] = "barrier" /\ pc'[r] = AfterRound(round[r])
      /\ UNCHANGED <<at, groups, bank, outer, work, inner, draws, best, round, acc, full, mode, dirs>>
  BY DEF Barrier, engine
<1>2. \A r \in Rank : round[r] \in 1 .. Rounds
  BY <1>0, <1>1, TrainingAssumption DEF Rounding, InStep, AfterStep
<1>3. ASSUME NEW r \in Rank PROVE Stand(r, Here(r), mode)'
  <2>. DEFINE x == Here(r)
              y == Here(r)'
  <2>1. /\ x.pc = "barrier" /\ y.pc = AfterRound(x.round) /\ y.at = x.at /\ y.groups = x.groups
        /\ y.bank = x.bank /\ y.outer = x.outer /\ y.work = x.work /\ y.inner = x.inner /\ y.draws = x.draws
        /\ y.best = x.best /\ y.round = x.round /\ y.full = x.full /\ x.round \in 1 .. Rounds
    BY <1>1, <1>2 DEF Here
  <2>2. Stand(r, x, mode) /\ InWalk(1) /\ Walked(1) = {}
    BY <1>0, Walking
  <2>. HIDE DEF x, y
  <2>3. Whole(r, y, mode)
    BY <2>1, <2>2 DEF Stand, Whole, Kept
  <2>4. y.pc = "train" \/ (y.pc = "gather" /\ y.round = Rounds)
    BY <2>1, TrainingAssumption DEF AfterRound
  <2>5. Stand(r, y, mode)
    BY <2>1, <2>2, <2>3, <2>4 DEF Stand
  <2>. QED  BY <1>1, <2>5 DEF y
<1>4. Domains' /\ DirsExact'
  BY <1>0, <1>1 DEF Domains, DirsExact
<1>. QED  BY <1>1, <1>3, <1>4 DEF Running

LEMMA GatherRuns ==
  ASSUME Running, Rounding', NEW key \in Key, Gather(key)
  PROVE  Running'
<1>0. /\ Domains /\ Rounding /\ DirsExact /\ \A r \in Rank : Stand(r, Here(r), mode)
      /\ 0 \in Rank
  BY TrainingAssumption DEF Running, Rank
<1>1. /\ \A r \in Rank : pc[r] = "gather"
      /\ UNCHANGED <<mode, acc, groups, dirs, bank, outer, work, inner, draws, best, round>>
  BY DEF Gather, Meet, engine
<1>2. \A r \in Rank : /\ InWalk(at[r]) /\ DOMAIN full[r] = Walked(at[r]) /\ bank[r] = BankAt(r, Rounds)
                      /\ \A k \in DOMAIN full[r] : full[r][k] = Expected[Rounds].bank[k]
  BY <1>0, <1>1 DEF Stand, Whole, Kept, Here
<1>3. PICK n : n \in 1 .. Len(ModuleKeys) /\ ModuleKeys[n] = key /\ \A r \in Rank : at[r] = n
  BY <1>2, MeetInStep DEF Gather
<1>4. /\ n = Len(ModuleKeys) => Walked(n) \cup {key} = Key
      /\ n # Len(ModuleKeys) => InWalk(n + 1) /\ Walked(n + 1) = Walked(n) \cup {key}
  BY <1>0, <1>2, <1>3, Walking
<1>5. bank[GatherSource[key]][key] = Expected[Rounds].bank[key]
  <2>. DEFINE s == GatherSource[key]
  <2>1. s \in Members[key] /\ s \in Rank
    BY MembersAre DEF Members
  <2>. HIDE DEF s
  <2>2. key \in ToSet(OwnedKeys[s])
    BY <2>1, OwnedKeysAre
  <2>3. bank[s] = BankAt(s, Rounds)
    BY <1>2, <2>1
  <2>4. bank[s][key] = Expected[Rounds].bank[key]
    BY <2>2, <2>3 DEF BankAt
  <2>. QED  BY <2>4 DEF s
<1>6. \A r \in Rank : /\ at'[r] = IF n = Len(ModuleKeys) THEN 1 ELSE n + 1
                      /\ pc'[r] = IF n = Len(ModuleKeys) THEN "done" ELSE "gather"
                      /\ full'[r] = [k \in DOMAIN full[r] \cup {key} |->
                                       IF k = key THEN bank[GatherSource[key]][key] ELSE full[r][k]]
  BY <1>0, <1>3 DEF Gather
<1>7. \A r \in Rank : /\ DOMAIN full'[r] = Walked(n) \cup {key}
                      /\ \A k \in DOMAIN full'[r] : full'[r][k] = Expected[Rounds].bank[k]
  <2>. SUFFICES ASSUME NEW r \in Rank
                PROVE  /\ DOMAIN full'[r] = Walked(n) \cup {key}
                       /\ \A k \in DOMAIN full'[r] : full'[r][k] = Expected[Rounds].bank[k]
    OBVIOUS
  <2>1. full'[r] = [k \in DOMAIN full[r] \cup {key} |->
                      IF k = key THEN Expected[Rounds].bank[key] ELSE full[r][k]]
    BY <1>5, <1>6
  <2>2. DOMAIN full[r] = Walked(n) /\ \A k \in DOMAIN full[r] : full[r][k] = Expected[Rounds].bank[k]
    BY <1>2, <1>3
  <2>. QED  BY <2>1, <2>2
<1>8. ASSUME NEW r \in Rank PROVE Stand(r, Here(r), mode)'
  <2>. DEFINE x == Here(r)
              y == Here(r)'
  <2>1. /\ x.pc = "gather" /\ y.pc = pc'[r] /\ y.at = at'[r] /\ y.groups = x.groups
        /\ y.bank = x.bank /\ y.outer = x.outer /\ y.work = x.work /\ y.inner = x.inner /\ y.draws = x.draws
        /\ y.best = x.best /\ y.round = x.round /\ y.full = full'[r]
    BY <1>1 DEF Here
  <2>2. Stand(r, x, mode)
    BY <1>0
  <2>. HIDE DEF x, y
  <2>3. Whole(r, y, mode) /\ y.groups = Key /\ y.round = Rounds
    BY <2>1, <2>2 DEF Stand, Whole, Kept
  <2>4. \A k \in DOMAIN y.full : y.full[k] = Expected[Rounds].bank[k]
    BY <1>7, <2>1
  <2>5. CASE n = Len(ModuleKeys)
    <3>1. y.pc = "done" /\ y.at = 1 /\ DOMAIN y.full = Key
      BY <1>4, <1>6, <1>7, <2>1, <2>5
    <3>2. Stand(r, y, mode)
      BY <2>3, <2>4, <3>1 DEF Stand
    <3>. QED  BY <1>1, <3>2 DEF y
  <2>6. CASE n # Len(ModuleKeys)
    <3>1. y.pc = "gather" /\ y.at = n + 1 /\ InWalk(n + 1) /\ DOMAIN y.full = Walked(n + 1)
      BY <1>4, <1>6, <1>7, <2>1, <2>6
    <3>2. Stand(r, y, mode)
      BY <2>3, <2>4, <3>1 DEF Stand
    <3>. QED  BY <1>1, <3>2 DEF y
  <2>. QED  BY <2>5, <2>6
<1>9. Domains'
  BY <1>0, <1>1 DEF Domains, Gather
<1>10. DirsExact'
  BY <1>0, <1>1 DEF DirsExact
<1>. QED  BY <1>1, <1>8, <1>9, <1>10 DEF Running

LEMMA InitRunning == JobInit => Running
<1>. SUFFICES ASSUME JobInit PROVE Running
  OBVIOUS
<1>1. Rounding
  BY InitRounding
<1>2. Domains /\ mode \in {"eager", "serial"}
  BY DEF JobInit, Domains
<1>3. ASSUME NEW r \in Rank PROVE Stand(r, Here(r), mode)
  <2>. DEFINE x == Here(r)
  <2>1. /\ x.pc = "down" /\ x.draws = 0 /\ DOMAIN x.best = {} /\ x.round = 0 /\ x.groups = {}
        /\ x.at = 1 /\ DOMAIN x.full = {}
    BY DEF Here, JobInit
  <2>. HIDE DEF x
  <2>2. Stand(r, x, mode)
    BY <2>1 DEF Stand
  <2>. QED  BY <2>2 DEF x
<1>4. DirsExact
  BY DEF JobInit, DirsExact, NoFiles
<1>. QED  BY <1>1, <1>2, <1>3, <1>4 DEF Running

LEMMA NextRunning == Running /\ [JobNext]_jobVars => Running'
<1>. SUFFICES ASSUME Running, [JobNext]_jobVars PROVE Running'
  OBVIOUS
<1>1. Rounding'
  BY NextRounding DEF Running
<1>2. CASE UNCHANGED jobVars
  <2>1. /\ UNCHANGED <<mode, pc, at, groups, bank, outer, work, inner, draws, best, round, acc, full, dirs>>
    BY <1>2 DEF jobVars, engine
  <2>. QED  BY <1>1, <2>1 DEF Running, Domains, Here, DirsExact
<1>3. CASE JobNext
  <2>1. ASSUME NEW g \in 0 .. Rounds, NEW m \in {"eager", "serial"}, Launch(g, m) PROVE Running'
    BY <1>1, <2>1, LaunchRuns
  <2>2. CASE Kill
    BY <1>1, <2>2, AllDown DEF Kill
  <2>3. ASSUME NEW r \in Rank, RankStep(r) PROVE Running'
    <3>1. CASE MakeEngine(r)
      BY <1>1, <3>1, MakeEngineRuns
    <3>2. CASE LoadCheckpoint(r)
      BY <1>1, <3>2, LoadCheckpointRuns
    <3>3. CASE LoadFails(r)
      BY <1>1, <3>3, AllDown DEF LoadFails
    <3>4. CASE SaveRank(r)
      BY <1>1, <3>4, SaveRankRuns
    <3>5. CASE WriteMeta
      BY <1>1, <3>5, WriteMetaRuns
    <3>. QED  BY <2>3, <3>1, <3>2, <3>3, <3>4, <3>5 DEF RankStep
  <2>4. CASE Collective
    <3>1. ASSUME NEW key \in Key, BuildGroup(key) PROVE Running'
      BY <1>1, <3>1, BuildGroupRuns
    <3>2. ASSUME NEW key \in Key, Reduce(key) PROVE Running'
      BY <1>1, <3>2, ReduceRuns
    <3>3. ASSUME NEW key \in Key, Gather(key) PROVE Running'
      BY <1>1, <3>3, GatherRuns
    <3>4. CASE Barrier
      BY <1>1, <3>4, BarrierRuns
    <3>. QED  BY <2>4, <3>1, <3>2, <3>3, <3>4 DEF Collective
  <2>5. ASSUME NEW r \in Rank, RoundStep(r) PROVE Running'
    <3>1. CASE TrainPaths(r)
      BY <1>1, <3>1, TrainPathsRuns
    <3>2. CASE OuterStep(r)
      BY <1>1, <3>2, OuterStepRuns
    <3>. QED  BY <2>5, <3>1, <3>2 DEF RoundStep
  <2>. QED  BY <1>3, <2>1, <2>2, <2>3, <2>4, <2>5 DEF JobNext, JobStep
<1>. QED  BY <1>2, <1>3

\* What a rank holds is what the property says of it.
LEMMA RunningIsExact == Running => RunsAreExact
<1>. SUFFICES ASSUME Running, NEW r \in Rank, Boundary(r)
              PROVE  /\ \A key \in DOMAIN bank[r] : bank[r][key] = Expected[round[r]].bank[key]
                     /\ outer[r] = [key \in ToSet(SharedKeys[r]) |-> Expected[round[r]].outer[key]]
                     /\ \A p \in DOMAIN work[r] : work[r][p] = ExpectedModel(p, round[r])
                     /\ \A p \in ToSet(Trained[r]) :
                          round[r] > 0 => p \in DOMAIN inner[r] /\ inner[r][p] = round[r]
                     /\ draws[r] = round[r] * Len(Trained[r])
                     /\ round[r] > 0 => \A p \in ToSet(OwnedPaths[r]) :
                          best[r][p] = [loss  |-> ValLoss[p][BestRound(p, round[r])],
                                        state |-> ExpectedModel(p, BestRound(p, round[r]))]
                     /\ \A key \in DOMAIN full[r] : full[r][key] = Expected[Rounds].bank[key]
                     /\ pc[r] = "done" => DOMAIN full[r] = Key
  BY DEF RunsAreExact
<1>. DEFINE g == round[r]
            x == Here(r)
<1>1. /\ x.pc = pc[r] /\ x.bank = bank[r] /\ x.outer = outer[r] /\ x.work = work[r] /\ x.inner = inner[r]
      /\ x.draws = draws[r] /\ x.best = best[r] /\ x.round = g /\ x.full = full[r] /\ Stand(r, x, mode)
  BY DEF Here, Running
<1>. HIDE DEF x
<1>2. /\ Whole(r, x, mode) /\ \A key \in DOMAIN full[r] : full[r][key] = Expected[Rounds].bank[key]
      /\ pc[r] = "done" => DOMAIN full[r] = Key
  BY <1>1 DEF Stand, Boundary
<1>. HIDE DEF g
<1>3. /\ bank[r] = BankAt(r, g) /\ outer[r] = OuterAt(r, g)
      /\ Counted(r, inner[r], draws[r], g) /\ BestIs(r, best[r], g)
  BY <1>1, <1>2 DEF Whole, Kept
<1>4. \A p \in DOMAIN work[r] : work[r][p] = ExpectedModel(p, g)
  BY <1>1, <1>2 DEF Whole, ModelsAt
<1>5. \A key \in DOMAIN bank[r] : bank[r][key] = Expected[g].bank[key]
  BY <1>3 DEF BankAt
<1>o. outer[r] = [key \in ToSet(SharedKeys[r]) |-> Expected[g].outer[key]]
  BY <1>3 DEF OuterAt
<1>6. ASSUME NEW p \in ToSet(Trained[r]), g > 0 PROVE p \in DOMAIN inner[r] /\ inner[r][p] = g
  <2>1. Seen(inner[r], p) = g /\ g # 0
    BY <1>3, <1>6 DEF Counted
  <2>. QED  BY <2>1 DEF Seen
<1>7. draws[r] = g * Len(Trained[r])
  BY <1>3 DEF Counted
<1>8. ASSUME g > 0, NEW p \in ToSet(OwnedPaths[r])
      PROVE  best[r][p] = [loss |-> ValLoss[p][BestRound(p, g)], state |-> ExpectedModel(p, BestRound(p, g))]
  <2>1. g # 0
    BY <1>8
  <2>. QED  BY <1>3, <2>1 DEF BestIs, BestAt, Snapshot
<1>. QED  BY <1>2, <1>4, <1>5, <1>o, <1>6, <1>7, <1>8 DEF g

\* RunsAreExact for every grid of paths, number of ranks, weighting, tokens and losses:
\* whatever is killed, launched again and loaded, a rank between two rounds holds what
\* it would in a job of the same ranks that nothing interrupts: modules, the momentum
\* of the outer optimizer, the phases the inner ones have seen, the state of its own
\* shuffling, the snapshots (train/loop.py, checkpoint.py, distributed.py).
THEOREM RunsAreTheUninterrupted == JobSpec => []RunsAreExact
<1>1. JobSpec => []Running
  BY InitRunning, NextRunning, PTL DEF JobSpec
<1>. QED  BY <1>1, RunningIsExact, PTL

-----------------------------------------------------------------------------
(* Ingestion: what is cached, and what an ingestion under way holds, are the    *)
(* kept documents of this part up to where it has read.                         *)

\* The rows of this host's part of the source that are kept.
Mine(row) == (row - 1) % NumShards = ShardId /\ Sh!Kept(row)

\* What an ingestion holds when it has read up to position next.
Exact(docs, next) ==
  /\ next \in Nat /\ docs \in Seq(Nat)
  /\ \A row \in Nat : (\E i \in 1 .. Len(docs) : docs[i] = row) <=> row \in 1 .. next /\ Mine(row)
  /\ \A i, j \in 1 .. Len(docs) : i < j => docs[i] < docs[j]

Ingesting ==
  /\ Exact(disk.docs, disk.next)
  /\ ingest.on => Exact(ingest.docs, ingest.next)

\* The source has a number of rows.
LEMMA RowsCounted == Len(Rows) \in Nat
<1>1. Rows \in Seq(Nat)
  BY DataAssumption DEF Sh!ShardsAssumption, Sh!CorpusAssumption
<1>. QED  BY <1>1

\* Going on with the next kept row of this part keeps the ingestion exact.
LEMMA ExactStep ==
  ASSUME NEW docs, NEW next, Exact(docs, next), Sh!ShardStream(next) # {},
         NEW gi, gi = CHOOSE i \in Sh!ShardStream(next) : \A j \in Sh!ShardStream(next) : i <= j
  PROVE  Exact(Append(docs, gi + 1), gi + 1)
<1>. DEFINE More == Sh!ShardStream(next)
<1>a. next \in Nat
  BY DEF Exact
<1>b. \A g \in More : g \in Int /\ next <= g /\ g <= Len(Rows) - 1 /\ Mine(g + 1)
  BY DEF Sh!ShardStream, Mine
<1>c. \A g \in Int : next <= g /\ g <= Len(Rows) - 1 /\ Mine(g + 1) => g \in More
  <2>1. \A g \in Int : (g + 1) - 1 = g
    OBVIOUS
  <2>. QED  BY <1>a, <2>1, RowsCounted DEF Sh!ShardStream, Mine
<1>d. gi = CHOOSE i \in More : \A j \in More : i <= j
  OBVIOUS
<1>e. More # {}
  OBVIOUS
<1>. HIDE DEF More
<1>1. More \in SUBSET Nat
  BY <1>a, <1>b
<1>2. PICK n \in More : \A m \in More : n <= m
  BY <1>1, <1>e, LeastNumber
<1>3. gi \in More /\ \A m \in More : gi <= m
  BY <1>2, <1>d
<1>4. gi \in Nat /\ next \in Nat /\ next <= gi /\ Mine(gi + 1)
  BY <1>1, <1>3, <1>a, <1>b
<1>5. \A row \in Nat : row \in next + 1 .. gi => ~Mine(row)
  <2>. SUFFICES ASSUME NEW row \in Nat, row \in next + 1 .. gi, Mine(row) PROVE FALSE
    OBVIOUS
  <2>1. gi <= Len(Rows) - 1
    BY <1>3, <1>b
  <2>2. row - 1 \in Int /\ (row - 1) + 1 = row /\ next <= row - 1 /\ row - 1 < gi
    BY <1>4
  <2>3. row - 1 \in More
    BY <1>4, <1>c, <2>1, <2>2, RowsCounted
  <2>4. gi <= row - 1
    BY <1>3, <2>3
  <2>. QED  BY <1>4, <2>2, <2>4
<1>. DEFINE all2 == Append(docs, gi + 1)
<1>6. /\ docs \in Seq(Nat) /\ all2 \in Seq(Nat) /\ Len(all2) = Len(docs) + 1 /\ Len(docs) \in Nat
      /\ \A i \in 1 .. Len(docs) : all2[i] = docs[i]
      /\ all2[Len(docs) + 1] = gi + 1
  BY <1>4 DEF Exact
<1>. HIDE DEF all2
<1>7. \A i \in 1 .. Len(docs) : docs[i] <= next
  BY <1>6 DEF Exact
<1>8. \A i, j \in 1 .. Len(all2) : i < j => all2[i] < all2[j]
  <2>. SUFFICES ASSUME NEW i \in 1 .. Len(all2), NEW j \in 1 .. Len(all2), i < j
                PROVE  all2[i] < all2[j]
    OBVIOUS
  <2>1. i \in 1 .. Len(docs) /\ docs[i] \in Nat /\ j \in 1 .. Len(docs) + 1
    BY <1>6
  <2>2. CASE j \in 1 .. Len(docs)
    BY <1>6, <2>1, <2>2 DEF Exact
  <2>3. CASE j = Len(docs) + 1
    BY <1>4, <1>6, <1>7, <2>1, <2>3
  <2>4. j \in 1 .. Len(docs) \/ j = Len(docs) + 1
    BY <1>6, <2>1
  <2>. QED  BY <2>2, <2>3, <2>4
<1>9. ASSUME NEW row \in Nat
      PROVE  (\E i \in 1 .. Len(all2) : all2[i] = row) <=> row \in 1 .. gi + 1 /\ Mine(row)
  <2>1. (\E i \in 1 .. Len(all2) : all2[i] = row)
          <=> row = gi + 1 \/ \E i \in 1 .. Len(docs) : docs[i] = row
    <3>1. ASSUME NEW i \in 1 .. Len(all2), all2[i] = row
          PROVE  row = gi + 1 \/ \E k \in 1 .. Len(docs) : docs[k] = row
      <4>1. i \in 1 .. Len(docs) \/ i = Len(docs) + 1
        BY <1>6
      <4>. QED  BY <1>6, <3>1, <4>1
    <3>2. Len(docs) + 1 \in 1 .. Len(all2) /\ 1 .. Len(docs) \subseteq 1 .. Len(all2)
      BY <1>6
    <3>. QED  BY <1>6, <3>1, <3>2
  <2>2. (\E i \in 1 .. Len(docs) : docs[i] = row) <=> row \in 1 .. next /\ Mine(row)
    BY DEF Exact
  <2>3. row \in 1 .. gi + 1 <=> row = gi + 1 \/ row \in 1 .. next \/ row \in next + 1 .. gi
    BY <1>4
  <2>. QED  BY <1>4, <1>5, <2>1, <2>2, <2>3
<1>10. gi + 1 \in Nat /\ all2 \in Seq(Nat)
  BY <1>4, <1>6
<1>11. Exact(all2, gi + 1)
  BY <1>8, <1>9, <1>10 DEF Exact
<1>. QED  BY <1>11 DEF all2

\* Every step of an ingestion keeps what it has stored exact.
LEMMA IngestStep == Ingesting /\ [Sh!Next]_(Sh!vars) => Ingesting'
<1>. SUFFICES ASSUME Ingesting, [Sh!Next]_(Sh!vars) PROVE Ingesting'
  OBVIOUS
<1>1. ASSUME NEW target, Sh!IngestLaunch(target) PROVE Ingesting'
  BY <1>1 DEF Sh!IngestLaunch, Ingesting
<1>2. CASE Sh!IngestDoc
  <2>. DEFINE gi == CHOOSE i \in Sh!ShardStream(ingest.next) : \A j \in Sh!ShardStream(ingest.next) : i <= j
  <2>1. Exact(Append(ingest.docs, gi + 1), gi + 1)
    BY <1>2, ExactStep DEF Sh!IngestDoc, Ingesting
  <2>2. /\ ingest'.docs = Append(ingest.docs, gi + 1) /\ ingest'.next = gi + 1
        /\ \/ disk' = disk
           \/ disk'.docs = Append(ingest.docs, gi + 1) /\ disk'.next = gi + 1
    BY <1>2 DEF Sh!IngestDoc, Sh!ResumeAt
  <2>. HIDE DEF gi
  <2>3. Exact(disk'.docs, disk'.next)
    <3>1. CASE disk' = disk
      <4>1. disk'.docs = disk.docs /\ disk'.next = disk.next
        BY <3>1
      <4>. QED  BY <4>1 DEF Ingesting
    <3>2. CASE disk'.docs = Append(ingest.docs, gi + 1) /\ disk'.next = gi + 1
      BY <2>1, <3>2
    <3>. QED  BY <2>2, <3>1, <3>2
  <2>4. Exact(ingest'.docs, ingest'.next)
    BY <2>1, <2>2
  <2>. QED  BY <2>3, <2>4 DEF Ingesting
<1>3. CASE Sh!IngestEnd
  BY <1>3 DEF Sh!IngestEnd, Ingesting, Sh!NoIngest
<1>4. CASE Sh!IngestCrash
  BY <1>4 DEF Sh!IngestCrash, Ingesting, Sh!NoIngest
<1>5. CASE UNCHANGED <<disk, ingest>>
  BY <1>5 DEF Ingesting
<1>. QED
  BY <1>1, <1>2, <1>3, <1>4, <1>5
  DEF Sh!Next, Sh!vars, Sh!Lease, Sh!ApplyTask, Sh!Materializing, Sh!OpenTmp, Sh!WriteTmp,
      Sh!Rename, Sh!Loaded, Sh!EndTask, Sh!Crash, Sh!Start, Sh!NewRun

\* Wherever an ingestion is killed, and whatever target it is resumed with, its file
\* holds the documents of the shard up to the position it stores, in order, once
\* each (ingest_c4_shard).
THEOREM IngestsAreExact == Sh!Spec => []IngestIsExact
<1>1. Sh!Init => Ingesting
  <2>. SUFFICES ASSUME Sh!Init PROVE Ingesting
    OBVIOUS
  <2>1. Exact(<<>>, 0)
    BY DEF Exact
  <2>. QED  BY <2>1 DEF Sh!Init, Ingesting, Sh!NoIngest
<1>2. Ingesting => IngestIsExact
  <2>. SUFFICES ASSUME Ingesting PROVE IngestIsExact
    OBVIOUS
  <2>1. disk.docs \in Seq(Nat) /\ DOMAIN disk.docs = 1 .. Len(disk.docs) /\ disk.next \in Nat
    BY DEF Ingesting, Exact
  <2>2. \A row \in Nat : (\E i \in 1 .. Len(disk.docs) : disk.docs[i] = row)
                          <=> row \in 1 .. disk.next /\ Mine(row)
    BY DEF Ingesting, Exact
  <2>3. \A i \in 1 .. Len(disk.docs) : disk.docs[i] \in Nat
    BY <2>1
  <2>4. {disk.docs[i] : i \in DOMAIN disk.docs}
          = {row \in 1 .. disk.next : (row - 1) % NumShards = ShardId /\ Sh!Kept(row)}
    <3>1. \A row \in 1 .. disk.next : row \in Nat
      BY <2>1
    <3>. QED  BY <2>1, <2>2, <2>3, <3>1 DEF Mine
  <2>5. \A i, j \in DOMAIN disk.docs : i < j => disk.docs[i] < disk.docs[j]
    BY <2>1 DEF Ingesting, Exact
  <2>. QED  BY <2>4, <2>5 DEF IngestIsExact, Sh!IngestIsExact, Sh!ToSet
<1>. QED  BY <1>1, <1>2, IngestStep, PTL DEF Sh!Spec

-----------------------------------------------------------------------------
(* The shards a worker trains on.  A name in the shared directory always stands  *)
(* for a file opened for its recipe and path, whoever opened it last; a worker's *)
(* cache holds entries of its run alone; and what it was leased agrees with the  *)
(* run wherever it is.                                                          *)

\* The entries a run's workers may keep, the recipes files may be named by, and
\* what the files may hold.
Right(c) == {[path |-> p, shard |-> ShardOf(c, p)] : p \in Sh!PathIdx}
Recipes == {Sh!Build(c).spec : c \in {d \in Configs : d.ship = "spec"}}
Streamed == {Sh!Materialize(x[1], x[2]) : x \in Recipes \X Sh!PathIdx}
Opened == [shard : Streamed, whole : BOOLEAN, by : DataWorker]

\* A name stands for a file that was opened for this recipe and path.
NamesRight(names, nodes) ==
  \A key \in DOMAIN names :
    /\ names[key] \in 1 .. Len(nodes)
    /\ nodes[names[key]].shard = Sh!Materialize(key[1], key[2])

\* What a worker has been leased agrees with the run, wherever it is.
Agrees(c, stage, t, entries) ==
  /\ t = [path |-> t.path, shard |-> t.shard, ships |-> t.ships]
  /\ stage \notin {"idle", "down"} => t.path \in Sh!PathIdx
  /\ stage = "apply" /\ t.ships = "bytes" => t.shard = ShardOf(c, t.path)
  /\ stage = "apply" /\ t.ships = "spec" => c.ship = "spec"
  /\ stage \in {"stream", "write", "rename"} => c.ship = "spec"
  /\ stage = "train" => \E i \in DOMAIN entries : entries[i].path = t.path

Working ==
  /\ cfg \in Configs /\ corpus = Sh!Build(cfg)
  /\ DOMAIN wpc = DataWorker /\ DOMAIN wtask = DataWorker /\ DOMAIN cache = DataWorker
  /\ \A w \in DataWorker : /\ cache[w] \in Seq(Right(cfg))
                            /\ Agrees(cfg, wpc[w], wtask[w], cache[w])

FilesRight ==
  /\ inodes \in Seq(Opened)
  /\ NamesRight(tmp, inodes) /\ NamesRight(file, inodes)

Sharding == Working /\ FilesRight

\* What the proofs use of the constants.
LEMMA CacheHasRoom == CacheSize \in Nat /\ CacheSize >= 1
  BY DataAssumption DEF Sh!ShardsAssumption

\* Paths are cached under the indices of their entries.
LEMMA AtCached ==
  ASSUME NEW w \in DataWorker, NEW S, cache[w] \in Seq(S), NEW p \in Sh!CachedPaths(w)
  PROVE  Sh!At(w, p) \in 1 .. Len(cache[w]) /\ cache[w][Sh!At(w, p)].path = p
<1>1. DOMAIN cache[w] = 1 .. Len(cache[w])
  OBVIOUS
<1>2. \E i \in DOMAIN cache[w] : cache[w][i].path = p
  BY DEF Sh!CachedPaths
<1>. QED  BY <1>1, <1>2 DEF Sh!At

\* Dropping a path's entry leaves entries of the same kind.
LEMMA WithoutRight ==
  ASSUME NEW w \in DataWorker, NEW S, cache[w] \in Seq(S), NEW p
  PROVE  Sh!Without(w, p) \in Seq(S)
<1>1. CASE p \in Sh!CachedPaths(w)
  <2>. DEFINE i == Sh!At(w, p)
  <2>1. i \in 1 .. Len(cache[w]) /\ Len(cache[w]) \in Nat
    BY <1>1, AtCached
  <2>2. SubSeq(cache[w], 1, i - 1) \in Seq(S) /\ SubSeq(cache[w], i + 1, Len(cache[w])) \in Seq(S)
    <3>. HIDE DEF i
    <3>1. \A k \in 1 .. i - 1 : k \in 1 .. Len(cache[w])
      BY <2>1
    <3>2. \A k \in i + 1 .. Len(cache[w]) : k \in 1 .. Len(cache[w])
      BY <2>1
    <3>3. i - 1 \in Int /\ i + 1 \in Int
      BY <2>1
    <3>. QED  BY <2>1, <3>1, <3>2, <3>3, SubSeqProperties
  <2>. QED  BY <1>1, <2>2 DEF Sh!Without, Sh!RemoveAt
<1>2. CASE p \notin Sh!CachedPaths(w)
  BY <1>2 DEF Sh!Without
<1>. QED  BY <1>1, <1>2

\* A shard put in the cache is there afterwards, with entries of the same kind.
LEMMA PutRight ==
  ASSUME NEW w \in DataWorker, NEW S, cache[w] \in Seq(S), NEW p, NEW shard,
         [path |-> p, shard |-> shard] \in S
  PROVE  /\ Sh!Put(w, p, shard) \in Seq(S)
         /\ \E i \in DOMAIN Sh!Put(w, p, shard) : Sh!Put(w, p, shard)[i].path = p
<1>. DEFINE entry == [path |-> p, shard |-> shard]
            most == Append(Sh!Without(w, p), entry)
            n == Len(most)
            first == n - Sh!Least(CacheSize, n) + 1
<1>1. most \in Seq(S) /\ n \in Nat /\ n >= 1 /\ most[n] = entry
  BY WithoutRight
<1>. HIDE DEF most, n
<1>2. Sh!Least(CacheSize, n) \in 1 .. n
  BY <1>1, CacheHasRoom DEF Sh!Least
<1>3. first \in 1 .. n
  BY <1>1, <1>2
<1>. HIDE DEF first
<1>4. Sh!Put(w, p, shard) = SubSeq(most, first, n)
  BY DEF Sh!Put, most, n, first
<1>5. \A k \in first .. n : k \in 1 .. Len(most)
  BY <1>1, <1>3 DEF n
<1>6. /\ SubSeq(most, first, n) \in Seq(S)
      /\ Len(SubSeq(most, first, n)) = n - first + 1
      /\ \A k \in 1 .. n - first + 1 : SubSeq(most, first, n)[k] = most[first + k - 1]
  BY <1>1, <1>3, <1>5, SubSeqProperties
<1>7. n - first + 1 \in 1 .. n - first + 1 /\ first + (n - first + 1) - 1 = n
  BY <1>1, <1>3
<1>8. SubSeq(most, first, n)[n - first + 1] = entry
  BY <1>1, <1>6, <1>7
<1>9. DOMAIN SubSeq(most, first, n) = 1 .. n - first + 1
  BY <1>6
<1>. QED  BY <1>4, <1>6, <1>7, <1>8, <1>9

\* So is one that is looked up.
LEMMA TouchRight ==
  ASSUME NEW w \in DataWorker, NEW c, cache[w] \in Seq(Right(c)), NEW p \in Sh!CachedPaths(w)
  PROVE  /\ Sh!Held(w, p) = ShardOf(c, p)
         /\ Sh!Touch(w, p) \in Seq(Right(c))
         /\ \E i \in DOMAIN Sh!Touch(w, p) : Sh!Touch(w, p)[i].path = p
<1>. DEFINE entry == [path |-> p, shard |-> Sh!Held(w, p)]
            i == Sh!At(w, p)
<1>1. i \in 1 .. Len(cache[w]) /\ cache[w][i].path = p
  BY AtCached
<1>2. cache[w][i] \in Right(c)
  BY <1>1
<1>3. PICK q \in Sh!PathIdx : cache[w][i] = [path |-> q, shard |-> ShardOf(c, q)]
  BY <1>2 DEF Right
<1>4. q = p /\ Sh!Held(w, p) = ShardOf(c, p)
  BY <1>1, <1>3 DEF Sh!Held
<1>5. entry \in Right(c)
  BY <1>3, <1>4 DEF Right
<1>6. Sh!Without(w, p) \in Seq(Right(c))
  BY WithoutRight
<1>. DEFINE old == Sh!Without(w, p)
<1>7. /\ Append(old, entry) \in Seq(Right(c)) /\ Len(old) + 1 \in DOMAIN Append(old, entry)
      /\ Append(old, entry)[Len(old) + 1] = entry
  <2>. HIDE DEF old, entry
  <2>1. old \in Seq(Right(c))
    BY <1>6 DEF old
  <2>. QED  BY <1>5, <2>1
<1>8. Sh!Touch(w, p) = Append(old, entry)
  BY DEF Sh!Touch
<1>. QED  BY <1>4, <1>7, <1>8

\* A run that ships recipes has one, another has none.
LEMMA RecipeOrBytes ==
  ASSUME NEW c \in Configs
  PROVE  /\ c.ship = "spec" => Sh!Build(c).spec # <<>> /\ Sh!Build(c).spec \in Recipes
         /\ c.ship # "spec" => Sh!Build(c).spec = <<>>
<1>1. CASE c.ship = "spec"
  <2>. DEFINE x == Sh!Build(c).spec
  <2>1. x = [budget |-> c.budget, routing |-> Sh!RoutingOf(c), pack |-> c.pack]
    BY <1>1 DEF Sh!Build, Sh!BuildSpecCorpus, Sh!MakeShardSpec
  <2>2. "budget" \in DOMAIN x
    BY <2>1
  <2>3. x # <<>>
    <3>. SUFFICES ASSUME x = <<>> PROVE FALSE
      OBVIOUS
    <3>1. "budget" \notin {}
      OBVIOUS
    <3>2. DOMAIN << >> = {}
      OBVIOUS
    <3>. HIDE DEF x
    <3>. QED  BY <2>2, <3>1, <3>2
  <2>. QED  BY <1>1, <2>3 DEF Recipes
<1>2. CASE c.ship # "spec"
  BY <1>2 DEF Sh!Build, Sh!BuildInHand, Sh!FromAssignments
<1>. QED  BY <1>1, <1>2

\* The recipes name the shards a run streams.
LEMMA StreamedRight ==
  ASSUME Working, cfg.ship = "spec", NEW p \in Sh!PathIdx
  PROVE  /\ corpus.spec \in Recipes
         /\ Sh!Materialize(corpus.spec, p) \in Streamed
         /\ Sh!Materialize(corpus.spec, p) = ShardOf(cfg, p)
         /\ [path |-> p, shard |-> ShardOf(cfg, p)] \in Right(cfg)
<1>1. corpus.spec \in Recipes /\ corpus.spec = Sh!Build(cfg).spec
  BY RecipeOrBytes DEF Working
<1>2. <<corpus.spec, p>> \in Recipes \X Sh!PathIdx
  BY <1>1
<1>3. Sh!Materialize(corpus.spec, p) \in Streamed
  BY <1>2 DEF Streamed
<1>. QED  BY <1>1, <1>3 DEF ShardOf, Right

\* Only one worker moves.
Only(w) ==
  /\ UNCHANGED <<cfg, corpus>>
  /\ DOMAIN wpc' = DataWorker /\ DOMAIN wtask' = DataWorker /\ DOMAIN cache' = DataWorker
  /\ \A v \in DataWorker \ {w} : wpc'[v] = wpc[v] /\ wtask'[v] = wtask[v] /\ cache'[v] = cache[v]

\* A step of one worker leaves the others' shards and reads as they were.
LEMMA OneMoves ==
  ASSUME NEW w \in DataWorker, Working, Only(w), cache'[w] \in Seq(Right(cfg)),
         Agrees(cfg, wpc'[w], wtask'[w], cache'[w])
  PROVE  Working'
<1>1. \A v \in DataWorker : /\ cache'[v] \in Seq(Right(cfg))
                            /\ Agrees(cfg, wpc'[v], wtask'[v], cache'[v])
  BY DEF Working, Only
<1>2. cfg' = cfg /\ corpus' = corpus
  BY DEF Only
<1>3. /\ cfg' \in Configs /\ corpus' = Sh!Build(cfg')
      /\ \A v \in DataWorker : /\ cache'[v] \in Seq(Right(cfg'))
                               /\ Agrees(cfg', wpc'[v], wtask'[v], cache'[v])
  BY <1>1, <1>2 DEF Working
<1>. QED  BY <1>3 DEF Working, Only

\* Every step of a worker keeps the shards of its run.
LEMMA LeaseShards ==
  ASSUME Working, NEW w \in DataWorker, NEW p \in Sh!PathIdx, NEW checkOnly \in BOOLEAN,
         Sh!Lease(w, p, checkOnly)
  PROVE  Working'
<1>1. Only(w) /\ wpc'[w] = "apply" /\ cache'[w] = cache[w] /\ cache[w] \in Seq(Right(cfg))
  BY DEF Working, Sh!Lease, Only
<1>2. wtask'[w] \in {[path |-> p, shard |-> <<>>, ships |-> "nothing"],
                     [path |-> p, shard |-> <<>>, ships |-> "spec"],
                     [path |-> p, shard |-> corpus.sequences[p], ships |-> "bytes"]}
  BY DEF Working, Sh!Lease
<1>3. wtask'[w].ships = "spec" => corpus.spec # <<>>
  BY DEF Working, Sh!Lease
<1>4. wtask'[w].ships = "bytes" => corpus.spec = <<>>
  BY DEF Working, Sh!Lease
<1>5. corpus.spec # <<>> => cfg.ship = "spec"
  BY RecipeOrBytes DEF Working
<1>6. corpus.spec = <<>> => corpus.sequences[p] = ShardOf(cfg, p)
  BY RecipeOrBytes DEF Working, ShardOf
<1>7. Agrees(cfg, wpc'[w], wtask'[w], cache'[w])
  BY <1>1, <1>2, <1>3, <1>4, <1>5, <1>6 DEF Agrees
<1>. QED  BY <1>1, <1>7, OneMoves

\* A task that is taken up finds its shard right, or asks for it to be built.
LEMMA ApplyShards ==
  ASSUME Working, NEW w \in DataWorker, Sh!ApplyTask(w)
  PROVE  Working'
<1>. DEFINE p == wtask[w].path
<1>1. Only(w) /\ wtask'[w] = wtask[w] /\ cache[w] \in Seq(Right(cfg)) /\ wpc[w] = "apply"
  BY DEF Working, Sh!ApplyTask, Only
<1>2. /\ p \in Sh!PathIdx /\ wtask[w] = [path |-> p, shard |-> wtask[w].shard, ships |-> wtask[w].ships]
      /\ wtask[w].ships = "bytes" => wtask[w].shard = ShardOf(cfg, p)
  BY <1>1 DEF Working, Agrees
<1>3. CASE wtask[w].ships = "bytes"
  <2>1. cache'[w] = Sh!Put(w, p, wtask[w].shard) /\ wpc'[w] = "train"
    BY <1>3 DEF Sh!ApplyTask, Working
  <2>2. [path |-> p, shard |-> wtask[w].shard] \in Right(cfg)
    BY <1>2, <1>3 DEF Right
  <2>3. /\ Sh!Put(w, p, wtask[w].shard) \in Seq(Right(cfg))
        /\ \E i \in DOMAIN Sh!Put(w, p, wtask[w].shard) : Sh!Put(w, p, wtask[w].shard)[i].path = p
    <3>. DEFINE shard == wtask[w].shard
    <3>. HIDE DEF p, shard
    <3>. QED  BY <1>1, <2>2, PutRight
  <2>4. Agrees(cfg, wpc'[w], wtask'[w], cache'[w])
    BY <1>1, <1>2, <2>1, <2>3 DEF Agrees
  <2>. QED  BY <1>1, <2>1, <2>3, <2>4, OneMoves
<1>4. CASE wtask[w].ships # "bytes" /\ p \in Sh!CachedPaths(w)
  <2>1. cache'[w] = Sh!Touch(w, p) /\ wpc'[w] = "train"
    BY <1>4 DEF Sh!ApplyTask, Working
  <2>2. /\ Sh!Touch(w, p) \in Seq(Right(cfg))
        /\ \E i \in DOMAIN Sh!Touch(w, p) : Sh!Touch(w, p)[i].path = p
    BY <1>1, <1>4, TouchRight
  <2>3. Agrees(cfg, wpc'[w], wtask'[w], cache'[w])
    BY <1>1, <1>2, <2>1, <2>2 DEF Agrees
  <2>. QED  BY <1>1, <2>1, <2>2, <2>3, OneMoves
<1>5. CASE wtask[w].ships # "bytes" /\ p \notin Sh!CachedPaths(w)
  <2>1. cache'[w] = cache[w] /\ wpc'[w] = "missing"
    BY <1>5 DEF Sh!ApplyTask, Working
  <2>2. Agrees(cfg, wpc'[w], wtask'[w], cache'[w])
    BY <1>1, <1>2, <2>1 DEF Agrees
  <2>. QED  BY <1>1, <2>1, <2>2, OneMoves
<1>. QED  BY <1>3, <1>4, <1>5

\* Looking for the file of a shard keeps all held shards right.
LEMMA MaterializingShards ==
  ASSUME Sharding, NEW w \in DataWorker, Sh!Materializing(w)
  PROVE  Working'
<1>. DEFINE p == wtask[w].path
            key == Sh!CacheKey(corpus.spec, p)
            held == inodes[file[key]].shard
<1>. USE DEF Sharding
<1>1. /\ Only(w) /\ wtask'[w] = wtask[w] /\ cache[w] \in Seq(Right(cfg)) /\ wpc[w] = "apply"
      /\ wtask[w].ships = "spec"
  BY DEF Working, Sh!Materializing, Only, Sh!NeedsMaterializing
<1>2. /\ p \in Sh!PathIdx /\ wtask[w] = [path |-> p, shard |-> wtask[w].shard, ships |-> wtask[w].ships]
      /\ cfg.ship = "spec"
  BY <1>1 DEF Working, Agrees
<1>3. wpc'[w] \in {"down", "loaded", "stream"}
  BY DEF Sh!Materializing, Working
<1>4. Agrees(cfg, wpc'[w], wtask'[w], cache'[w])
  BY <1>1, <1>2, <1>3 DEF Agrees
<1>5. cache'[w] = cache[w] \/ (key \in DOMAIN file /\ cache'[w] = Sh!Put(w, p, held))
  BY DEF Sh!Materializing, Working
<1>6. ASSUME key \in DOMAIN file PROVE Sh!Put(w, p, held) \in Seq(Right(cfg))
  <2>1. held = Sh!Materialize(corpus.spec, p)
    BY <1>6 DEF FilesRight, NamesRight, Sh!CacheKey
  <2>2. [path |-> p, shard |-> held] \in Right(cfg)
    BY <1>2, <2>1, StreamedRight
  <2>. QED  BY <1>1, <2>2, PutRight
<1>7. cache'[w] \in Seq(Right(cfg))
  BY <1>1, <1>5, <1>6
<1>. QED  BY <1>1, <1>4, <1>7, OneMoves

\* Opening the temporary file empties it, which spoils nobody's shard.
LEMMA OpenTmpShards ==
  ASSUME Sharding, NEW w \in DataWorker, Sh!OpenTmp(w)
  PROVE  Sharding'
<1>. DEFINE p == wtask[w].path
            key == Sh!CacheKey(corpus.spec, p)
            new == Sh!Materialize(corpus.spec, p)
            entry == [shard |-> new, whole |-> FALSE, by |-> w]
<1>. USE DEF Sharding
<1>1. /\ Only(w) /\ cache[w] \in Seq(Right(cfg)) /\ cache'[w] = cache[w] /\ wpc[w] = "stream"
      /\ wpc'[w] = "write"
  BY DEF Working, Sh!OpenTmp, Only
<1>2. /\ p \in Sh!PathIdx /\ wtask[w] = [path |-> p, shard |-> wtask[w].shard, ships |-> wtask[w].ships]
      /\ cfg.ship = "spec"
  BY <1>1 DEF Working, Agrees
<1>3. \E x : wtask'[w] = [path |-> p, shard |-> x, ships |-> wtask[w].ships]
  <2>1. \/ wtask' = [wtask EXCEPT ![w].shard = <<tmp[key]>>]
        \/ wtask' = [wtask EXCEPT ![w].shard = <<Len(inodes) + 1>>]
    BY DEF Sh!OpenTmp
  <2>2. ASSUME NEW x, wtask' = [wtask EXCEPT ![w].shard = x]
        PROVE  wtask'[w] = [path |-> p, shard |-> x, ships |-> wtask[w].ships]
    <3>1. wtask'[w] = [wtask[w] EXCEPT !.shard = x]
      BY <2>2 DEF Working
    <3>2. \A a, b, d : [[path |-> a, shard |-> b, ships |-> d] EXCEPT !.shard = x]
                         = [path |-> a, shard |-> x, ships |-> d]
      OBVIOUS
    <3>. QED  BY <1>2, <3>1, <3>2
  <2>3. CASE wtask' = [wtask EXCEPT ![w].shard = <<tmp[key]>>]
    BY <2>2, <2>3
  <2>4. CASE wtask' = [wtask EXCEPT ![w].shard = <<Len(inodes) + 1>>]
    BY <2>2, <2>4
  <2>. QED  BY <2>1, <2>3, <2>4
<1>4. Agrees(cfg, wpc'[w], wtask'[w], cache'[w])
  BY <1>1, <1>2, <1>3 DEF Agrees
<1>5. Working'
  BY <1>1, <1>4, OneMoves
<1>6. entry \in Opened /\ inodes \in Seq(Opened) /\ entry.shard = new
  BY <1>2, StreamedRight DEF FilesRight, Opened
<1>7. CASE key \in DOMAIN tmp
  <2>1. inodes' = [inodes EXCEPT ![tmp[key]] = entry] /\ tmp' = tmp /\ file' = file
    BY <1>7 DEF Sh!OpenTmp
  <2>2. tmp[key] \in 1 .. Len(inodes) /\ inodes[tmp[key]].shard = new
    BY <1>7 DEF FilesRight, NamesRight, Sh!CacheKey
  <2>3. /\ inodes' \in Seq(Opened) /\ Len(inodes') = Len(inodes)
        /\ \A i \in 1 .. Len(inodes) : inodes'[i].shard = inodes[i].shard
    <3>. HIDE DEF entry, key, new
    <3>. QED  BY <1>6, <2>1, <2>2
  <2>4. NamesRight(tmp', inodes') /\ NamesRight(file', inodes')
    BY <2>1, <2>3 DEF FilesRight, NamesRight
  <2>. QED  BY <1>5, <2>3, <2>4 DEF FilesRight
<1>8. CASE key \notin DOMAIN tmp
  <2>1. /\ inodes' = Append(inodes, entry) /\ file' = file
        /\ tmp' = [k \in DOMAIN tmp \cup {key} |-> IF k = key THEN Len(inodes) + 1 ELSE tmp[k]]
    BY <1>8 DEF Sh!OpenTmp
  <2>2. /\ inodes' \in Seq(Opened) /\ Len(inodes') = Len(inodes) + 1 /\ Len(inodes) \in Nat
        /\ \A i \in 1 .. Len(inodes) : inodes'[i] = inodes[i]
        /\ inodes'[Len(inodes) + 1] = entry
    <3>. HIDE DEF entry
    <3>. QED  BY <1>6, <2>1
  <2>3. key[1] = corpus.spec /\ key[2] = p
    BY DEF Sh!CacheKey
  <2>4. NamesRight(file', inodes')
    BY <2>1, <2>2 DEF FilesRight, NamesRight
  <2>5. ASSUME NEW k \in DOMAIN tmp'
        PROVE  tmp'[k] \in 1 .. Len(inodes') /\ inodes'[tmp'[k]].shard = Sh!Materialize(k[1], k[2])
    <3>1. CASE k = key
      BY <1>6, <2>1, <2>2, <2>3, <3>1
    <3>2. CASE k # key
      <4>1. k \in DOMAIN tmp /\ tmp'[k] = tmp[k]
        BY <2>1, <3>2
      <4>. QED  BY <2>2, <4>1 DEF FilesRight, NamesRight
    <3>. QED  BY <3>1, <3>2
  <2>6. NamesRight(tmp', inodes')
    BY <2>5 DEF NamesRight
  <2>. QED  BY <1>5, <2>2, <2>4, <2>6 DEF FilesRight
<1>. QED  BY <1>7, <1>8

\* What is written to a temporary file is what its name stands for.
LEMMA WriteTmpShards ==
  ASSUME Sharding, NEW w \in DataWorker, Sh!WriteTmp(w)
  PROVE  Sharding'
<1>. USE DEF Sharding
<1>. DEFINE i == wtask[w].shard[1]
            mine == inodes[i].by = w
<1>1. /\ Only(w) /\ cache[w] \in Seq(Right(cfg)) /\ cache'[w] = cache[w] /\ wpc[w] = "write"
      /\ wpc'[w] = "rename" /\ wtask'[w] = wtask[w]
  BY DEF Working, Sh!WriteTmp, Only
<1>2. Agrees(cfg, wpc'[w], wtask'[w], cache'[w])
  BY <1>1 DEF Agrees, Working
<1>3. Working'
  BY <1>1, <1>2, OneMoves
<1>4. /\ inodes' = [inodes EXCEPT ![i] = [inodes[i] EXCEPT !.whole = inodes[i].whole \/ mine]]
      /\ tmp' = tmp /\ file' = file
  BY DEF Sh!WriteTmp
<1>5. inodes \in Seq(Opened) /\ DOMAIN inodes = 1 .. Len(inodes)
  BY DEF FilesRight
<1>6. ASSUME NEW j \in 1 .. Len(inodes)
      PROVE  inodes'[j] \in Opened /\ inodes'[j].shard = inodes[j].shard
  <2>1. CASE j # i
    BY <1>4, <1>5, <2>1
  <2>2. CASE j = i
    <3>1. inodes[j] \in Opened /\ (inodes[i].whole \/ mine) \in BOOLEAN
      BY <1>5
    <3>2. inodes'[j] = [inodes[j] EXCEPT !.whole = inodes[i].whole \/ mine]
      BY <1>4, <1>5, <2>2
    <3>3. \A e \in Opened, b \in BOOLEAN :
            [e EXCEPT !.whole = b] \in Opened /\ [e EXCEPT !.whole = b].shard = e.shard
      BY DEF Opened
    <3>. HIDE DEF i, mine
    <3>. QED  BY <3>1, <3>2, <3>3
  <2>. QED  BY <2>1, <2>2
<1>7. inodes' \in Seq(Opened) /\ Len(inodes') = Len(inodes)
  <2>1. DOMAIN inodes' = 1 .. Len(inodes) /\ Len(inodes) \in Nat
    BY <1>4, <1>5
  <2>2. inodes' = [j \in 1 .. Len(inodes) |-> inodes'[j]]
    BY <1>4, <1>5
  <2>3. inodes' \in [1 .. Len(inodes) -> Opened]
    BY <1>6, <2>2
  <2>. QED  BY <2>1, <2>3
<1>8. NamesRight(tmp', inodes') /\ NamesRight(file', inodes')
  BY <1>4, <1>6, <1>7 DEF FilesRight, NamesRight
<1>. QED  BY <1>3, <1>7, <1>8 DEF FilesRight

\* A file that is renamed into place holds what its name stands for, or is torn.
LEMMA RenameShards ==
  ASSUME Sharding, NEW w \in DataWorker, Sh!Rename(w)
  PROVE  Sharding'
<1>. USE DEF Sharding
<1>. DEFINE p == wtask[w].path
            key == Sh!CacheKey(corpus.spec, p)
            new == Sh!Materialize(corpus.spec, p)
<1>1. Only(w) /\ cache[w] \in Seq(Right(cfg)) /\ wpc[w] = "rename" /\ inodes' = inodes
  BY DEF Working, Sh!Rename, Only
<1>2. /\ p \in Sh!PathIdx /\ wtask[w] = [path |-> p, shard |-> wtask[w].shard, ships |-> wtask[w].ships]
      /\ cfg.ship = "spec"
  BY <1>1 DEF Working, Agrees
<1>3. CASE key \in DOMAIN tmp
  <2>1. /\ cache'[w] = Sh!Put(w, p, new) /\ wpc'[w] = "loaded" /\ wtask'[w] = wtask[w]
        /\ file' = [k \in DOMAIN file \cup {key} |-> IF k = key THEN tmp[key] ELSE file[k]]
        /\ tmp' = [k \in DOMAIN tmp \ {key} |-> tmp[k]]
    BY <1>3 DEF Sh!Rename, Working
  <2>2. Sh!Put(w, p, new) \in Seq(Right(cfg))
    <3>1. [path |-> p, shard |-> new] \in Right(cfg)
      BY <1>2, StreamedRight
    <3>. HIDE DEF p, new
    <3>. QED  BY <1>1, <3>1, PutRight
  <2>3. Agrees(cfg, wpc'[w], wtask'[w], cache'[w])
    BY <1>2, <2>1 DEF Agrees
  <2>4. Working'
    BY <1>1, <2>1, <2>2, <2>3, OneMoves
  <2>5. NamesRight(file', inodes')
    BY <1>1, <1>3, <2>1 DEF FilesRight, NamesRight
  <2>6. NamesRight(tmp', inodes')
    BY <1>1, <2>1 DEF FilesRight, NamesRight
  <2>. QED  BY <1>1, <2>4, <2>5, <2>6 DEF FilesRight
<1>4. CASE key \notin DOMAIN tmp
  <2>1. /\ cache'[w] = cache[w] /\ wpc'[w] = "idle" /\ wtask'[w] = Sh!NoTask
        /\ UNCHANGED <<inodes, tmp, file>>
    BY <1>4 DEF Sh!Rename, Working
  <2>2. Agrees(cfg, wpc'[w], wtask'[w], cache'[w])
    BY <2>1 DEF Agrees, Sh!NoTask
  <2>3. Working'
    BY <1>1, <2>1, <2>2, OneMoves
  <2>. QED  BY <2>1, <2>3 DEF FilesRight
<1>. QED  BY <1>3, <1>4

\* A shard that was loaded is the one the task is for.
LEMMA LoadedShards ==
  ASSUME Working, NEW w \in DataWorker, Sh!Loaded(w)
  PROVE  Working'
<1>. DEFINE p == wtask[w].path
<1>1. Only(w) /\ wtask'[w] = wtask[w] /\ cache[w] \in Seq(Right(cfg)) /\ wpc[w] = "loaded"
  BY DEF Working, Sh!Loaded, Only
<1>2. p \in Sh!PathIdx /\ wtask[w] = [path |-> p, shard |-> wtask[w].shard, ships |-> wtask[w].ships]
  BY <1>1 DEF Working, Agrees
<1>3. CASE p \in Sh!CachedPaths(w)
  <2>1. cache'[w] = Sh!Touch(w, p) /\ wpc'[w] = "train"
    BY <1>3 DEF Sh!Loaded, Working
  <2>2. /\ Sh!Touch(w, p) \in Seq(Right(cfg))
        /\ \E i \in DOMAIN Sh!Touch(w, p) : Sh!Touch(w, p)[i].path = p
    BY <1>1, <1>3, TouchRight
  <2>3. Agrees(cfg, wpc'[w], wtask'[w], cache'[w])
    BY <1>1, <1>2, <2>1, <2>2 DEF Agrees
  <2>. QED  BY <1>1, <2>1, <2>2, <2>3, OneMoves
<1>4. CASE p \notin Sh!CachedPaths(w)
  <2>1. cache'[w] = cache[w] /\ wpc'[w] = "missing"
    BY <1>4 DEF Sh!Loaded, Working
  <2>2. Agrees(cfg, wpc'[w], wtask'[w], cache'[w])
    BY <1>1, <1>2, <2>1 DEF Agrees
  <2>. QED  BY <1>1, <2>1, <2>2, OneMoves
<1>. QED  BY <1>3, <1>4

\* Tasks that end, workers that crash or start, and new runs keep shards right.
LEMMA StopShards ==
  ASSUME Working, NEW w \in DataWorker, Sh!EndTask(w) \/ Sh!Crash(w) \/ Sh!Start(w)
  PROVE  Working'
<1>1. Only(w) /\ wpc'[w] \in {"idle", "down"} /\ cache'[w] \in {cache[w], <<>>}
      /\ wtask'[w] \in {wtask[w], Sh!NoTask}
  BY DEF Working, Sh!EndTask, Sh!Crash, Sh!Start, Only
<1>2. cache[w] \in Seq(Right(cfg)) /\ <<>> \in Seq(Right(cfg))
  BY DEF Working
<1>3. wtask'[w] = [path |-> wtask'[w].path, shard |-> wtask'[w].shard, ships |-> wtask'[w].ships]
  <2>1. CASE wtask'[w] = wtask[w]
    BY <2>1 DEF Working, Agrees
  <2>2. CASE wtask'[w] = Sh!NoTask
    BY <2>2 DEF Sh!NoTask
  <2>. QED  BY <1>1, <2>1, <2>2
<1>4. Agrees(cfg, wpc'[w], wtask'[w], cache'[w])
  BY <1>1, <1>3 DEF Agrees
<1>. QED  BY <1>1, <1>2, <1>4, OneMoves

\* Workers of a run that starts have been leased nothing.
LEMMA FreshRun ==
  ASSUME NEW c \in Configs, NEW v \in DataWorker
  PROVE  <<>> \in Seq(Right(c)) /\ Agrees(c, "idle", Sh!NoTask, <<>>)
BY DEF Agrees, Sh!NoTask

\* Every step of the data pipeline keeps shards and files right.
LEMMA ShardingStep == Sharding /\ [Sh!Next]_(Sh!vars) => Sharding'
<1>. SUFFICES ASSUME Sharding, [Sh!Next]_(Sh!vars) PROVE Sharding'
  OBVIOUS
<1>1. Working /\ FilesRight
  BY DEF Sharding
<1>2. UNCHANGED <<inodes, tmp, file>> => FilesRight'
  BY <1>1 DEF FilesRight
<1>3. ASSUME NEW w \in DataWorker, NEW p \in Sh!PathIdx, NEW checkOnly \in BOOLEAN,
             Sh!Lease(w, p, checkOnly)
      PROVE  Sharding'
  <2>1. Working'
    BY <1>1, <1>3, LeaseShards
  <2>2. UNCHANGED <<inodes, tmp, file>>
    BY <1>3 DEF Sh!Lease, Sh!files
  <2>. QED  BY <1>2, <2>1, <2>2 DEF Sharding
<1>4. ASSUME NEW w \in DataWorker, Sh!ApplyTask(w) \/ Sh!Loaded(w) PROVE Sharding'
  <2>1. Working'
    BY <1>1, <1>4, ApplyShards, LoadedShards
  <2>2. UNCHANGED <<inodes, tmp, file>>
    BY <1>4 DEF Sh!ApplyTask, Sh!Loaded, Sh!files
  <2>. QED  BY <1>2, <2>1, <2>2 DEF Sharding
<1>5. ASSUME NEW w \in DataWorker, Sh!Materializing(w) PROVE Sharding'
  <2>1. Working'
    BY <1>5, MaterializingShards
  <2>2. UNCHANGED <<inodes, tmp, file>>
    BY <1>5 DEF Sh!Materializing, Sh!files
  <2>. QED  BY <1>2, <2>1, <2>2 DEF Sharding
<1>6. ASSUME NEW w \in DataWorker, Sh!OpenTmp(w) \/ Sh!WriteTmp(w) \/ Sh!Rename(w) PROVE Sharding'
  BY <1>6, OpenTmpShards, WriteTmpShards, RenameShards
<1>7. ASSUME NEW w \in DataWorker, Sh!EndTask(w) \/ Sh!Crash(w) \/ Sh!Start(w) PROVE Sharding'
  <2>1. Working'
    BY <1>1, <1>7, StopShards
  <2>2. UNCHANGED <<inodes, tmp, file>>
    BY <1>7 DEF Sh!EndTask, Sh!Crash, Sh!Start, Sh!files
  <2>. QED  BY <1>2, <2>1, <2>2 DEF Sharding
<1>8. ASSUME NEW c \in Configs, Sh!NewRun(c) PROVE Sharding'
  <2>1. /\ cfg' = c /\ corpus' = Sh!Build(c) /\ wpc' = [w \in DataWorker |-> "idle"]
        /\ wtask' = [w \in DataWorker |-> Sh!NoTask] /\ cache' = [w \in DataWorker |-> <<>>]
        /\ UNCHANGED <<inodes, tmp, file>>
    BY <1>8 DEF Sh!NewRun, Sh!files
  <2>2. Working'
    BY <2>1, FreshRun DEF Working
  <2>. QED  BY <1>2, <2>1, <2>2 DEF Sharding
<1>9. CASE UNCHANGED <<cfg, corpus, wpc, wtask, cache, inodes, tmp, file>>
  BY <1>1, <1>9 DEF Sharding, Working, FilesRight
<1>10. (\/ \E target \in Targets : Sh!IngestLaunch(target)
        \/ Sh!IngestDoc \/ Sh!IngestEnd \/ Sh!IngestCrash \/ UNCHANGED Sh!vars)
         => UNCHANGED <<cfg, corpus, wpc, wtask, cache, inodes, tmp, file>>
  BY DEF Sh!IngestLaunch, Sh!IngestDoc, Sh!IngestEnd, Sh!IngestCrash, Sh!vars, Sh!workers, Sh!files
<1>. QED  BY <1>3, <1>4, <1>5, <1>6, <1>7, <1>8, <1>9, <1>10 DEF Sh!Next

\* At the start nobody holds a shard, and there are no files.
LEMMA ShardingInit == Sh!Init => Sharding
<1>. SUFFICES ASSUME Sh!Init PROVE Sharding
  OBVIOUS
<1>1. Working
  BY FreshRun DEF Sh!Init, Working
<1>2. DOMAIN << >> = {} /\ <<>> \in Seq(Opened)
  OBVIOUS
<1>3. FilesRight
  BY <1>2 DEF Sh!Init, FilesRight, NamesRight
<1>. QED  BY <1>1, <1>3 DEF Sharding

\* A worker that trains holds the shard of its path in the current run.
HoldsItsShard ==
  \A w \in DataWorker : wpc[w] = "train" => Sh!Held(w, wtask[w].path) = ShardOf(cfg, wtask[w].path)

\* Then a worker that trains holds its shard.
LEMMA ShardingHolds == Sharding => HoldsItsShard
<1>. SUFFICES ASSUME Sharding, NEW w \in DataWorker, wpc[w] = "train"
              PROVE  Sh!Held(w, wtask[w].path) = ShardOf(cfg, wtask[w].path)
  BY DEF HoldsItsShard
<1>. DEFINE p == wtask[w].path
<1>1. p \in Sh!CachedPaths(w) /\ cache[w] \in Seq(Right(cfg))
  BY DEF Sharding, Working, Agrees, Sh!CachedPaths
<1>. QED  BY <1>1, TouchRight

\* A worker trains on the shard its run's server packed, or on what its run's
\* recipe streams for the path: never on another run's, another path's or one
\* that was written over.
THEOREM WorkersTrainOnTheirShards == Sh!Spec => []HoldsItsShard
BY ShardingInit, ShardingStep, ShardingHolds, PTL DEF Sh!Spec

\* Then a worker trains on exactly the run's documents of its path, and the server
\* weighs the path by their tokens.
THEOREM ShardsAreOfTheRuns == ASSUME SourceAgrees PROVE Sh!Spec => []ShardsAreTheRuns
<1>1. Sharding => ShardsAreTheRuns
  <2>. SUFFICES ASSUME Sharding, NEW w \in DataWorker, wpc[w] = "train"
                PROVE  LET p == wtask[w].path
                       IN /\ Sh!Held(w, p) = Sh!ToSequences(cfg.pack, Sh!Routed(cfg, p))
                          /\ corpus.tokenCounts[p] = Sh!NumTokens(Sh!Routed(cfg, p))
    BY DEF ShardsAreTheRuns, Sh!ShardsAreTheRuns
  <2>1. wtask[w].path \in Sh!PathIdx /\ cfg \in Configs /\ corpus = Sh!Build(cfg)
    BY DEF Sharding, Working, Agrees
  <2>2. Sh!Held(w, wtask[w].path) = ShardOf(cfg, wtask[w].path)
    BY ShardingHolds DEF HoldsItsShard
  <2>. QED  BY <2>1, <2>2 DEF SourceAgrees
<1>. QED  BY <1>1, ShardingInit, ShardingStep, PTL DEF Sh!Spec

-----------------------------------------------------------------------------
(* A host does one of the two jobs, and the other rests. *)

\* A host behaves as a rank of the trainer and as one of the data pipeline.
LEMMA HostsDoTheirJobs == EitherSpec => JobSpec /\ Sh!Spec
<1>1. EitherInit => JobInit /\ Sh!Init
  BY DEF EitherInit
<1>2. [EitherNext]_all => [JobNext]_jobVars /\ [Sh!Next]_(Sh!vars)
  BY DEF EitherNext, Train, Data, all, data, Sh!vars, Sh!workers, Sh!files
<1>. QED  BY <1>1, <1>2, PTL DEF EitherSpec, JobSpec, Sh!Spec

\* What is proved of the ranks, of the workers and of an ingestion holds of every
\* host, whichever job it was launched with.
THEOREM HostsAreRight ==
  EitherSpec => [](SumsOneRound /\ RunsAreExact /\ HoldsItsShard /\ IngestIsExact)
BY HostsDoTheirJobs, RoundsAreNotMixed, RunsAreTheUninterrupted, WorkersTrainOnTheirShards,
   IngestsAreExact, PTL

=============================================================================
