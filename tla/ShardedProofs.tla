--------------------------- MODULE ShardedProofs ---------------------------
(***************************************************************************)
(* What holds of Sharded for every value of its constants: any number of   *)
(* workers, owners, paths, keys and faults.                                *)
(*                                                                         *)
(* Each invariant has a strengthening that every step keeps: Fence (who    *)
(* holds which token), Lands (what an owner that never went down has       *)
(* applied), Counts (which updates the files and the clocks share) and     *)
(* Recoverable (what is on disk).  A lemma named ...Step says which steps  *)
(* can disturb the variables a strengthening is about, and what the others *)
(* leave alone; the preservation proofs split on it.                       *)
(***************************************************************************)
EXTENDS Sharded, FiniteSetTheorems, SequenceTheorems, TLAPS

-----------------------------------------------------------------------------
\* What the assumption on the constants says of each.
LEMMA Constants ==
  /\ NumOwners \in Nat /\ NumGenerations \in Nat /\ MoreGenerations \in Nat /\ StalenessBound \in Nat
  /\ CheckpointEvery \in Nat /\ MaxToken \in Nat /\ MaxFaults \in Nat
  /\ Slow \subseteq Worker /\ NoLease \notin Token
  /\ Torn # NoFile /\ \A S \in SUBSET Token : S # NoFile /\ S # Torn
  /\ Keys \in [Path -> SUBSET Key] /\ DOMAIN Dir = Owner
  /\ IsFiniteSet(Path) /\ Cardinality(Path) \in Nat
  /\ \A o \in Owner : Dir[o] \in Directory
BY ConstantAssumption, FS_CardinalityType DEF Directory, Range

\* A key's primary is one of its owners.
LEMMA Primaries ==
  ASSUME NEW k \in Key
  PROVE  /\ Primary(k) \in Owner /\ Primary(k) \in Range(Replicas[k])
         /\ k \in Holds(Primary(k)) /\ Range(Replicas[k]) \subseteq Owner
<1>1. Replicas[k] \in Seq(Owner) /\ Replicas[k] # <<>>
  BY ConstantAssumption
<1>. QED  BY <1>1 DEF Primary, Range, Holds

\* There are finitely many tokens, so that a set of them has a size.
LEMMA FiniteTokens == IsFiniteSet(Token) /\ \A S \in SUBSET Token : IsFiniteSet(S) /\ Cardinality(S) \in Nat
<1>1. IsFiniteSet(1 .. MaxToken)
  BY FS_Interval, Constants
<1>2. IsFiniteSet(Token)
  BY <1>1, FS_Product, Constants DEF Token
<1>. QED  BY <1>2, FS_Subset, FS_CardinalityType

\* What a module has absorbed is counted, and the version is a number.
LEMMA Versions ==
  ASSUME TypeOK
  PROVE  \A o \in Owner, k \in Key : Ver(o, k) \in Nat
BY FiniteTokens DEF TypeOK, ServerTypes, Ver

LEMMA NoSaveType == NoSave \in SaveState
BY DEF NoSave, SaveState

LEMMA IdleType ==
  /\ Idle \in WorkerState /\ Away \in WorkerState
  /\ [Away EXCEPT !.at = "gone"] \in WorkerState
BY DEF Idle, Away, WorkerState, Version

\* Type correctness.
LEMMA InitType == Init => TypeOK
<1> SUFFICES ASSUME Init PROVE TypeOK
  OBVIOUS
<1>1. target \in Nat
  BY Constants DEF Init
<1>2. \A o \in Owner : Holds(o) \subseteq Key
  BY DEF Holds
<1>. USE DEF Init, NoVersions, NoCkpt, NoClock, Version
<1>3. ClockTypes
  BY <1>1 DEF ClockTypes
<1>4. CheckpointTypes
  BY DEF CheckpointTypes
<1>5. ServerTypes
  BY <1>2, NoSaveType DEF ServerTypes, NoSave
<1>6. HistoryTypes
  BY DEF HistoryTypes
<1>. QED
  BY <1>3, <1>4, <1>5, <1>6, IdleType DEF TypeOK

\* What a step leaves alone keeps its type.
LEMMA Frame ==
  ASSUME TypeOK
  PROVE  /\ UNCHANGED clock => ClockTypes'
         /\ UNCHANGED checkpoint => CheckpointTypes'
         /\ UNCHANGED servers => ServerTypes'
         /\ UNCHANGED history => HistoryTypes'
         /\ UNCHANGED worker => worker' \in [Worker -> WorkerState]
         /\ Fault \/ UNCHANGED faults => faults' \in Nat
<1>1. UNCHANGED clock => ClockTypes'
  BY DEF TypeOK, ClockTypes, clock
<1>2. UNCHANGED checkpoint => CheckpointTypes'
  BY DEF TypeOK, CheckpointTypes, checkpoint
<1>3. UNCHANGED servers => ServerTypes'
  BY DEF TypeOK, ServerTypes, servers
<1>4. UNCHANGED history => HistoryTypes'
  BY DEF TypeOK, HistoryTypes, history
<1>. QED  BY <1>1, <1>2, <1>3, <1>4 DEF TypeOK, Fault

\* Freeing a lease leaves a lease table.
LEMMA FreedType ==
  ASSUME ClockTypes, NEW p
  PROVE  /\ Freed(p) \in [Path -> Token \cup {NoLease}]
         /\ \A q \in Path : Freed(p)[q] # NoLease => Freed(p)[q][1] = q
BY DEF ClockTypes, Freed

-----------------------------------------------------------------------------
\* Each step keeps the types: leases.
LEMMA RequestTypes ==
  ASSUME TypeOK, NEW w \in Worker, Request(w)
  PROVE  TypeOK'
<1>0. UNCHANGED <<sch, T, target, completed, measured, checkpoint, servers, history, faults>>
  BY DEF Request
<1>1. resting' \subseteq Slow
  BY DEF Request, TypeOK, ClockTypes, TooSlow
<1>2. CASE UNCHANGED <<lease, issued, worker>>
  <2>1. ClockTypes'
    BY <1>0, <1>1, <1>2 DEF TypeOK, ClockTypes
  <2>. QED  BY <1>0, <1>2, <2>1, Frame DEF TypeOK
<1>3. CASE \E p \in Eligible : \E n \in Unused(p) :
             /\ lease' = [lease EXCEPT ![p] = <<p, n>>]
             /\ worker' = [worker EXCEPT ![w] =
                  [Idle EXCEPT !.at = "leased", !.token = <<p, n>>, !.gen = completed[p]]]
             /\ issued' = [issued EXCEPT ![p] = T]
  <2>1. PICK p \in Path, n \in 1 .. MaxToken :
             /\ lease' = [lease EXCEPT ![p] = <<p, n>>]
             /\ worker' = [worker EXCEPT ![w] =
                  [Idle EXCEPT !.at = "leased", !.token = <<p, n>>, !.gen = completed[p]]]
             /\ issued' = [issued EXCEPT ![p] = T]
    BY <1>3 DEF Eligible, Unused
  <2>2. <<p, n>> \in Token /\ completed[p] \in Nat /\ <<p, n>> # NoLease
    BY Constants DEF Token, TypeOK, ClockTypes
  <2>3. [Idle EXCEPT !.at = "leased", !.token = <<p, n>>, !.gen = completed[p]] \in WorkerState
    BY <2>2 DEF Idle, WorkerState, Version
  <2>4. worker' \in [Worker -> WorkerState]
    BY <2>1, <2>3 DEF TypeOK
  <2>5. /\ lease' \in [Path -> Token \cup {NoLease}]
        /\ \A q \in Path : lease'[q] # NoLease => lease'[q][1] = q
        /\ issued' \in [Path -> Nat]
    BY <2>1, <2>2 DEF TypeOK, ClockTypes
  <2>6. ClockTypes'
    BY <1>0, <1>1, <2>5 DEF TypeOK, ClockTypes
  <2>. QED
    BY <1>0, <2>4, <2>6, Frame DEF TypeOK
<1>. QED  BY <1>2, <1>3 DEF Request

LEMMA LeaseTypes ==
  ASSUME TypeOK,
         \/ \E w \in Worker : Rested(w) \/ Leave(w)
         \/ \E p \in Path : Reclaim(p)
  PROVE  TypeOK'
<1>1. ASSUME NEW w \in Worker, Rested(w)
      PROVE  TypeOK'
  <2>1. ClockTypes'
    BY <1>1 DEF TypeOK, ClockTypes, Rested
  <2>. QED  BY <1>1, <2>1, Frame DEF TypeOK, Rested
<1>2. ASSUME NEW w \in Worker, Leave(w)
      PROVE  TypeOK'
  <2>1. worker' \in [Worker -> WorkerState]
    BY <1>2, IdleType DEF TypeOK, Leave
  <2>2. ClockTypes'
    BY <1>2, FreedType DEF TypeOK, ClockTypes, Leave
  <2>. QED  BY <1>2, <2>1, <2>2, Frame DEF TypeOK, Leave
<1>3. ASSUME NEW p \in Path, Reclaim(p)
      PROVE  TypeOK'
  <2>1. ClockTypes'
    BY <1>3, FreedType DEF TypeOK, ClockTypes, Reclaim
  <2>. QED  BY <1>3, <2>1, Frame DEF TypeOK, Reclaim
<1>. QED  BY <1>1, <1>2, <1>3

\* The worker: fetch, commit, reconnect.
\* A worker's own steps, but for commits and pushes.
LEMMA WorkerTypes ==
  ASSUME TypeOK, NEW w \in Worker,
         \/ Train(w) \/ FetchFails(w) \/ Disconnect(w) \/ Reconnect(w) \/ WorkerCrash(w)
  PROVE  TypeOK'
<1>1. worker[w] \in WorkerState
  BY DEF TypeOK
<1>2. CASE Train(w)
  <2>1. worker' = [worker EXCEPT ![w] = [worker[w] EXCEPT !.at = "trained"]]
    BY <1>2 DEF Train, TypeOK
  <2>2. [worker[w] EXCEPT !.at = "trained"] \in WorkerState
    BY <1>1, <1>2 DEF Train, WorkerState
  <2>. QED  BY <1>2, <2>1, <2>2, Frame DEF TypeOK, Train
<1>3. CASE FetchFails(w) \/ Disconnect(w) \/ Reconnect(w)
  <2>1. worker' \in [Worker -> WorkerState]
    BY <1>3, IdleType DEF FetchFails, Disconnect, Reconnect, TypeOK
  <2>. QED  BY <1>3, <2>1, Frame DEF TypeOK, FetchFails, Disconnect, Reconnect
<1>4. CASE WorkerCrash(w)
  <2>1. worker[w].token \in Token
    BY <1>1, <1>4 DEF WorkerCrash, WorkerState
  <2>2. HistoryTypes'
    BY <1>4, <2>1 DEF WorkerCrash, TypeOK, HistoryTypes
  <2>3. ClockTypes'
    BY <1>4 DEF WorkerCrash, TypeOK, ClockTypes
  <2>4. worker' \in [Worker -> WorkerState]
    BY <1>4, IdleType DEF WorkerCrash, TypeOK
  <2>. QED  BY <1>4, <2>2, <2>3, <2>4, Frame DEF TypeOK, WorkerCrash
<1>. QED  BY <1>2, <1>3, <1>4

LEMMA CommitTypes ==
  ASSUME TypeOK, NEW w \in Worker, Commit(w)
  PROVE  TypeOK'
<1>. DEFINE token == worker[w].token
            p == token[1]
<1>1. worker[w] \in WorkerState /\ token \in Token
  BY DEF TypeOK, Commit, WorkerState
<1>2. CASE Refuse(w)
  <2>1. ClockTypes'
    BY <1>2, FreedType DEF Refuse, Commit, TypeOK, ClockTypes
  <2>2. worker' \in [Worker -> WorkerState]
    BY <1>2, IdleType DEF Refuse, TypeOK
  <2>3. HistoryTypes'
    BY <1>2, Frame DEF Refuse, Commit, TypeOK, history
  <2>. QED  BY <1>2, <2>1, <2>2, <2>3, Frame DEF Commit, Refuse, TypeOK
<1>3. CASE Accept(w)
  <2>1. p \in Path /\ completed[p] \in Nat /\ Keys[p] \subseteq Key
    BY <1>1, Constants DEF Token, TypeOK, ClockTypes
  <2>2. ClockTypes'
    BY SMTT(30), <1>3, <2>1, FreedType DEF Accept, Commit, TypeOK, ClockTypes
  <2>3. [token |-> token, gen |-> worker[w].gen, as |-> completed[p]]
          \in [token : Token, gen : Version, as : Nat]
    BY <1>1, <2>1 DEF WorkerState
  <2>4. HistoryTypes'
    BY <1>1, <1>3, <2>3 DEF Accept, Commit, TypeOK, HistoryTypes
  <2>5. [worker[w] EXCEPT !.at = "push", !.todo = Keys[p]] \in WorkerState
    BY <1>1, <2>1, Constants DEF WorkerState
  <2>6. [worker EXCEPT ![w].at = "push", ![w].todo = Keys[p]]
          = [worker EXCEPT ![w] = [worker[w] EXCEPT !.at = "push", !.todo = Keys[p]]]
    BY <1>1 DEF TypeOK, WorkerState
  <2>7. worker' \in [Worker -> WorkerState]
    BY <1>3, <2>5, <2>6, IdleType DEF Accept, TypeOK
  <2>. QED  BY <1>3, <2>2, <2>4, <2>7, Frame DEF Commit, Accept, TypeOK
<1>. QED  BY <1>2, <1>3 DEF Commit

\* What a push request does: it is applied, or changes no server.
PushEffect(w, o, keys, f) ==
  /\ worker' = [worker EXCEPT ![w] =
                  [worker[w] EXCEPT !.todo = worker[w].todo \ keys, !.failed = worker[w].failed \cup f]]
  /\ \/ /\ up[o] /\ worker[w].token \notin seen[o]
        /\ Absorb(o, Applies(o, keys), worker[w].token)
        /\ seen' = [seen EXCEPT ![o] = @ \cup {worker[w].token}]
        /\ keys \ Applies(o, keys) \subseteq f
     \/ /\ UNCHANGED <<content, seen>>
        /\ f = keys \/ (up[o] /\ worker[w].token \in seen[o])

LEMMA PushStep ==
  ASSUME TypeOK, NEW w \in Worker, Push(w)
  PROVE  /\ worker[w].at = "push" /\ worker[w] \in WorkerState /\ worker[w].token \in Token
         /\ \E o \in Owner, keys \in SUBSET Key, f \in SUBSET Key :
              /\ keys = {k \in worker[w].todo : Primary(k) = o} /\ keys # {} /\ f \subseteq keys
              /\ PushEffect(w, o, keys, f)
         /\ UNCHANGED <<sch, clock, checkpoint, up, active, written, saving, overdue, file, history>>
         /\ Fault \/ UNCHANGED faults
<1>1. worker[w].at = "push" /\ worker[w] \in WorkerState /\ worker[w].token \in Token
  BY DEF TypeOK, Push, WorkerState
<1>. DEFINE token == worker[w].token
            keys(o) == {k \in worker[w].todo : Primary(k) = o}
            Old(o, f) == [worker EXCEPT ![w].todo = @ \ keys(o), ![w].failed = @ \cup f]
            New(o, f) == [worker EXCEPT ![w] =
              [worker[w] EXCEPT !.todo = worker[w].todo \ keys(o), !.failed = worker[w].failed \cup f]]
<1>2. \A o, f : Old(o, f) = New(o, f)
  BY <1>1 DEF TypeOK, WorkerState
<1>3. PICK o \in {Primary(k) : k \in worker[w].todo} :
        LET lands == up[o] /\ token \notin seen[o]
            landed == IF lands THEN Applies(o, keys(o)) ELSE {}
            skipped == IF ~up[o] THEN keys(o) ELSE IF lands THEN keys(o) \ landed ELSE {}
        IN  \/ /\ Absorb(o, landed, token)
               /\ seen' = IF up[o] THEN [seen EXCEPT ![o] = @ \cup {token}] ELSE seen
               /\ \/ worker' = Old(o, skipped) /\ UNCHANGED faults
                  \/ worker' = Old(o, keys(o)) /\ skipped # keys(o) /\ Fault
            \/ /\ up[o] /\ Fault
               /\ worker' = Old(o, keys(o))
               /\ UNCHANGED <<content, seen>>
  BY DEF Push, Target
<1>4. o \in Owner /\ keys(o) \subseteq Key /\ keys(o) # {} /\ Applies(o, keys(o)) \subseteq keys(o)
  BY <1>1, Primaries DEF WorkerState, Applies
<1>. HIDE DEF Old, New
<1>5. Absorb(o, {}, token) => UNCHANGED content
  BY DEF Absorb, TypeOK, ServerTypes
<1>6. token \in seen[o] => [seen EXCEPT ![o] = @ \cup {token}] = seen
  BY <1>4 DEF TypeOK, ServerTypes
<1>7. \E f \in SUBSET keys(o) :
        /\ worker' = Old(o, f)
        /\ \/ /\ up[o] /\ token \notin seen[o]
              /\ Absorb(o, Applies(o, keys(o)), token)
              /\ seen' = [seen EXCEPT ![o] = @ \cup {token}]
              /\ keys(o) \ Applies(o, keys(o)) \subseteq f
           \/ /\ UNCHANGED <<content, seen>>
              /\ f = keys(o) \/ (up[o] /\ token \in seen[o])
  <2>1. CASE UNCHANGED <<content, seen>> /\ worker' = Old(o, keys(o))
    BY <2>1
  <2>2. CASE up[o] /\ token \notin seen[o]
    BY <1>3, <1>4, <2>1, <2>2
  <2>3. CASE ~up[o]
    BY <1>3, <1>5, <2>1, <2>3
  <2>4. CASE up[o] /\ token \in seen[o]
    BY <1>3, <1>5, <1>6, <2>1, <2>4
  <2>. QED  BY <2>2, <2>3, <2>4
<1>8. PICK f \in SUBSET keys(o) :
        /\ worker' = New(o, f)
        /\ \/ /\ up[o] /\ token \notin seen[o]
              /\ Absorb(o, Applies(o, keys(o)), token)
              /\ seen' = [seen EXCEPT ![o] = @ \cup {token}]
              /\ keys(o) \ Applies(o, keys(o)) \subseteq f
           \/ /\ UNCHANGED <<content, seen>>
              /\ f = keys(o) \/ (up[o] /\ token \in seen[o])
  BY <1>2, <1>7
<1>9. PushEffect(w, o, keys(o), f)
  BY <1>8 DEF PushEffect, New
<1>10. UNCHANGED <<sch, clock, checkpoint, up, active, written, saving, overdue, file, history>>
  BY DEF Push
<1>11. Fault \/ UNCHANGED faults
  BY <1>3
<1>. QED  BY <1>1, <1>4, <1>9, <1>10, <1>11

LEMMA PushTypes ==
  ASSUME TypeOK, NEW w \in Worker, Push(w) \/ PushEnds(w)
  PROVE  TypeOK'
<1>1. worker[w] \in WorkerState /\ worker[w].token \in Token
  BY DEF TypeOK, Push, PushEnds, WorkerState
<1>2. CASE Push(w)
  <2>1. PICK o \in Owner, keys \in SUBSET Key, f \in SUBSET Key : PushEffect(w, o, keys, f)
    BY <1>2, PushStep
  <2>2. [worker[w] EXCEPT !.todo = worker[w].todo \ keys, !.failed = worker[w].failed \cup f]
          \in WorkerState
    BY <1>1, <2>1 DEF WorkerState
  <2>3. worker' \in [Worker -> WorkerState]
    BY <2>1, <2>2 DEF PushEffect, TypeOK
  <2>4. seen' \in [Owner -> SUBSET Token]
    BY <1>1, <2>1 DEF PushEffect, TypeOK, ServerTypes
  <2>5. \A X : Absorb(o, X, worker[w].token) => content' \in [Owner -> [Key -> SUBSET Token]]
    BY <1>1, <2>1 DEF Absorb, TypeOK, ServerTypes
  <2>6. content' \in [Owner -> [Key -> SUBSET Token]]
    BY <2>1, <2>5 DEF PushEffect, TypeOK, ServerTypes
  <2>7. ServerTypes'
    BY <1>2, <2>4, <2>6, PushStep DEF TypeOK, ServerTypes
  <2>. QED  BY <1>2, <2>3, <2>7, PushStep, Frame DEF TypeOK
<1>3. CASE PushEnds(w)
  <2>1. worker' \in [Worker -> WorkerState]
    <3>1. [Idle EXCEPT !.connected = worker[w].connected] \in WorkerState
      BY <1>1 DEF Idle, WorkerState, Version
    <3>2. [Idle EXCEPT !.connected = worker[w].connected /\ worker[w].again] \in WorkerState
      BY <1>1 DEF Idle, WorkerState, Version
    <3>3. [worker EXCEPT ![w].todo = worker[w].failed, ![w].failed = {}, ![w].again = TRUE]
            = [worker EXCEPT ![w] =
                [worker[w] EXCEPT !.todo = worker[w].failed, !.failed = {}, !.again = TRUE]]
      BY <1>1 DEF TypeOK, WorkerState
    <3>4. [worker[w] EXCEPT !.todo = worker[w].failed, !.failed = {}, !.again = TRUE] \in WorkerState
      BY <1>1 DEF WorkerState
    <3>. QED  BY <1>3, <3>1, <3>2, <3>3, <3>4 DEF PushEnds, TypeOK
  <2>2. HistoryTypes'
    BY <1>1, <1>3 DEF PushEnds, TypeOK, HistoryTypes
  <2>. QED  BY <1>3, <2>1, <2>2, Frame DEF PushEnds, TypeOK
<1>. QED  BY <1>2, <1>3

-----------------------------------------------------------------------------
\* The checkpoint.

CkptRecord ==
  [at : {"none", "owners", "clock"}, left : Seq(Owner), by : Nat, held : [Key -> Version]]

\* An owner that is waited for is an owner.
LEMMA Waiting ==
  ASSUME TypeOK, NEW o, Waits(o)
  PROVE  o \in Owner /\ NextOwner \in CkptRecord /\ NextOwner.at = "owners"
         /\ NextOwner.held = ckpt.held
<1>1. ckpt \in CkptRecord /\ ckpt.left \in Seq(Owner) /\ ckpt.left # <<>> /\ ckpt.at = "owners"
  BY DEF Waits, TypeOK, CheckpointTypes, CkptRecord
<1>2. Head(ckpt.left) \in Owner /\ Tail(ckpt.left) \in Seq(Owner)
  BY <1>1, HeadTailProperties
<1>. QED  BY <1>1, <1>2 DEF Waits, NextOwner, CkptRecord

\* A file that a thread puts in place keeps the types of files and history.
LEMMA PutTypes ==
  ASSUME TypeOK, NEW o \in Owner, NEW t \in IOThread, NEW k \in Key,
         NEW x \in (SUBSET Token) \cup {NoFile, Torn}, Puts(o, t, k, x)
  PROVE  /\ file' \in [Directory -> [Key -> (SUBSET Token) \cup {NoFile, Torn}]]
         /\ late' \subseteq Directory /\ overtaken' \subseteq Key
<1>1. Dir[o] \in Directory
  BY Constants
<1>2. file \in [Directory -> [Key -> (SUBSET Token) \cup {NoFile, Torn}]]
      /\ late \subseteq Directory /\ overtaken \subseteq Key
  BY DEF TypeOK, ServerTypes, HistoryTypes
<1>3. file' = [file EXCEPT ![Dir[o]][k] = x]
  BY DEF Puts
<1>4. late' \subseteq Directory /\ overtaken' \subseteq Key
  BY <1>1, <1>2 DEF Puts
<1>. QED  BY <1>1, <1>2, <1>3, <1>4

\* What a call of save_modules has in hand.
LEMMA SavingType ==
  ASSUME TypeOK, NEW o \in Owner, NEW t \in IOThread
  PROVE  /\ saving[o][t] \in SaveState
         /\ saving[o][t].left \subseteq Holds(o) /\ saving[o][t].left \subseteq Key
         /\ saving[o][t].state \in [Key -> SUBSET Token]
         /\ \A k \in Key : Cardinality(saving[o][t].state[k]) \in Nat
         /\ ~saving[o][t].on => saving[o][t].left = {}
<1>1. saving[o][t] \in SaveState /\ saving[o][t].left \subseteq Holds(o)
  BY DEF TypeOK, ServerTypes
<1>. QED  BY <1>1, FiniteTokens DEF SaveState

\* What a call of save_modules leaves alone.
LEMMA SaveFrame ==
  ASSUME NEW o \in Owner, NEW t \in IOThread, SaveStep(o, t)
  PROVE  UNCHANGED <<sch, T, target, completed, lease, issued, measured, resting, floor, lastCkpt,
                     saved, manifest, up, active, content, seen, worker, granted, counted, dropped,
                     crashed, faults>>
BY DEF SaveStep, StartSave, WriteFile, RenameFails, SaveEnds, clock, checkpoint, history

\* Thread t of o puts x in the file of k; the calls in open had the same
\* temporary file open.
WriteEffect(o, t, k, open, x) ==
  /\ Puts(o, t, k, x)
  /\ \/ x = saving[o][t].state[k]
     \/ open # {} /\ x = Torn
     \/ open # {} /\ \E f \in open : x = saving[f[1]][f[2]].state[k]
  /\ x \in (SUBSET Token) \cup {Torn}
  /\ saving' = [q \in Owner |-> [s \in IOThread |->
       IF q = o /\ s = t THEN [saving[o][t] EXCEPT !.left = @ \ {k}]
       ELSE [saving[q][s] EXCEPT !.taken = IF <<q, s>> \in open THEN @ \cup {k} ELSE @]]]

\* The file of a key that is left is replaced by the snapshot, or, if the
\* temporary file is shared, by that of a call it is shared with, or it is torn.
LEMMA WriteFilePuts ==
  ASSUME TypeOK, NEW o \in Owner, NEW t \in IOThread, NEW k \in Key, WriteFile(o, t, k)
  PROVE  \E open \in SUBSET Fellows(o, t) : \E x : WriteEffect(o, t, k, open, x)
<1>1. PICK open \in SUBSET {f \in Fellows(o, t) : k \in saving[f[1]][f[2]].left} :
        \E x \in {saving[f[1]][f[2]].state[k] : f \in open \cup {<<o, t>>}}
                 \cup (IF open = {} THEN {} ELSE {Torn}) :
          /\ Puts(o, t, k, x)
          /\ saving' = [q \in Owner |-> [s \in IOThread |->
               IF q = o /\ s = t THEN [saving[o][t] EXCEPT !.left = @ \ {k}]
               ELSE [saving[q][s] EXCEPT !.taken = IF <<q, s>> \in open THEN @ \cup {k} ELSE @]]]
  BY DEF WriteFile
<1>2. PICK x \in {saving[f[1]][f[2]].state[k] : f \in open \cup {<<o, t>>}}
                  \cup (IF open = {} THEN {} ELSE {Torn}) :
          /\ Puts(o, t, k, x)
          /\ saving' = [q \in Owner |-> [s \in IOThread |->
               IF q = o /\ s = t THEN [saving[o][t] EXCEPT !.left = @ \ {k}]
               ELSE [saving[q][s] EXCEPT !.taken = IF <<q, s>> \in open THEN @ \cup {k} ELSE @]]]
  BY <1>1
<1>3. \A f \in open \cup {<<o, t>>} : f[1] \in Owner /\ f[2] \in IOThread
  BY DEF Fellows
<1>4. \A f \in open \cup {<<o, t>>} : saving[f[1]][f[2]].state[k] \in SUBSET Token
  BY <1>3, SavingType
<1>5. \/ x = saving[o][t].state[k]
      \/ open # {} /\ x = Torn
      \/ open # {} /\ \E f \in open : x = saving[f[1]][f[2]].state[k]
  BY <1>2
<1>6. x \in (SUBSET Token) \cup {Torn}
  BY <1>4, <1>5
<1>7. WriteEffect(o, t, k, open, x)
  BY <1>2, <1>5, <1>6 DEF WriteEffect
<1>. QED  BY <1>7

LEMMA SaveTypes ==
  ASSUME TypeOK, NEW o \in Owner, NEW t \in IOThread, SaveStep(o, t)
  PROVE  TypeOK'
<1>1. CASE StartSave(o, t)
  <2>1. /\ \/ Waits(o) /\ ckpt' = [ckpt EXCEPT !.by = t] /\ UNCHANGED overdue
           \/ overdue[o] > 0 /\ overdue' = [overdue EXCEPT ![o] = @ - 1] /\ UNCHANGED ckpt
        /\ saving' = [q \in Owner |-> [s \in IOThread |->
             IF q = o /\ s = t
             THEN [on |-> TRUE, left |-> Unsaved(o), taken |-> {}, crossed |-> Fellows(o, t) # {},
                   state |-> content[o]]
             ELSE [saving[q][s] EXCEPT !.crossed = @ \/ <<q, s>> \in Fellows(o, t)]]]
        /\ UNCHANGED <<sch, clock, floor, lastCkpt, saved, manifest, up, active, content, written,
                       seen, file, worker, history, faults>>
    BY <1>1 DEF StartSave
  <2>2. CheckpointTypes'
    <3>1. t \in Nat
      BY Constants DEF IOThread
    <3>2. ckpt' = ckpt \/ ckpt' = [ckpt EXCEPT !.by = t]
      BY <2>1
    <3>3. UNCHANGED <<floor, lastCkpt, saved, manifest>>
      BY <2>1
    <3>. QED  BY <3>1, <3>2, <3>3 DEF TypeOK, CheckpointTypes
  <2>3. overdue' \in [Owner -> Nat]
    <3>1. overdue' = overdue \/ (overdue[o] > 0 /\ overdue' = [overdue EXCEPT ![o] = @ - 1])
      BY <2>1
    <3>2. overdue \in [Owner -> Nat]
      BY DEF TypeOK, ServerTypes
    <3>3. ASSUME overdue[o] > 0 /\ overdue' = [overdue EXCEPT ![o] = @ - 1]
          PROVE  overdue' \in [Owner -> Nat]
      <4>1. overdue[o] - 1 \in Nat
        BY <3>2, <3>3
      <4>. QED  BY <3>2, <3>3, <4>1
    <3>. QED  BY <3>1, <3>2, <3>3
  <2>4. Unsaved(o) \subseteq Holds(o) /\ Unsaved(o) \subseteq Key /\ content[o] \in [Key -> SUBSET Token]
    BY DEF Unsaved, Holds, TypeOK, ServerTypes
  <2>5. \A q \in Owner, s \in IOThread :
          saving'[q][s] \in SaveState /\ saving'[q][s].left \subseteq Holds(q)
    <3> SUFFICES ASSUME NEW q \in Owner, NEW s \in IOThread
                 PROVE  saving'[q][s] \in SaveState /\ saving'[q][s].left \subseteq Holds(q)
      OBVIOUS
    <3>1. CASE q = o /\ s = t
      BY <2>1, <2>4, <3>1 DEF SaveState
    <3>2. CASE ~(q = o /\ s = t)
      <4>1. saving'[q][s] = [saving[q][s] EXCEPT !.crossed = @ \/ <<q, s>> \in Fellows(o, t)]
        BY <2>1, <3>2
      <4>. QED  BY <4>1, SavingType DEF SaveState
    <3>. QED  BY <3>1, <3>2
  <2>6. saving' \in [Owner -> [IOThread -> SaveState]]
    BY <2>1, <2>5
  <2>7. ServerTypes'
    BY <2>1, <2>3, <2>5, <2>6 DEF TypeOK, ServerTypes
  <2>. QED  BY <2>1, <2>2, <2>7, Frame DEF TypeOK
<1>2. ASSUME NEW k \in Key, WriteFile(o, t, k)
      PROVE  TypeOK'
  <2>0. PICK open \in SUBSET Fellows(o, t) : \E x : WriteEffect(o, t, k, open, x)
    BY <1>2, WriteFilePuts
  <2>1. PICK x : WriteEffect(o, t, k, open, x)
    BY <2>0
  <2>2. /\ file' \in [Directory -> [Key -> (SUBSET Token) \cup {NoFile, Torn}]]
        /\ late' \subseteq Directory /\ overtaken' \subseteq Key
    BY <2>1, PutTypes DEF WriteEffect
  <2>3. /\ written' = [written EXCEPT ![o][k] = Cardinality(saving[o][t].state[k])]
        /\ UNCHANGED <<sch, clock, checkpoint, up, active, content, seen, overdue, worker, granted,
                       counted, dropped, crashed, faults>>
    BY <1>2 DEF WriteFile
  <2>4. \A q \in Owner, s \in IOThread :
          saving'[q][s] \in SaveState /\ saving'[q][s].left \subseteq Holds(q)
    <3> SUFFICES ASSUME NEW q \in Owner, NEW s \in IOThread
                 PROVE  saving'[q][s] \in SaveState /\ saving'[q][s].left \subseteq Holds(q)
      OBVIOUS
    <3>1. CASE q = o /\ s = t
      <4>1. saving'[o][t] = [saving[o][t] EXCEPT !.left = @ \ {k}]
        BY <2>1 DEF WriteEffect
      <4>2. saving'[o][t] \in SaveState /\ saving'[o][t].left \subseteq saving[o][t].left
        BY <4>1, SavingType DEF SaveState
      <4>. QED  BY <3>1, <4>2, SavingType
    <3>2. CASE ~(q = o /\ s = t)
      <4>1. saving'[q][s] = [saving[q][s] EXCEPT
                                !.taken = IF <<q, s>> \in open THEN @ \cup {k} ELSE @]
        BY <2>1, <3>2 DEF WriteEffect
      <4>. QED  BY <4>1, SavingType DEF SaveState
    <3>. QED  BY <3>1, <3>2
  <2>5. saving' \in [Owner -> [IOThread -> SaveState]]
    <3>1. saving' = [q \in Owner |-> [s \in IOThread |->
            IF q = o /\ s = t THEN [saving[o][t] EXCEPT !.left = @ \ {k}]
            ELSE [saving[q][s] EXCEPT !.taken = IF <<q, s>> \in open THEN @ \cup {k} ELSE @]]]
      BY <2>1 DEF WriteEffect
    <3>. QED  BY <2>4, <3>1
  <2>6. written' \in [Owner -> [Key -> Version]]
    <3>1. written' = [written EXCEPT ![o][k] = Cardinality(saving[o][t].state[k])]
      BY <2>3
    <3>2. Cardinality(saving[o][t].state[k]) \in Version
      BY SavingType DEF Version
    <3>3. written \in [Owner -> [Key -> Version]]
      BY DEF TypeOK, ServerTypes
    <3>. QED  BY <3>1, <3>2, <3>3
  <2>7. ServerTypes'
    <3>1. UNCHANGED <<up, active, content, seen, overdue>>
      BY <2>3
    <3>. QED  BY <2>2, <2>4, <2>5, <2>6, <3>1 DEF TypeOK, ServerTypes
  <2>8. HistoryTypes'
    BY <2>2, <2>3 DEF TypeOK, HistoryTypes
  <2>. QED  BY <2>3, <2>7, <2>8, Frame DEF TypeOK
<1>3. ASSUME \/ SaveEnds(o, t)
             \/ \E k \in Key : RenameFails(o, t, k)
      PROVE  TypeOK'
  <2>1. saving' = [saving EXCEPT ![o][t] = NoSave]
    BY <1>3 DEF SaveEnds, RenameFails
  <2>2. /\ saving' \in [Owner -> [IOThread -> SaveState]]
        /\ \A q \in Owner, s \in IOThread : saving'[q][s].left \subseteq Holds(q)
    <3>1. \A q \in Owner, s \in IOThread : saving'[q][s] = saving[q][s] \/ saving'[q][s] = NoSave
      BY <2>1 DEF TypeOK, ServerTypes
    <3>2. NoSave.left = {}
      BY DEF NoSave
    <3>3. \A q \in Owner, s \in IOThread : saving'[q][s].left \subseteq Holds(q)
      BY <3>1, <3>2, SavingType
    <3>. QED  BY <2>1, <3>3, NoSaveType DEF TypeOK, ServerTypes
  <2>3. ckpt' \in CkptRecord
    <3>1. CASE ckpt' = ckpt \/ (Waited(o, t) /\ ckpt' = NextOwner)
      BY <3>1, Waiting DEF Waited, TypeOK, CheckpointTypes, CkptRecord
    <3>2. CASE Waited(o, t) /\ ckpt' = [NextOwner EXCEPT !.held = [k \in Key |->
                 IF k \in Holds(o) THEN Max({@[k], Cardinality(saving[o][t].state[k])}) ELSE @[k]]]
      <4>1. \A a, b \in Version : Max({a, b}) \in Version
        BY DEF Max, Version
      <4>2. \A k \in Key : Cardinality(saving[o][t].state[k]) \in Version
        BY SavingType DEF Version
      <4>3. NextOwner \in CkptRecord
        BY <3>2, Waiting DEF Waited
      <4>. QED  BY <3>2, <4>1, <4>2, <4>3 DEF CkptRecord
    <3>. QED  BY <1>3, <3>1, <3>2 DEF SaveEnds, RenameFails
  <2>4. UNCHANGED <<sch, clock, floor, lastCkpt, saved, manifest, up, active, content, written, seen,
                    overdue, worker, granted, counted, dropped, crashed, faults>>
    BY <1>3 DEF SaveEnds, RenameFails, history
  <2>5. CheckpointTypes'
    BY <2>3, <2>4 DEF TypeOK, CheckpointTypes, CkptRecord
  <2>6. /\ file' \in [Directory -> [Key -> (SUBSET Token) \cup {NoFile, Torn}]]
        /\ late' \subseteq Directory /\ overtaken' \subseteq Key
    <3>1. ASSUME NEW k \in Key, RenameFails(o, t, k)
          PROVE  /\ file' \in [Directory -> [Key -> (SUBSET Token) \cup {NoFile, Torn}]]
                 /\ late' \subseteq Directory /\ overtaken' \subseteq Key
      <4>1. PICK x \in {file[Dir[o]][k], saving[o][t].state[k], Torn} : Puts(o, t, k, x)
        BY <3>1 DEF RenameFails
      <4>2. file[Dir[o]][k] \in (SUBSET Token) \cup {NoFile, Torn} /\ saving[o][t].state[k] \in SUBSET Token
        BY SavingType, Constants DEF TypeOK, ServerTypes
      <4>. QED  BY <4>1, <4>2, PutTypes
    <3>2. CASE SaveEnds(o, t)
      BY <3>2 DEF SaveEnds, history, TypeOK, ServerTypes, HistoryTypes
    <3>. QED  BY <1>3, <3>1, <3>2
  <2>7. ServerTypes'
    BY <2>2, <2>4, <2>6 DEF TypeOK, ServerTypes
  <2>8. HistoryTypes'
    BY <2>4, <2>6 DEF TypeOK, HistoryTypes
  <2>. QED  BY <2>4, <2>5, <2>7, <2>8, Frame DEF TypeOK
<1>. QED  BY <1>1, <1>2, <1>3 DEF SaveStep

LEMMA CheckpointStepTypes ==
  ASSUME TypeOK,
         \/ CheckpointBegins \/ OwnerAway \/ GiveUp \/ WriteManifest \/ WriteClock
         \/ StopServing
  PROVE  TypeOK'
<1>1. Ask \in CkptRecord /\ NoCkpt \in CkptRecord
  <2>1. [i \in 1 .. NumOwners |-> i] \in Seq(Owner)
    BY Constants, SeqDef DEF Owner
  <2>2. <<>> \in Seq(Owner) /\ NoVersions \in [Key -> Version]
    BY DEF NoVersions, Version
  <2>. QED  BY <2>1, <2>2 DEF Ask, NoCkpt, CkptRecord
<1>. USE DEF CkptRecord
<1>2. CASE CheckpointBegins
  <2>1. CheckpointTypes'
    BY <1>1, <1>2 DEF CheckpointBegins, TypeOK, CheckpointTypes
  <2>. QED  BY <1>2, <2>1, Frame DEF CheckpointBegins, TypeOK
<1>3. CASE OwnerAway
  <2>1. NextOwner \in CkptRecord
    BY <1>3, Waiting DEF OwnerAway
  <2>2. CheckpointTypes'
    BY <1>3, <2>1 DEF OwnerAway, TypeOK, CheckpointTypes
  <2>. QED  BY <1>3, <2>2, Frame DEF OwnerAway, TypeOK
<1>7. CASE GiveUp
  <2>1. NextOwner \in CkptRecord
    BY <1>7, Waiting DEF GiveUp
  <2>2. CheckpointTypes'
    BY <1>7, <2>1 DEF GiveUp, TypeOK, CheckpointTypes
  <2>3. overdue' \in [Owner -> Nat]
    BY <1>7 DEF GiveUp, TypeOK, ServerTypes
  <2>4. ServerTypes'
    BY <1>7, <2>3 DEF GiveUp, TypeOK, ServerTypes
  <2>. QED  BY <1>7, <2>2, <2>4, Frame DEF GiveUp, TypeOK
<1>4. CASE WriteManifest
  <2>1. CheckpointTypes'
    BY <1>4 DEF WriteManifest, TypeOK, CheckpointTypes
  <2>. QED  BY <1>4, <2>1, Frame DEF WriteManifest, TypeOK
<1>5. CASE WriteClock
  <2>1. CheckpointTypes'
    BY <1>1, <1>5
    DEF WriteClock, Clock, Snapshot, Version, TypeOK, CheckpointTypes, ClockTypes, HistoryTypes
  <2>. QED  BY <1>5, <2>1, Frame DEF WriteClock, TypeOK
<1>6. CASE StopServing
  <2>1. CheckpointTypes'
    BY <1>1, <1>6 DEF StopServing, TypeOK, CheckpointTypes
  <2>. QED  BY <1>6, <2>1, Frame DEF StopServing, TypeOK
<1>. QED  BY <1>2, <1>3, <1>4, <1>5, <1>6, <1>7

LEMMA SchedulerTypes ==
  ASSUME TypeOK, SchedulerCrash \/ SchedulerStarts \/ GateOpens
  PROVE  TypeOK'
<1>1. CASE SchedulerCrash
  <2>0. \A a \in Version : Max({a, 0}) \in Nat
    BY DEF Max, Version
  <2>1. Max({saved.T, 0}) \in Nat
    BY <2>0 DEF TypeOK, CheckpointTypes
  <2>2. ClockTypes'
    BY <1>1, <2>1 DEF SchedulerCrash, TypeOK, ClockTypes, CheckpointTypes
  <2>3. CheckpointTypes'
    BY <1>1 DEF SchedulerCrash, TypeOK, CheckpointTypes, NoCkpt, NoVersions, Version
  <2>4. HistoryTypes'
    BY <1>1 DEF SchedulerCrash, TypeOK, HistoryTypes, CheckpointTypes
  <2>7. ServerTypes'
    <3>1. overdue' \in [Owner -> Nat]
      <4>1. overdue' = overdue \/ \E o \in Owner : overdue' = [overdue EXCEPT ![o] = @ + 1]
        BY <1>1 DEF SchedulerCrash
      <4>2. overdue \in [Owner -> Nat]
        BY DEF TypeOK, ServerTypes
      <4>3. ASSUME NEW o \in Owner, overdue' = [overdue EXCEPT ![o] = @ + 1]
            PROVE  overdue' \in [Owner -> Nat]
        <5>1. overdue[o] + 1 \in Nat
          BY <4>2
        <5>. QED  BY <4>2, <4>3, <5>1
      <4>. QED  BY <4>1, <4>2, <4>3
    <3>. QED  BY <1>1, <3>1 DEF SchedulerCrash, TypeOK, ServerTypes
  <2>5. \A w \in Worker : [worker[w] EXCEPT !.connected = FALSE] \in WorkerState
    BY DEF TypeOK, WorkerState
  <2>6. worker' \in [Worker -> WorkerState]
    BY <1>1, <2>5 DEF SchedulerCrash
  <2>. QED  BY <1>1, <2>2, <2>3, <2>4, <2>6, <2>7, Frame DEF SchedulerCrash, TypeOK
<1>2. CASE SchedulerStarts
  <2>1. ClockTypes'
    BY <1>2, Constants DEF SchedulerStarts, TypeOK, ClockTypes
  <2>2. CheckpointTypes'
    BY <1>2 DEF SchedulerStarts, TypeOK, ClockTypes, CheckpointTypes, NoVersions, Version
  <2>. QED  BY <1>2, <2>1, <2>2, Frame DEF SchedulerStarts, TypeOK
<1>3. CASE GateOpens
  BY <1>3, Frame DEF GateOpens, TypeOK
<1>. QED  BY <1>1, <1>2, <1>3

LEMMA OwnerTypes ==
  ASSUME TypeOK, NEW o \in Owner,
         OwnerCrash(o) \/ OwnerStarts(o) \/ \E k \in Key : Replicate(o, k)
  PROVE  TypeOK'
<1>1. CASE OwnerCrash(o)
  <2>1. ServerTypes'
    <3>1. saving' = [saving EXCEPT ![o] = [t \in IOThread |-> NoSave]]
      BY <1>1 DEF OwnerCrash
    <3>2. \A q \in Owner, t \in IOThread : saving'[q][t] = saving[q][t] \/ saving'[q][t] = NoSave
      BY <3>1 DEF TypeOK, ServerTypes
    <3>3. \A q \in Owner, t \in IOThread : saving'[q][t].left \subseteq Holds(q)
      BY <3>2, SavingType DEF NoSave
    <3>4. saving' \in [Owner -> [IOThread -> SaveState]]
      BY <3>1, NoSaveType DEF TypeOK, ServerTypes
    <3>. QED  BY <1>1, <3>3, <3>4 DEF OwnerCrash, TypeOK, ServerTypes, NoVersions, Version
  <2>2. CheckpointTypes'
    <3>1. ckpt' \in CkptRecord
      BY <1>1, Waiting DEF OwnerCrash, TypeOK, CheckpointTypes, CkptRecord
    <3>. QED  BY <1>1, <3>1 DEF OwnerCrash, TypeOK, CheckpointTypes, CkptRecord
  <2>3. HistoryTypes'
    BY <1>1 DEF OwnerCrash, TypeOK, HistoryTypes
  <2>. QED  BY <1>1, <2>1, <2>2, <2>3, Frame DEF OwnerCrash, TypeOK
<1>2. CASE OwnerStarts(o)
  <2>. DEFINE readable(k) == k \in Holds(o) /\ file[Dir[o]][k] \notin {NoFile, Torn}
              loaded(k) == IF readable(k) THEN file[Dir[o]][k] ELSE {}
  <2>1. \A k \in Key : loaded(k) \in SUBSET Token
    BY Constants DEF TypeOK, ServerTypes
  <2>2. \A k \in Key : Cardinality(loaded(k)) \in Nat
    BY <2>1, FiniteTokens
  <2>3. content' = [content EXCEPT ![o] = [k \in Key |-> loaded(k)]]
    BY <1>2 DEF OwnerStarts
  <2>4. active' = [active EXCEPT ![o] = {k \in Holds(o) : loaded(k) = {}}]
    BY <1>2 DEF OwnerStarts
  <2>5. written' = [written EXCEPT ![o] = [k \in Key |->
           IF readable(k) THEN Cardinality(loaded(k)) ELSE -1]]
    BY <1>2 DEF OwnerStarts
  <2>6. /\ up' = [up EXCEPT ![o] = TRUE]
        /\ UNCHANGED <<sch, clock, checkpoint, seen, saving, overdue, file, worker, history, faults>>
    BY <1>2 DEF OwnerStarts
  <2>. HIDE DEF loaded, readable
  <2>7. content' \in [Owner -> [Key -> SUBSET Token]]
    BY <2>1, <2>3 DEF TypeOK, ServerTypes
  <2>8. written' \in [Owner -> [Key -> Version]]
    BY <2>2, <2>5 DEF TypeOK, ServerTypes, Version
  <2>9. ServerTypes'
    BY <2>4, <2>6, <2>7, <2>8 DEF TypeOK, ServerTypes, Holds
  <2>. QED  BY <2>6, <2>9, Frame DEF TypeOK
<1>3. ASSUME NEW k \in Key, Replicate(o, k)
      PROVE  TypeOK'
  <2>1. \A s \in Range(Replicas[k]) : s \in Owner /\ content[s][k] \in SUBSET Token
    BY Primaries DEF TypeOK, ServerTypes
  <2>2. content' \in [Owner -> [Key -> SUBSET Token]]
    <3>1. content \in [Owner -> [Key -> SUBSET Token]]
      BY DEF TypeOK, ServerTypes
    <3>2. UNCHANGED content \/ \E s \in Range(Replicas[k]) :
             content' = [content EXCEPT ![o][k] = IF Ver(s, k) > Ver(o, k) THEN content[s][k] ELSE @]
      BY <1>3 DEF Replicate
    <3>. QED  BY <2>1, <3>1, <3>2
  <2>3. active' \in [Owner -> SUBSET Key]
    BY <1>3 DEF Replicate, TypeOK, ServerTypes
  <2>4. ServerTypes'
    BY <1>3, <2>2, <2>3 DEF Replicate, TypeOK, ServerTypes
  <2>. QED  BY <1>3, <2>4, Frame DEF Replicate, TypeOK
<1>. QED  BY <1>1, <1>2, <1>3

LEMMA NextType == TypeOK /\ [Next]_vars => TypeOK'
<1>1. ASSUME TypeOK, UNCHANGED vars
      PROVE  TypeOK'
  BY <1>1, Frame DEF vars, TypeOK
<1>2. ASSUME TypeOK, Next
      PROVE  TypeOK'
  BY <1>2, RequestTypes, LeaseTypes, WorkerTypes, CommitTypes, PushTypes, CheckpointStepTypes,
     SaveTypes, SchedulerTypes, OwnerTypes
  DEF Next, WorkerStep, OwnerStep, FitStep
<1>. QED  BY <1>1, <1>2

\* Every reachable state has the types of TypeOK.
THEOREM TypeCorrect == Spec => []TypeOK
BY InitType, NextType, PTL DEF Spec

-----------------------------------------------------------------------------
\* The lease fence.

Tokens(G) == {g.token : g \in G}

\* A grant adds its token.
LEMMA TokensAdd == \A G, x : Tokens(G \cup {x}) = Tokens(G) \cup {x.token}
BY DEF Tokens

Training(w) == worker[w].at \in {"leased", "trained"}

\* No two workers hold one token.  A worker that trains holds one that was not
\* accepted yet; where it is still its path's lease, the path has not moved on
\* since it was leased.  A worker that pushes has what was accepted to push.
Fence ==
  /\ \A v, w \in Worker : v # w /\ worker[v].token = worker[w].token => worker[v].token = NoLease
  /\ \A w \in Worker : Training(w) =>
       /\ worker[w].token \notin Tokens(granted) /\ worker[w].failed = {}
       /\ lease[worker[w].token[1]] = worker[w].token
            => worker[w].gen = completed[worker[w].token[1]]
  /\ \A w \in Worker : worker[w].at = "push" =>
       /\ worker[w].token \in Tokens(granted)
       /\ worker[w].todo \cup worker[w].failed \subseteq Keys[worker[w].token[1]]

\* What a step does to a worker when it takes no lease and has none accepted:
\* the worker loses its token, or goes on with it.
GoesOn(w) ==
  \/ worker'[w].token = NoLease
  \/ /\ worker'[w].token = worker[w].token /\ worker'[w].gen = worker[w].gen
     /\ Training(w)' => Training(w) /\ worker'[w].failed = worker[w].failed
     /\ worker'[w].at = "push" =>
          /\ worker[w].at = "push"
          /\ worker'[w].todo \cup worker'[w].failed \subseteq worker[w].todo \cup worker[w].failed

Quiet ==
  /\ granted' = granted
  /\ \A p \in Path : lease'[p] = lease[p] \/ lease'[p] = NoLease
  /\ completed' = completed \/ \A p \in Path : lease'[p] = NoLease
  /\ \A w \in Worker : GoesOn(w)

\* A step that changes worker w alone, which ends its task.
LEMMA EndsTask ==
  ASSUME TypeOK, NEW w \in Worker, NEW x, x.token = NoLease, worker' = [worker EXCEPT ![w] = x]
  PROVE  \A v \in Worker : GoesOn(v)
BY DEF TypeOK, GoesOn, Training

LEMMA NoTask ==
  /\ Idle.token = NoLease /\ Away.token = NoLease /\ [Away EXCEPT !.at = "gone"].token = NoLease
  /\ \A b : [Idle EXCEPT !.connected = b].token = NoLease
BY DEF Idle, Away

\* Every step is a lease taken, a commit accepted, or quiet.
LEMMA Steps ==
  ASSUME TypeOK, Next
  PROVE  \/ \E w \in Worker : Request(w) \/ (Commit(w) /\ Accept(w))
         \/ Quiet
<1>1. ASSUME UNCHANGED <<worker, lease, completed, granted>>
      PROVE  Quiet
  BY <1>1 DEF Quiet, GoesOn, Training
<1>2. \A p, q \in Path : Freed(p)[q] = lease[q] \/ Freed(p)[q] = NoLease
  BY DEF Freed, TypeOK, ClockTypes
<1>3. ASSUME NEW w \in Worker, Train(w) PROVE Quiet
  <2>1. worker[w] \in WorkerState
    BY DEF TypeOK
  <2>2. \A v \in Worker : GoesOn(v)
    BY <1>3, <2>1 DEF Train, TypeOK, WorkerState, GoesOn, Training
  <2>. QED  BY <1>3, <2>2 DEF Train, Quiet, clock, history
<1>4. ASSUME NEW w \in Worker, FetchFails(w) \/ Disconnect(w) \/ Reconnect(w) PROVE Quiet
  <2>1. \A v \in Worker : GoesOn(v)
    BY <1>4, EndsTask, NoTask DEF FetchFails, Disconnect, Reconnect
  <2>. QED  BY <1>4, <2>1 DEF FetchFails, Disconnect, Reconnect, Quiet, clock, history
<1>5. ASSUME NEW w \in Worker, WorkerCrash(w) PROVE Quiet
  <2>1. \A v \in Worker : GoesOn(v)
    BY <1>5, EndsTask, NoTask DEF WorkerCrash
  <2>. QED  BY <1>5, <2>1 DEF WorkerCrash, Quiet
<1>6. ASSUME NEW w \in Worker, Leave(w) PROVE Quiet
  <2>1. \A v \in Worker : GoesOn(v)
    BY <1>6, EndsTask, NoTask DEF Leave
  <2>2. worker[w].at = "leased" => worker[w].token[1] \in Path
    BY DEF TypeOK, WorkerState, Token
  <2>3. \A p \in Path : lease'[p] = lease[p] \/ lease'[p] = NoLease
    BY <1>2, <1>6, <2>2 DEF Leave
  <2>. QED  BY <1>6, <2>1, <2>3 DEF Leave, Quiet, history
<1>7. ASSUME NEW w \in Worker, Commit(w), Refuse(w) PROVE Quiet
  <2>1. \A v \in Worker : GoesOn(v)
    BY <1>7, EndsTask, NoTask DEF Refuse
  <2>2. worker[w].token[1] \in Path
    BY <1>7 DEF Commit, TypeOK, WorkerState, Token
  <2>3. \A p \in Path : lease'[p] = lease[p] \/ lease'[p] = NoLease
    BY <1>2, <1>7, <2>2 DEF Refuse
  <2>. QED  BY <1>7, <2>1, <2>3 DEF Refuse, Quiet
<1>8. ASSUME NEW w \in Worker, Push(w) PROVE Quiet
  <2>1. PICK o, keys, f : f \subseteq keys /\ keys \subseteq worker[w].todo /\ PushEffect(w, o, keys, f)
    BY <1>8, PushStep
  <2>2. /\ worker'[w].token = worker[w].token /\ worker'[w].gen = worker[w].gen
        /\ worker'[w].at = worker[w].at
        /\ worker'[w].todo = worker[w].todo \ keys /\ worker'[w].failed = worker[w].failed \cup f
        /\ \A v \in Worker \ {w} : worker'[v] = worker[v]
    BY <1>8, <2>1, PushStep DEF PushEffect, TypeOK, WorkerState
  <2>3. \A v \in Worker : GoesOn(v)
    BY <1>8, <2>1, <2>2, PushStep DEF GoesOn, Training
  <2>. QED  BY <1>8, <2>3 DEF Push, Quiet, clock, history
<1>9. ASSUME NEW w \in Worker, PushEnds(w) PROVE Quiet
  <2>1. worker[w] \in WorkerState
    BY DEF TypeOK
  <2>2. CASE worker' = [worker EXCEPT ![w].todo = worker[w].failed, ![w].failed = {},
                                      ![w].again = TRUE]
    <3>1. \A v \in Worker : GoesOn(v)
      BY <1>9, <2>1, <2>2 DEF PushEnds, TypeOK, WorkerState, GoesOn, Training
    <3>. QED  BY <1>9, <3>1 DEF PushEnds, Quiet, clock
  <2>3. CASE \E b : worker' = [worker EXCEPT ![w] = [Idle EXCEPT !.connected = b]]
    <3>1. \A v \in Worker : GoesOn(v)
      BY <2>3, EndsTask, NoTask
    <3>. QED  BY <1>9, <3>1 DEF PushEnds, Quiet, clock
  <2>. QED  BY <1>9, <2>2, <2>3 DEF PushEnds
<1>10. ASSUME NEW p \in Path, Reclaim(p) PROVE Quiet
  BY <1>2, <1>10 DEF Reclaim, Quiet, GoesOn, Training, history
<1>11. ASSUME SchedulerCrash PROVE Quiet
  <2>1. \A w \in Worker : GoesOn(w)
    BY <1>11 DEF SchedulerCrash, TypeOK, WorkerState, GoesOn, Training
  <2>. QED  BY <1>11, <2>1 DEF SchedulerCrash, Quiet
<1>12. ASSUME \/ \E w \in Worker : Rested(w)
              \/ CheckpointBegins \/ OwnerAway \/ GiveUp \/ WriteManifest \/ WriteClock
              \/ StopServing \/ SchedulerStarts \/ GateOpens
              \/ \E o \in Owner : OwnerStep(o) \/ OwnerCrash(o)
       PROVE  UNCHANGED <<worker, lease, completed, granted>>
  BY <1>12, SaveFrame
  DEF Rested, CheckpointBegins, OwnerAway, GiveUp, WriteManifest, WriteClock, StopServing,
      SchedulerStarts, GateOpens, OwnerStep, OwnerStarts, Replicate, OwnerCrash, clock, history
<1>. QED
  BY <1>1, <1>3, <1>4, <1>5, <1>6, <1>7, <1>8, <1>9, <1>10, <1>11, <1>12
  DEF Next, WorkerStep, FitStep, Commit

\* The strengthening of CommitsTheirGeneration.
FenceOK == Fence /\ CommitsTheirGeneration

LEMMA InitFence == Init => FenceOK
BY DEF Init, FenceOK, Fence, CommitsTheirGeneration, Tokens, Training, Idle

\* A fresh token is neither a worker's nor granted.
LEMMA TokensInUse ==
  /\ \A v \in Worker : worker[v].token \in InUse
  /\ Tokens(granted) \subseteq InUse
<1>. DEFINE S1 == {lease[p] : p \in Path}
            S2 == {worker[w].token : w \in Worker}
            S3 == UNION {seen[o] : o \in Owner}
            S4 == Tokens(granted)
<1>1. InUse = S1 \cup S2 \cup S3 \cup S4
  BY DEF InUse, Tokens
<1>2. \A v \in Worker : worker[v].token \in S2
  OBVIOUS
<1>. HIDE DEF S1, S2, S3
<1>. QED  BY <1>1, <1>2

\* A lease taken: its token is fresh.
LEMMA RequestFence ==
  ASSUME TypeOK, FenceOK, NEW w \in Worker, Request(w)
  PROVE  FenceOK'
<1>0. UNCHANGED <<completed, granted>>
  BY DEF Request, history
<1>1. CASE UNCHANGED <<lease, worker>>
  BY <1>0, <1>1 DEF FenceOK, Fence, CommitsTheirGeneration, Tokens, Training
<1>2. CASE \E p \in Eligible : \E n \in Unused(p) :
             /\ lease' = [lease EXCEPT ![p] = <<p, n>>]
             /\ worker' = [worker EXCEPT ![w] =
                  [Idle EXCEPT !.at = "leased", !.token = <<p, n>>, !.gen = completed[p]]]
  <2>1. PICK p \in Path, n \in 1 .. MaxToken :
             /\ <<p, n>> \notin InUse
             /\ lease' = [lease EXCEPT ![p] = <<p, n>>]
             /\ worker' = [worker EXCEPT ![w] =
                  [Idle EXCEPT !.at = "leased", !.token = <<p, n>>, !.gen = completed[p]]]
    BY <1>2 DEF Eligible, Unused
  <2>. DEFINE t == <<p, n>>
  <2>2. t[1] = p /\ t # NoLease
    BY Constants DEF Token
  <2>3. /\ \A v \in Worker : worker[v].token # t
        /\ t \notin Tokens(granted)
    <3>1. t \notin InUse
      BY <2>1
    <3>. QED  BY <3>1, TokensInUse
  <2>4. /\ worker'[w].token = t /\ worker'[w].gen = completed[p] /\ worker'[w].at = "leased" /\ worker'[w].failed = {}
        /\ \A v \in Worker \ {w} : worker'[v] = worker[v]
        /\ lease' = [lease EXCEPT ![p] = t]
    BY <2>1 DEF TypeOK, Idle
  <2>. HIDE DEF t
  <2>5. \A u, v \in Worker : u # v /\ worker'[u].token = worker'[v].token => worker'[u].token = NoLease
    BY <2>3, <2>4 DEF FenceOK, Fence
  <2>6. \A v \in Worker : Training(v)' =>
       /\ worker'[v].token \notin Tokens(granted) /\ worker'[v].failed = {}
       /\ lease'[worker'[v].token[1]] = worker'[v].token
            => worker'[v].gen = completed[worker'[v].token[1]]
    <3>1. CASE \A q \in Path : lease'[q] = IF q = p THEN t ELSE lease[q]
      <4> SUFFICES ASSUME NEW v \in Worker, Training(v)'
                   PROVE  /\ worker'[v].token \notin Tokens(granted) /\ worker'[v].failed = {}
                          /\ lease'[worker'[v].token[1]] = worker'[v].token
                               => worker'[v].gen = completed[worker'[v].token[1]]
        OBVIOUS
      <4>1. CASE v = w
        BY <2>2, <2>3, <2>4, <4>1
      <4>2. CASE v # w
        <5>1. worker'[v] = worker[v] /\ Training(v)
          BY <2>4, <4>2 DEF Training
        <5>2. worker[v].token[1] \in Path
          BY <5>1 DEF Training, TypeOK, WorkerState, Token
        <5>. QED  BY <2>3, <3>1, <5>1, <5>2 DEF FenceOK, Fence
      <4>. QED  BY <4>1, <4>2
    <3>. QED  BY <2>4, <3>1 DEF TypeOK, ClockTypes
  <2>7. \A v \in Worker : worker'[v].at = "push" =>
       /\ worker'[v].token \in Tokens(granted)
       /\ worker'[v].todo \cup worker'[v].failed \subseteq Keys[worker'[v].token[1]]
    BY <2>4 DEF FenceOK, Fence
  <2>. QED  BY <1>0, <2>5, <2>6, <2>7 DEF FenceOK, Fence, CommitsTheirGeneration, Tokens, Training
<1>. QED  BY <1>1, <1>2 DEF Request

\* A commit accepted: the path moves on, and its lease is void.
LEMMA AcceptFence ==
  ASSUME TypeOK, FenceOK, NEW w \in Worker, Commit(w), Accept(w)
  PROVE  FenceOK'
<1>. DEFINE t == worker[w].token
            p == t[1]
<1>1. /\ worker[w].at = "trained" /\ t \in Token /\ p \in Path /\ t # NoLease /\ Training(w)
  BY Constants DEF Commit, TypeOK, WorkerState, Token, Training
<1>2. /\ lease[p] = t /\ t \notin Tokens(granted) /\ worker[w].gen = completed[p]
  BY <1>1 DEF Accept, Fenced, FenceOK, Fence
<1>3. /\ lease' = [lease EXCEPT ![p] = NoLease]
      /\ completed' = [completed EXCEPT ![p] = @ + 1]
      /\ granted' = granted \cup {[token |-> t, gen |-> worker[w].gen, as |-> completed[p]]}
  BY DEF Accept, Freed
<1>4. /\ \A v \in Worker \ {w} : worker'[v] = worker[v]
      /\ ~Training(w)'
      /\ worker'[w].token \in {t, NoLease}
      /\ worker'[w].at = "push" => worker'[w].token = t /\ worker'[w].todo = Keys[p]
                                     /\ worker'[w].failed = worker[w].failed
  BY <1>1 DEF Accept, TypeOK, Away, Idle, Training, WorkerState
<1>. HIDE DEF t, p
<1>5. Tokens(granted') = Tokens(granted) \cup {t}
  BY <1>3, TokensAdd
<1>6. \A u, v \in Worker : u # v /\ worker'[u].token = worker'[v].token => worker'[u].token = NoLease
  <2>1. \A v \in Worker : worker'[v].token \in {worker[v].token, NoLease}
    BY <1>4 DEF t
  <2>. QED  BY <2>1 DEF FenceOK, Fence
<1>7. ASSUME NEW v \in Worker, Training(v)'
      PROVE  /\ worker'[v].token \notin Tokens(granted') /\ worker'[v].failed = {}
             /\ lease'[worker'[v].token[1]] = worker'[v].token
                  => worker'[v].gen = completed'[worker'[v].token[1]]
  <2>1. v # w /\ worker'[v] = worker[v] /\ Training(v)
    BY <1>4, <1>7 DEF Training
  <2>2. worker[v].token \in Token /\ worker[v].token # NoLease /\ worker[v].token[1] \in Path
    BY <2>1, Constants DEF TypeOK, WorkerState, Training, Token
  <2>3. worker[v].token # t
    BY <2>1, <2>2 DEF FenceOK, Fence, t
  <2>4. lease'[worker[v].token[1]] = worker[v].token
          => completed'[worker[v].token[1]] = completed[worker[v].token[1]]
    BY <1>3, <2>2 DEF TypeOK, ClockTypes
  <2>5. lease'[worker[v].token[1]] = worker[v].token => lease[worker[v].token[1]] = worker[v].token
    BY <1>3, <2>2 DEF TypeOK, ClockTypes
  <2>. QED  BY <1>5, <2>1, <2>3, <2>4, <2>5 DEF FenceOK, Fence
<1>8. ASSUME NEW v \in Worker, worker'[v].at = "push"
      PROVE  /\ worker'[v].token \in Tokens(granted')
             /\ worker'[v].todo \cup worker'[v].failed \subseteq Keys[worker'[v].token[1]]
  <2>1. CASE v = w
    <3>1. worker[w].failed = {}
      BY <1>1 DEF FenceOK, Fence
    <3>. QED  BY <1>4, <1>5, <1>8, <2>1, <3>1 DEF p
  <2>2. CASE v # w
    BY <1>4, <1>5, <1>8, <2>2 DEF FenceOK, Fence
  <2>. QED  BY <2>1, <2>2
<1>9. \A g \in granted' : g.gen = g.as
  BY <1>2, <1>3 DEF FenceOK, CommitsTheirGeneration
<1>. QED  BY <1>6, <1>7, <1>8, <1>9 DEF FenceOK, Fence, CommitsTheirGeneration, Training

\* Any other step.
LEMMA QuietFence ==
  ASSUME TypeOK, TypeOK', FenceOK, Quiet
  PROVE  FenceOK'
<1>1. ASSUME NEW v \in Worker, worker'[v].token # NoLease
      PROVE  worker'[v].token = worker[v].token
  BY <1>1 DEF Quiet, GoesOn
<1>2. \A u, v \in Worker : u # v /\ worker'[u].token = worker'[v].token => worker'[u].token = NoLease
  BY <1>1 DEF FenceOK, Fence
<1>3. ASSUME NEW v \in Worker, Training(v)'
      PROVE  /\ worker'[v].token \notin Tokens(granted) /\ worker'[v].failed = {}
             /\ lease'[worker'[v].token[1]] = worker'[v].token
                  => worker'[v].gen = completed'[worker'[v].token[1]]
  <2>1. worker'[v].token \in Token /\ worker'[v].token # NoLease
    BY <1>3, Constants DEF TypeOK, WorkerState, Training
  <2>2. /\ worker'[v].token = worker[v].token /\ worker'[v].gen = worker[v].gen
        /\ Training(v) /\ worker'[v].failed = worker[v].failed
    BY <1>3, <2>1 DEF Quiet, GoesOn
  <2>3. worker'[v].token[1] \in Path
    BY <2>1 DEF Token
  <2>. QED  BY <2>1, <2>2, <2>3 DEF FenceOK, Fence, Quiet
<1>4. ASSUME NEW v \in Worker, worker'[v].at = "push"
      PROVE  /\ worker'[v].token \in Tokens(granted)
             /\ worker'[v].todo \cup worker'[v].failed \subseteq Keys[worker'[v].token[1]]
  <2>1. worker'[v].token \in Token /\ worker'[v].token # NoLease
    BY <1>4, Constants DEF TypeOK, WorkerState
  <2>. QED  BY <1>4, <2>1 DEF FenceOK, Fence, Quiet, GoesOn
<1>. QED  BY <1>2, <1>3, <1>4 DEF Quiet, FenceOK, Fence, CommitsTheirGeneration, Tokens, Training

LEMMA NextFence == TypeOK /\ TypeOK' /\ FenceOK /\ [Next]_vars => FenceOK'
<1>1. ASSUME FenceOK, UNCHANGED vars
      PROVE  FenceOK'
  BY <1>1 DEF vars, clock, history, FenceOK, Fence, CommitsTheirGeneration, Tokens, Training
<1>. QED  BY <1>1, Steps, RequestFence, AcceptFence, QuietFence

LEMMA FenceHolds == Spec => []FenceOK
BY TypeCorrect, InitFence, NextFence, PTL DEF Spec

\* A commit that is counted was trained as the generation it is counted as: the
\* token fence of _commit suffices, whatever leases were reclaimed and whichever
\* scheduler issued them.
THEOREM GenerationsMatch == Spec => []CommitsTheirGeneration
BY FenceHolds, PTL DEF FenceOK

-----------------------------------------------------------------------------
\* What was accepted lands.

\* The keys of a token's path whose primary is o: one push.
KeysAt(o, t) == {k \in Keys[t[1]] : Primary(k) = o}

\* An owner that never went down serves everything it holds.
Steady == \A o \in Owner \ crashed : up[o] /\ active[o] = Holds(o)

\* Such an owner has applied each grant it has used up to all the keys the
\* grant is for; it is asked for all of them at once.
Lands ==
  /\ \A o \in Owner \ crashed : \A t \in seen[o] : \A k \in KeysAt(o, t) : t \in content[o][k]
  /\ \A w \in Worker : worker[w].at = "push" =>
       /\ worker[w].todo \cap worker[w].failed = {}
       /\ \A o \in Owner \ crashed : worker[w].token \notin seen[o] =>
            \/ KeysAt(o, worker[w].token) \subseteq worker[w].todo
            \/ KeysAt(o, worker[w].token) \subseteq worker[w].failed

LandsOK == Steady /\ Lands /\ AcceptedLands

\* A step that is no push leaves alone what the owners that are still steady
\* after it have and serve.
ServersStay ==
  /\ crashed \subseteq crashed'
  /\ \A o \in Owner \ crashed' :
       /\ up'[o] = up[o] /\ active'[o] = active[o] /\ seen'[o] = seen[o]
       /\ \A k \in Key : Primary(k) = o => content'[o][k] = content[o][k]

\* A step that is no push and accepts nothing leaves a push alone, turns to what
\* failed of it, or ends it.
PushesOn(w) ==
  /\ worker'[w].at = "push" =>
       /\ worker[w].at = "push" /\ worker'[w].token = worker[w].token
       /\ \/ worker'[w].todo = worker[w].todo /\ worker'[w].failed = worker[w].failed
          \/ worker[w].todo = {} /\ worker'[w].todo = worker[w].failed /\ worker'[w].failed = {}
  /\ worker[w].at = "push" /\ worker'[w].at # "push" =>
       \/ worker[w].todo = {} /\ worker[w].failed = {}
       \/ worker[w].token \in dropped'

PushesStay == granted' = granted /\ dropped \subseteq dropped' /\ \A w \in Worker : PushesOn(w)

LEMMA InitLands == Init => LandsOK
BY DEF Init, LandsOK, Steady, Lands, AcceptedLands, Idle

LEMMA ServersStep ==
  ASSUME TypeOK, Steady, Next
  PROVE  (\E w \in Worker : Push(w)) \/ ServersStay
<1>1. ASSUME UNCHANGED <<up, active, seen, content, crashed>>
      PROVE  ServersStay
  BY <1>1 DEF ServersStay
<1>2. ASSUME NEW o \in Owner, OwnerCrash(o)
      PROVE  ServersStay
  BY <1>2 DEF OwnerCrash, ServersStay, TypeOK, ServerTypes
<1>3. ASSUME NEW o \in Owner, OwnerStarts(o)
      PROVE  ServersStay
  <2>1. o \in crashed /\ crashed' = crashed /\ seen' = seen
    BY <1>3 DEF OwnerStarts, Steady, history
  <2>2. \A q \in Owner \ {o} : up'[q] = up[q] /\ active'[q] = active[q] /\ content'[q] = content[q]
    BY <1>3 DEF OwnerStarts, TypeOK, ServerTypes
  <2>. QED  BY <2>1, <2>2 DEF ServersStay
<1>4. ASSUME NEW o \in Owner, NEW k \in Key, Replicate(o, k)
      PROVE  ServersStay
  <2>1. UNCHANGED <<up, seen, crashed>>
    BY <1>4 DEF Replicate, history
  <2>2. /\ active' = [active EXCEPT ![o] = @ \cup {k}] /\ k \in Holds(o)
        /\ ~(Primary(k) = o /\ k \in active[o])
    BY <1>4 DEF Replicate
  <2>3. \A q \in Owner \ crashed : active'[q] = active[q] /\ (Primary(k) = q => q # o)
    BY <2>2 DEF Steady, TypeOK, ServerTypes
  <2>4. \A q \in Owner, j \in Key : content'[q][j] = content[q][j] \/ (q = o /\ j = k)
    <3>1. UNCHANGED content \/ \E s \in Range(Replicas[k]) :
             content' = [content EXCEPT ![o][k] = IF Ver(s, k) > Ver(o, k) THEN content[s][k] ELSE @]
      BY <1>4 DEF Replicate
    <3>. QED  BY <3>1 DEF TypeOK, ServerTypes
  <2>. QED  BY <2>1, <2>3, <2>4 DEF ServersStay
<1>5. ASSUME \/ \E w \in Worker : \/ Request(w) \/ Rested(w) \/ Train(w) \/ FetchFails(w) \/ Commit(w)
                                  \/ Disconnect(w) \/ Reconnect(w) \/ PushEnds(w) \/ Leave(w)
                                  \/ WorkerCrash(w)
             \/ \E p \in Path : Reclaim(p)
             \/ FitStep \/ GiveUp \/ SchedulerCrash
             \/ \E o \in Owner, t \in IOThread : SaveStep(o, t)
      PROVE  UNCHANGED <<up, active, seen, content, crashed>>
  BY <1>5, SaveFrame
  DEF Request, Rested, Train, FetchFails, Commit, Disconnect, Reconnect, PushEnds, Leave, WorkerCrash,
      Reclaim, FitStep, CheckpointBegins, OwnerAway, GiveUp, WriteManifest, WriteClock, StopServing,
      SchedulerStarts, GateOpens, SchedulerCrash, servers, history
<1>. QED  BY <1>1, <1>2, <1>3, <1>4, <1>5 DEF Next, WorkerStep, OwnerStep

\* A step that changes a worker that pushes nothing, to push nothing.
LEMMA NoPush ==
  ASSUME TypeOK, NEW w \in Worker, worker[w].at # "push", NEW x, x.at # "push",
         worker' = [worker EXCEPT ![w] = x]
  PROVE  \A v \in Worker : PushesOn(v)
BY DEF TypeOK, PushesOn

LEMMA PushesStep ==
  ASSUME TypeOK, Next
  PROVE  \/ \E w \in Worker : Push(w) \/ (Commit(w) /\ Accept(w))
         \/ PushesStay
<1>1. ASSUME UNCHANGED <<worker, granted, dropped>>
      PROVE  PushesStay
  BY <1>1 DEF PushesStay, PushesOn
<1>0. Idle.at # "push" /\ Away.at # "push" /\ [Away EXCEPT !.at = "gone"].at # "push"
  BY DEF Idle, Away
<1>2. ASSUME NEW w \in Worker, Request(w) PROVE PushesStay
  <2>1. CASE UNCHANGED worker
    BY <1>1, <1>2, <2>1 DEF Request, history
  <2>2. CASE \E p, n : worker' = [worker EXCEPT ![w] =
               [Idle EXCEPT !.at = "leased", !.token = <<p, n>>, !.gen = completed[p]]]
    <3>1. PICK p, n : worker' = [worker EXCEPT ![w] =
               [Idle EXCEPT !.at = "leased", !.token = <<p, n>>, !.gen = completed[p]]]
      BY <2>2
    <3>2. [Idle EXCEPT !.at = "leased", !.token = <<p, n>>, !.gen = completed[p]].at = "leased"
      BY DEF Idle
    <3>3. \A v \in Worker : PushesOn(v)
      BY <1>2, <3>1, <3>2, NoPush DEF Request
    <3>. QED  BY <1>2, <3>3 DEF Request, PushesStay, history
  <2>. QED  BY <1>2, <2>1, <2>2 DEF Request
<1>3. ASSUME NEW w \in Worker, Train(w) PROVE PushesStay
  <2>1. [worker[w] EXCEPT !.at = "trained"].at = "trained"
    BY DEF TypeOK, WorkerState
  <2>2. worker' = [worker EXCEPT ![w] = [worker[w] EXCEPT !.at = "trained"]]
    BY <1>3 DEF Train
  <2>3. \A v \in Worker : PushesOn(v)
    BY <1>3, <2>1, <2>2, NoPush DEF Train
  <2>. QED  BY <1>3, <2>3 DEF Train, PushesStay, history
<1>4. ASSUME NEW w \in Worker, FetchFails(w) \/ Disconnect(w) \/ Reconnect(w) PROVE PushesStay
  <2>1. \A v \in Worker : PushesOn(v)
    BY <1>0, <1>4, NoPush DEF FetchFails, Disconnect, Reconnect
  <2>. QED  BY <1>4, <2>1 DEF FetchFails, Disconnect, Reconnect, PushesStay, history
<1>5. ASSUME NEW w \in Worker, Leave(w) PROVE PushesStay
  <2>1. \A v \in Worker : PushesOn(v)
    BY <1>0, <1>5, NoPush DEF Leave
  <2>. QED  BY <1>5, <2>1 DEF Leave, PushesStay, history
<1>6. ASSUME NEW w \in Worker, Commit(w), Refuse(w) PROVE PushesStay
  <2>1. \A v \in Worker : PushesOn(v)
    BY <1>0, <1>6, NoPush DEF Commit, Refuse
  <2>. QED  BY <1>6, <2>1 DEF Refuse, PushesStay
<1>7. ASSUME NEW w \in Worker, WorkerCrash(w) PROVE PushesStay
  BY <1>0, <1>7 DEF WorkerCrash, PushesStay, PushesOn, TypeOK
<1>8. ASSUME NEW w \in Worker, PushEnds(w) PROVE PushesStay
  <2>0. worker[w].at = "push" /\ worker[w].todo = {} /\ granted' = granted
    BY <1>8 DEF PushEnds
  <2>1. CASE worker' = [worker EXCEPT ![w].todo = worker[w].failed, ![w].failed = {},
                                      ![w].again = TRUE] /\ UNCHANGED dropped
    BY <2>0, <2>1 DEF TypeOK, WorkerState, PushesStay, PushesOn
  <2>2. CASE /\ worker[w].failed = {} /\ UNCHANGED dropped
             /\ \E b : worker' = [worker EXCEPT ![w] = [Idle EXCEPT !.connected = b]]
    BY <2>0, <2>2 DEF TypeOK, PushesStay, PushesOn, Idle
  <2>3. CASE /\ dropped' = dropped \cup {worker[w].token}
             /\ \E b : worker' = [worker EXCEPT ![w] = [Idle EXCEPT !.connected = b]]
    BY <2>0, <2>3 DEF TypeOK, PushesStay, PushesOn, Idle
  <2>. QED  BY <1>8, <2>1, <2>2, <2>3 DEF PushEnds
<1>9. ASSUME SchedulerCrash PROVE PushesStay
  <2>1. \A w \in Worker : PushesOn(w)
    BY <1>9 DEF SchedulerCrash, TypeOK, WorkerState, PushesOn
  <2>. QED  BY <1>9, <2>1 DEF SchedulerCrash, PushesStay
<1>10. ASSUME \/ \E w \in Worker : Rested(w)
              \/ \E p \in Path : Reclaim(p)
              \/ FitStep \/ GiveUp
              \/ \E o \in Owner : OwnerStep(o) \/ OwnerCrash(o)
       PROVE  UNCHANGED <<worker, granted, dropped>>
  BY <1>10, SaveFrame
  DEF Rested, Reclaim, FitStep, CheckpointBegins, OwnerAway, GiveUp, WriteManifest, WriteClock,
      StopServing, SchedulerStarts, GateOpens, OwnerStep, OwnerStarts, Replicate, OwnerCrash, history
<1>. QED
  BY <1>1, <1>2, <1>3, <1>4, <1>5, <1>6, <1>7, <1>8, <1>9, <1>10 DEF Next, WorkerStep, Commit

\* A token's keys are keys, split by their primaries.
LEMMA TokenKeys ==
  ASSUME NEW t \in Token
  PROVE  /\ Keys[t[1]] \subseteq Key
         /\ \A k \in Keys[t[1]] : Primary(k) \in Owner /\ k \in KeysAt(Primary(k), t)
         /\ \A o : KeysAt(o, t) \subseteq Key
<1>1. t[1] \in Path
  BY DEF Token
<1>2. Keys[t[1]] \subseteq Key
  BY <1>1, Constants
<1>. QED  BY <1>2, Primaries DEF KeysAt

\* Steps that neither push nor accept.
LEMMA StillLands ==
  ASSUME TypeOK, LandsOK, ServersStay, PushesStay
  PROVE  LandsOK'
<1>1. \A o \in Owner \ crashed' :
        /\ o \in Owner \ crashed /\ up'[o] = up[o] /\ active'[o] = active[o] /\ seen'[o] = seen[o]
        /\ \A k \in Key : Primary(k) = o => content'[o][k] = content[o][k]
  BY DEF ServersStay
<1>2. Steady'
  BY <1>1 DEF LandsOK, Steady
<1>3. ASSUME NEW o \in Owner \ crashed', NEW t \in seen'[o], NEW k \in KeysAt(o, t)
      PROVE  t \in content'[o][k]
  <2>1. t \in seen[o] /\ t \in Token
    BY <1>1 DEF TypeOK, ServerTypes
  <2>2. k \in Key /\ Primary(k) = o
    BY <2>1, TokenKeys DEF KeysAt
  <2>. QED  BY <1>1, <2>1, <2>2 DEF LandsOK, Lands
<1>4. ASSUME NEW w \in Worker, worker'[w].at = "push"
      PROVE  /\ worker'[w].todo \cap worker'[w].failed = {}
             /\ \A o \in Owner \ crashed' : worker'[w].token \notin seen'[o] =>
                  \/ KeysAt(o, worker'[w].token) \subseteq worker'[w].todo
                  \/ KeysAt(o, worker'[w].token) \subseteq worker'[w].failed
  <2>1. /\ worker[w].at = "push" /\ worker'[w].token = worker[w].token
        /\ \/ worker'[w].todo = worker[w].todo /\ worker'[w].failed = worker[w].failed
           \/ worker[w].todo = {} /\ worker'[w].todo = worker[w].failed /\ worker'[w].failed = {}
    BY <1>4 DEF PushesStay, PushesOn
  <2>2. worker[w].todo \cap worker[w].failed = {}
    BY <2>1 DEF LandsOK, Lands
  <2>3. ASSUME NEW o \in Owner \ crashed', worker'[w].token \notin seen'[o]
        PROVE  \/ KeysAt(o, worker'[w].token) \subseteq worker'[w].todo
               \/ KeysAt(o, worker'[w].token) \subseteq worker'[w].failed
    <3>1. \/ KeysAt(o, worker[w].token) \subseteq worker[w].todo
          \/ KeysAt(o, worker[w].token) \subseteq worker[w].failed
      BY <1>1, <2>1, <2>3 DEF LandsOK, Lands
    <3>. QED  BY <2>1, <3>1
  <2>. QED  BY <2>1, <2>2, <2>3
<1>5. ASSUME NEW g \in granted', NEW k \in Keys[g.token[1]]
      PROVE  \/ g.token \in content'[Primary(k)][k]
             \/ Primary(k) \in crashed'
             \/ g.token \in dropped'
             \/ \E w \in Worker : /\ worker'[w].at = "push" /\ worker'[w].token = g.token
                                  /\ k \in worker'[w].todo \cup worker'[w].failed
  <2>1. g \in granted /\ g.token \in Token
    BY DEF PushesStay, TypeOK, HistoryTypes
  <2>2. k \in Key /\ Primary(k) \in Owner
    BY <2>1, TokenKeys
  <2>3. CASE g.token \in content[Primary(k)][k]
    BY <1>1, <2>2, <2>3
  <2>4. CASE Primary(k) \in crashed \/ g.token \in dropped
    BY <2>4 DEF ServersStay, PushesStay
  <2>5. ASSUME NEW w \in Worker, worker[w].at = "push", worker[w].token = g.token,
               k \in worker[w].todo \cup worker[w].failed
        PROVE  \/ g.token \in dropped'
               \/ /\ worker'[w].at = "push" /\ worker'[w].token = g.token
                  /\ k \in worker'[w].todo \cup worker'[w].failed
    BY <2>5 DEF PushesStay, PushesOn
  <2>. QED  BY <2>1, <2>3, <2>4, <2>5 DEF LandsOK, AcceptedLands
<1>. QED  BY <1>2, <1>3, <1>4, <1>5 DEF LandsOK, Lands, AcceptedLands

\* An accepted commit is all to be pushed, or given up.
LEMMA AcceptLands ==
  ASSUME TypeOK, FenceOK, LandsOK, NEW w \in Worker, Commit(w), Accept(w)
  PROVE  LandsOK'
<1>. DEFINE t == worker[w].token
<1>1. /\ worker[w].at = "trained" /\ t \in Token /\ worker[w].failed = {}
  BY DEF Commit, TypeOK, WorkerState, Training, FenceOK, Fence
<1>2. /\ \A v \in Worker \ {w} : worker'[v] = worker[v]
      /\ dropped \subseteq dropped'
      /\ \/ /\ worker'[w].at = "push" /\ worker'[w].token = t
            /\ worker'[w].todo = Keys[t[1]] /\ worker'[w].failed = {}
         \/ /\ worker'[w].at # "push" /\ t \in dropped'
  BY <1>1 DEF Accept, TypeOK, WorkerState, Away, Idle
<1>3. \A g \in granted' : g \in granted \/ g.token = t
  BY DEF Accept
<1>4. UNCHANGED <<up, active, content, seen, crashed>>
  BY DEF Commit, servers
<1>. HIDE DEF t
<1>5. Steady'
  BY <1>4 DEF LandsOK, Steady
<1>6. \A o \in Owner \ crashed' : \A u \in seen'[o] : \A k \in KeysAt(o, u) : u \in content'[o][k]
  BY <1>4 DEF LandsOK, Lands
<1>7. ASSUME NEW v \in Worker, worker'[v].at = "push"
      PROVE  /\ worker'[v].todo \cap worker'[v].failed = {}
             /\ \A o \in Owner \ crashed' : worker'[v].token \notin seen'[o] =>
                  \/ KeysAt(o, worker'[v].token) \subseteq worker'[v].todo
                  \/ KeysAt(o, worker'[v].token) \subseteq worker'[v].failed
  <2>1. CASE v = w
    BY <1>2, <1>7, <2>1 DEF KeysAt
  <2>2. CASE v # w
    BY <1>2, <1>4, <1>7, <2>2 DEF LandsOK, Lands
  <2>. QED  BY <2>1, <2>2
<1>8. ASSUME NEW g \in granted', NEW k \in Keys[g.token[1]]
      PROVE  \/ g.token \in content'[Primary(k)][k]
             \/ Primary(k) \in crashed'
             \/ g.token \in dropped'
             \/ \E v \in Worker : /\ worker'[v].at = "push" /\ worker'[v].token = g.token
                                  /\ k \in worker'[v].todo \cup worker'[v].failed
  <2>1. CASE g.token = t
    BY <1>2, <2>1
  <2>2. CASE g \in granted
    <3>1. \/ g.token \in content[Primary(k)][k]
          \/ Primary(k) \in crashed
          \/ g.token \in dropped
          \/ \E v \in Worker : /\ worker[v].at = "push" /\ worker[v].token = g.token
                               /\ k \in worker[v].todo \cup worker[v].failed
      BY <2>2 DEF LandsOK, AcceptedLands
    <3>2. \A v \in Worker : worker[v].at = "push" => worker'[v] = worker[v]
      BY <1>1, <1>2
    <3>. QED  BY <1>2, <1>4, <3>1, <3>2
  <2>. QED  BY <1>3, <2>1, <2>2
<1>. QED  BY <1>5, <1>6, <1>7, <1>8 DEF LandsOK, Lands, AcceptedLands

\* What a push that lands does to the contents.
LEMMA Absorbs ==
  ASSUME TypeOK, NEW o \in Owner, NEW keys, NEW t, Absorb(o, keys, t)
  PROVE  \A q \in Owner, k \in Key :
           content'[q][k] = IF q = o /\ k \in keys THEN content[q][k] \cup {t} ELSE content[q][k]
BY DEF Absorb, TypeOK, ServerTypes

\* A push to one server: all the token's keys there, once.
LEMMA PushLands ==
  ASSUME TypeOK, FenceOK, LandsOK, NEW w \in Worker, Push(w)
  PROVE  LandsOK'
<1>1. /\ worker[w].at = "push" /\ worker[w] \in WorkerState /\ worker[w].token \in Token
      /\ UNCHANGED <<up, active, crashed, granted, dropped>>
  BY PushStep DEF history
<1>. DEFINE t == worker[w].token
<1>2. PICK o \in Owner, keys \in SUBSET Key, f \in SUBSET Key :
        /\ keys = {k \in worker[w].todo : Primary(k) = o} /\ keys # {} /\ f \subseteq keys
        /\ PushEffect(w, o, keys, f)
  BY PushStep
<1>3. /\ \A v \in Worker \ {w} : worker'[v] = worker[v]
      /\ worker'[w].at = "push" /\ worker'[w].token = t
      /\ worker'[w].todo = worker[w].todo \ keys /\ worker'[w].failed = worker[w].failed \cup f
  BY <1>1, <1>2 DEF PushEffect, TypeOK, WorkerState
<1>4. \/ /\ seen' = [seen EXCEPT ![o] = @ \cup {t}] /\ keys \ Applies(o, keys) \subseteq f
         /\ \A q \in Owner, k \in Key : content'[q][k] =
              IF q = o /\ k \in Applies(o, keys) THEN content[q][k] \cup {t} ELSE content[q][k]
      \/ content' = content /\ seen' = seen /\ (f = keys \/ t \in seen[o])
  <2>1. ASSUME Absorb(o, Applies(o, keys), t)
        PROVE  \A q \in Owner, k \in Key : content'[q][k] =
                 IF q = o /\ k \in Applies(o, keys) THEN content[q][k] \cup {t} ELSE content[q][k]
    BY <2>1, Absorbs
  <2>. QED  BY <1>2, <2>1 DEF PushEffect
<1>. HIDE DEF t
<1>5. /\ \A q \in Owner, k \in Key : content[q][k] \subseteq content'[q][k]
      /\ \A q \in Owner : q # o => seen'[q] = seen[q]
      /\ \A q \in Owner : seen[q] \subseteq seen'[q] /\ seen'[q] \subseteq seen[q] \cup {t}
  <2>1. seen \in [Owner -> SUBSET Token]
    BY DEF TypeOK, ServerTypes
  <2>2. \A q \in Owner : seen'[q] = seen[q] \/ (q = o /\ seen'[q] = seen[q] \cup {t})
    BY <1>4, <2>1
  <2>3. \A q \in Owner, k \in Key : content[q][k] \subseteq content'[q][k]
    BY <1>4
  <2>. QED  BY <2>2, <2>3
<1>. USE DEF t
<1>6. worker[w].todo \cap worker[w].failed = {} /\ worker[w].todo \subseteq Keys[t[1]]
  BY <1>1 DEF LandsOK, Lands, FenceOK, Fence
<1>7. keys \subseteq KeysAt(o, t)
  BY <1>2, <1>6 DEF KeysAt
<1>8. o \notin crashed => Applies(o, keys) = keys
  <2>1. \A k \in keys : Primary(k) = o /\ k \in Holds(o)
    BY <1>2, Primaries
  <2>. QED  BY <2>1 DEF Applies, LandsOK, Steady
<1>9. o \notin crashed /\ t \notin seen[o] => KeysAt(o, t) = keys
  BY <1>1, <1>2, <1>6, <1>7 DEF LandsOK, Lands, KeysAt
<1>. HIDE DEF t
<1>10. Steady'
  BY <1>1 DEF LandsOK, Steady
<1>11. ASSUME NEW q \in Owner \ crashed', NEW u \in seen'[q], NEW k \in KeysAt(q, u)
       PROVE  u \in content'[q][k]
  <2>1. q \notin crashed /\ u \in Token /\ k \in Key
    <3>1. u \in Token
      <4>1. seen[q] \subseteq Token
        BY DEF TypeOK, ServerTypes
      <4>. QED  BY <1>1, <1>5, <4>1 DEF t
    <3>. QED  BY <1>1, <3>1, TokenKeys
  <2>2. CASE u \in seen[q]
    BY <1>5, <2>1, <2>2 DEF LandsOK, Lands
  <2>3. CASE u \notin seen[q]
    <3>1. q = o /\ u = t /\ t \notin seen[o]
      BY <1>5, <2>3
    <3>. QED  BY ZenonT(40), <1>4, <1>8, <1>9, <2>1, <2>3, <3>1
  <2>. QED  BY <2>2, <2>3
<1>12. ASSUME NEW v \in Worker, worker'[v].at = "push"
      PROVE  /\ worker'[v].todo \cap worker'[v].failed = {}
             /\ \A q \in Owner \ crashed' : worker'[v].token \notin seen'[q] =>
                  \/ KeysAt(q, worker'[v].token) \subseteq worker'[v].todo
                  \/ KeysAt(q, worker'[v].token) \subseteq worker'[v].failed
  <2>1. CASE v # w
    BY <1>1, <1>3, <1>5, <1>12, <2>1 DEF LandsOK, Lands
  <2>2. CASE v = w
    <3>1. worker'[w].todo \cap worker'[w].failed = {}
      BY <1>2, <1>3, <1>6
    <3>2. ASSUME NEW q \in Owner \ crashed, t \notin seen'[q]
          PROVE  KeysAt(q, t) \subseteq worker'[w].todo \/ KeysAt(q, t) \subseteq worker'[w].failed
      <4>1. t \notin seen[q]
        BY <1>5, <3>2
      <4>2. CASE q = o
        BY <1>3, <1>4, <1>9, <3>2, <4>1, <4>2 DEF TypeOK, ServerTypes
      <4>3. CASE q # o
        <5>1. KeysAt(q, t) \cap keys = {}
          BY <1>2, <4>3 DEF KeysAt
        <5>2. KeysAt(q, t) \subseteq worker[w].todo \/ KeysAt(q, t) \subseteq worker[w].failed
          BY <1>1, <4>1 DEF LandsOK, Lands, t
        <5>. QED  BY <1>3, <5>1, <5>2
      <4>. QED  BY <4>2, <4>3
    <3>. QED  BY <1>1, <1>3, <2>2, <3>1, <3>2
  <2>. QED  BY <2>1, <2>2
<1>13. ASSUME NEW g \in granted', NEW k \in Keys[g.token[1]]
      PROVE  \/ g.token \in content'[Primary(k)][k]
             \/ Primary(k) \in crashed'
             \/ g.token \in dropped'
             \/ \E v \in Worker : /\ worker'[v].at = "push" /\ worker'[v].token = g.token
                                  /\ k \in worker'[v].todo \cup worker'[v].failed
  <2>1. g \in granted /\ g.token \in Token
    BY <1>1 DEF TypeOK, HistoryTypes
  <2>2. k \in Key /\ Primary(k) \in Owner /\ k \in KeysAt(Primary(k), g.token)
    BY <2>1, TokenKeys
  <2>3. CASE g.token \in content[Primary(k)][k]
    BY <1>5, <2>2, <2>3
  <2>4. CASE Primary(k) \in crashed \/ g.token \in dropped
    BY <1>1, <2>4
  <2>5. ASSUME NEW v \in Worker, v # w, worker[v].at = "push", worker[v].token = g.token,
               k \in worker[v].todo \cup worker[v].failed
        PROVE  /\ worker'[v].at = "push" /\ worker'[v].token = g.token
               /\ k \in worker'[v].todo \cup worker'[v].failed
    BY <1>3, <2>5
  <2>6. CASE g.token = t /\ k \in worker[w].todo \cup worker[w].failed
    <3>1. CASE k \notin keys \/ k \in f
      BY <1>3, <2>6, <3>1
    <3>2. CASE k \in keys /\ k \notin f /\ Primary(k) \notin crashed
      <4>1. Primary(k) = o /\ o \notin crashed
        BY <1>2, <3>2
      <4>2. CASE t \in seen[o]
        BY <1>5, <2>2, <2>6, <4>1, <4>2 DEF LandsOK, Lands
      <4>3. CASE t \notin seen[o]
        BY ZenonT(40), <1>4, <1>8, <2>2, <2>6, <3>2, <4>1, <4>3
      <4>. QED  BY <4>2, <4>3
    <3>. QED  BY <1>1, <3>1, <3>2
  <2>. QED  BY <2>1, <2>3, <2>4, <2>5, <2>6 DEF LandsOK, AcceptedLands, t
<1>. QED  BY <1>10, <1>11, <1>12, <1>13 DEF LandsOK, Lands, AcceptedLands

LEMMA NextLands == TypeOK /\ FenceOK /\ LandsOK /\ [Next]_vars => LandsOK'
<1>1. ASSUME LandsOK, UNCHANGED vars
      PROVE  LandsOK'
  BY <1>1 DEF vars, servers, history, LandsOK, Steady, Lands, AcceptedLands
<1>2. ASSUME TypeOK, FenceOK, LandsOK, Next
      PROVE  LandsOK'
  <2>1. CASE \E w \in Worker : Push(w)
    BY <1>2, <2>1, PushLands
  <2>2. CASE \E w \in Worker : Commit(w) /\ Accept(w)
    BY <1>2, <2>2, AcceptLands
  <2>3. CASE ServersStay /\ PushesStay
    BY <1>2, <2>3, StillLands
  <2>. QED  BY <1>2, <2>1, <2>2, <2>3, ServersStep, PushesStep DEF LandsOK
<1>. QED  BY <1>1, <1>2

\* No accepted update is lost silently: the grant a server consumes covers all
\* the keys of the path it is primary of, and it applies each of them.
THEOREM CommitsLand == Spec => []AcceptedLands
BY TypeCorrect, FenceHolds, InitLands, NextLands, PTL DEF Spec, LandsOK

-----------------------------------------------------------------------------
\* The clock counts what the files hold.

\* Modules, files and clocks hold and count what was granted, nothing else.
OnlyGranted ==
  /\ \A o \in Owner, k \in Key : content[o][k] \subseteq Tokens(granted)
  /\ \A d \in Directory, k \in Key :
       file[d][k] \notin {NoFile, Torn} => file[d][k] \subseteq Tokens(granted)
  /\ \A o \in Owner, t \in IOThread, k \in Key : saving[o][t].state[k] \subseteq Tokens(granted)
  /\ counted \subseteq Tokens(granted)
  /\ saved.counted \subseteq Tokens(granted)

\* Between checkpoints, what the running clock counts and a file holds is
\* counted by the saved clock.
Counts ==
  ckpt.at = "none" =>
    \A d \in Directory \ late, k \in Key :
      file[d][k] \notin {NoFile, Torn} => file[d][k] \cap counted \subseteq saved.counted

CountsOK == OnlyGranted /\ Counts

LEMMA InitCounts == Init => CountsOK
BY DEF Init, CountsOK, OnlyGranted, Counts, NoClock, NoSave, Directory

\* What a file that is put in place does to the files.
LEMMA Written ==
  ASSUME TypeOK, NEW o \in Owner, NEW t, NEW k \in Key, NEW x, Puts(o, t, k, x)
  PROVE  \A d \in Directory, j \in Key :
           file'[d][j] = IF d = Dir[o] /\ j = k THEN x ELSE file[d][j]
<1>1. Dir[o] \in Directory
  BY Constants
<1>. QED  BY <1>1 DEF TypeOK, ServerTypes, Puts

\* What a failed rename leaves: the file it found, the snapshot, or a torn file.
LEMMA RenameFailsPuts ==
  ASSUME TypeOK, NEW o \in Owner, NEW t \in IOThread, NEW k \in Key, RenameFails(o, t, k)
  PROVE  \E x : /\ Puts(o, t, k, x)
                /\ x \in {file[Dir[o]][k], saving[o][t].state[k], Torn}
BY DEF RenameFails

\* The files change where a thread puts one, while the scheduler waits for it, or
\* late.
LEMMA FileStep ==
  ASSUME TypeOK, Next
  PROVE  \/ UNCHANGED <<file, late, overtaken>>
         \/ \E o \in Owner, t \in IOThread, k \in Key : WriteFile(o, t, k) \/ RenameFails(o, t, k)
<1>1. ASSUME \E w \in Worker : WorkerStep(w) \/ Leave(w) \/ WorkerCrash(w)
      PROVE  UNCHANGED <<file, late, overtaken>>
  BY ZenonT(40), <1>1
  DEF WorkerStep, Request, Rested, Train, FetchFails, Commit, Disconnect, Reconnect, Push, PushEnds,
      Leave, WorkerCrash, servers, history
<1>2. ASSUME \/ \E p \in Path : Reclaim(p)
             \/ FitStep \/ GiveUp \/ SchedulerCrash
             \/ \E o \in Owner : OwnerStarts(o) \/ OwnerCrash(o) \/ \E k \in Key : Replicate(o, k)
      PROVE  UNCHANGED <<file, late, overtaken>>
  BY <1>2
  DEF Reclaim, FitStep, CheckpointBegins, OwnerAway, GiveUp, WriteManifest, WriteClock, StopServing,
      SchedulerStarts, GateOpens, SchedulerCrash, OwnerStarts, OwnerCrash, Replicate, servers, history
<1>3. ASSUME NEW o \in Owner, NEW t \in IOThread, StartSave(o, t) \/ SaveEnds(o, t)
      PROVE  UNCHANGED <<file, late, overtaken>>
  BY <1>3 DEF StartSave, SaveEnds, history
<1>. QED  BY <1>1, <1>2, <1>3 DEF Next, OwnerStep, SaveStep

\* Where and when a file is put.
LEMMA PutWhen ==
  ASSUME TypeOK, NEW o \in Owner, NEW t \in IOThread, NEW k \in Key,
         WriteFile(o, t, k) \/ RenameFails(o, t, k)
  PROVE  late \subseteq late' /\ (Dir[o] \in late' \/ ckpt'.at = "owners")
<1>1. \E x : Puts(o, t, k, x)
  BY WriteFilePuts, RenameFailsPuts DEF WriteEffect
<1>2. late' = IF Waited(o, t) THEN late ELSE late \cup {Dir[o]}
  BY <1>1 DEF Puts
<1>3. ckpt' = ckpt \/ (Waited(o, t) /\ ckpt' = NextOwner)
  BY DEF WriteFile, RenameFails, checkpoint
<1>4. Waited(o, t) => ckpt.at = "owners" /\ NextOwner.at = "owners"
  BY Waiting DEF Waited, Waits
<1>. QED  BY <1>2, <1>3, <1>4

\* What the calls of save_modules hold: what they held, or a copy of the modules.
LEMMA SavingStep ==
  ASSUME TypeOK, Next
  PROVE  \/ UNCHANGED saving
         \/ \E o \in Owner : OwnerCrash(o)
         \/ \E o \in Owner, t \in IOThread : SaveStep(o, t)
<1>1. ASSUME \E w \in Worker : WorkerStep(w) \/ Leave(w) \/ WorkerCrash(w)
      PROVE  UNCHANGED saving
  BY ZenonT(40), <1>1
  DEF WorkerStep, Request, Rested, Train, FetchFails, Commit, Disconnect, Reconnect, Push, PushEnds,
      Leave, WorkerCrash, servers
<1>2. ASSUME \/ \E p \in Path : Reclaim(p)
             \/ FitStep \/ GiveUp \/ SchedulerCrash
             \/ \E o \in Owner : OwnerStarts(o) \/ \E k \in Key : Replicate(o, k)
      PROVE  UNCHANGED saving
  BY <1>2
  DEF Reclaim, FitStep, CheckpointBegins, OwnerAway, GiveUp, WriteManifest, WriteClock, StopServing,
      SchedulerStarts, GateOpens, SchedulerCrash, OwnerStarts, Replicate, servers
<1>. QED  BY <1>1, <1>2 DEF Next, OwnerStep

LEMMA Snapshots ==
  ASSUME TypeOK, Next, NEW q \in Owner, NEW s \in IOThread, NEW j \in Key
  PROVE  \/ saving'[q][s].state[j] = saving[q][s].state[j]
         \/ saving'[q][s].state[j] = content[q][j]
         \/ saving'[q][s].state[j] = {}
<1>0. NoSave.state[j] = {} /\ saving[q][s] \in SaveState
  BY SavingType DEF NoSave
<1>1. ASSUME NEW o \in Owner, OwnerCrash(o)
      PROVE  saving'[q][s] = saving[q][s] \/ saving'[q][s] = NoSave
  BY <1>1 DEF OwnerCrash, TypeOK, ServerTypes
<1>2. ASSUME NEW o \in Owner, NEW t \in IOThread, StartSave(o, t)
      PROVE  saving'[q][s].state = saving[q][s].state \/ saving'[q][s].state = content[q]
  <2>1. saving' = [u \in Owner |-> [v \in IOThread |->
             IF u = o /\ v = t
             THEN [on |-> TRUE, left |-> Unsaved(o), taken |-> {}, crossed |-> Fellows(o, t) # {},
                   state |-> content[o]]
             ELSE [saving[u][v] EXCEPT !.crossed = @ \/ <<u, v>> \in Fellows(o, t)]]]
    BY <1>2 DEF StartSave
  <2>2. CASE q = o /\ s = t
    BY <2>1, <2>2
  <2>3. CASE ~(q = o /\ s = t)
    <3>1. saving'[q][s] = [saving[q][s] EXCEPT !.crossed = @ \/ <<q, s>> \in Fellows(o, t)]
      BY <2>1, <2>3
    <3>. QED  BY <1>0, <3>1 DEF SaveState
  <2>. QED  BY <2>2, <2>3
<1>3. ASSUME NEW o \in Owner, NEW t \in IOThread, NEW k \in Key, WriteFile(o, t, k)
      PROVE  saving'[q][s].state = saving[q][s].state
  <2>0. PICK open \in SUBSET Fellows(o, t) : \E x : WriteEffect(o, t, k, open, x)
    BY <1>3, WriteFilePuts
  <2>1. saving' = [u \in Owner |-> [v \in IOThread |->
          IF u = o /\ v = t THEN [saving[o][t] EXCEPT !.left = @ \ {k}]
          ELSE [saving[u][v] EXCEPT !.taken = IF <<u, v>> \in open THEN @ \cup {k} ELSE @]]]
    BY <2>0 DEF WriteEffect
  <2>2. CASE q = o /\ s = t
    <3>1. saving'[q][s] = [saving[q][s] EXCEPT !.left = @ \ {k}]
      BY <2>1, <2>2
    <3>. QED  BY <1>0, <3>1 DEF SaveState
  <2>3. CASE ~(q = o /\ s = t)
    <3>1. saving'[q][s] = [saving[q][s] EXCEPT
                              !.taken = IF <<q, s>> \in open THEN @ \cup {k} ELSE @]
      BY <2>1, <2>3
    <3>. QED  BY <1>0, <3>1 DEF SaveState
  <2>. QED  BY <2>2, <2>3
<1>4. ASSUME NEW o \in Owner, NEW t \in IOThread,
             SaveEnds(o, t) \/ \E k \in Key : RenameFails(o, t, k)
      PROVE  saving'[q][s] = saving[q][s] \/ saving'[q][s] = NoSave
  <2>1. saving' = [saving EXCEPT ![o][t] = NoSave]
    BY <1>4 DEF SaveEnds, RenameFails
  <2>. QED  BY <2>1 DEF TypeOK, ServerTypes
<1>. QED  BY <1>0, <1>1, <1>2, <1>3, <1>4, SavingStep DEF SaveStep

\* A call of save_modules moves the checkpoint on at most to the next owner.
LEMMA CkptStays ==
  ASSUME TypeOK, NEW o \in Owner, NEW t \in IOThread, SaveStep(o, t)
  PROVE  ckpt'.at = ckpt.at \/ ckpt'.at = "owners"
<1>1. ckpt' = ckpt \/ ckpt' = [ckpt EXCEPT !.by = t] => ckpt'.at = ckpt.at
  BY DEF TypeOK, CheckpointTypes
<1>2. ASSUME Waited(o, t), NEW h, ckpt' = NextOwner \/ ckpt' = [NextOwner EXCEPT !.held = h]
      PROVE  ckpt'.at = "owners"
  BY <1>2, Waiting DEF Waited, CkptRecord
<1>. QED  BY <1>1, <1>2 DEF SaveStep, StartSave, WriteFile, RenameFails, SaveEnds, checkpoint

\* The clock changes as a commit is accepted, or both clocks become one.
LEMMA ClockStep ==
  ASSUME TypeOK, Next
  PROVE  \/ /\ counted' = saved'.counted
            /\ saved'.counted = saved.counted \/ saved'.counted = counted
         \/ /\ saved' = saved
            /\ ckpt'.at = "none" => ckpt.at = "none"
            /\ counted' = counted \/ \E w \in Worker : Commit(w) /\ Accept(w)
<1>1. ASSUME UNCHANGED <<ckpt, saved>>, counted' = counted \/ \E w \in Worker : Commit(w) /\ Accept(w)
      PROVE  \/ /\ counted' = saved'.counted
                /\ saved'.counted = saved.counted \/ saved'.counted = counted
             \/ /\ saved' = saved
                /\ ckpt'.at = "none" => ckpt.at = "none"
                /\ counted' = counted \/ \E w \in Worker : Commit(w) /\ Accept(w)
  BY <1>1
<1>2. CASE WriteClock
  BY <1>2 DEF WriteClock, Clock, Snapshot, history
<1>3. CASE SchedulerCrash
  BY <1>3 DEF SchedulerCrash
<1>4. CASE CheckpointBegins \/ StopServing
  BY <1>4 DEF CheckpointBegins, StopServing, history, Ask, NoCkpt
<1>5. CASE OwnerAway \/ GiveUp
  <2>1. saved' = saved /\ counted' = counted
    BY <1>5 DEF OwnerAway, GiveUp, history
  <2>2. ckpt'.at = "owners"
    BY <1>5, Waiting DEF OwnerAway, GiveUp
  <2>. QED  BY <2>1, <2>2
<1>6. CASE WriteManifest
  <2>1. ckpt.at = "owners" /\ saved' = saved /\ counted' = counted
    BY <1>6 DEF WriteManifest, history
  <2>2. ckpt'.at = "clock"
    BY <1>6 DEF WriteManifest, TypeOK, CheckpointTypes
  <2>. QED  BY <2>1, <2>2
<1>7. CASE SchedulerStarts \/ GateOpens
  BY <1>7 DEF SchedulerStarts, GateOpens, checkpoint, history
<1>8. CASE \/ \E w \in Worker : WorkerStep(w) \/ Leave(w) \/ WorkerCrash(w)
           \/ \E p \in Path : Reclaim(p)
  <2>1. UNCHANGED <<ckpt, saved>>
    BY ZenonT(40), <1>8
    DEF WorkerStep, Request, Rested, Train, FetchFails, Commit, Disconnect, Reconnect, Push, PushEnds,
        Leave, WorkerCrash, Reclaim, checkpoint
  <2>2. counted' = counted \/ \E w \in Worker : Commit(w) /\ Accept(w)
    BY ZenonT(40), <1>8
    DEF WorkerStep, Request, Rested, Train, FetchFails, Commit, Refuse, Disconnect, Reconnect, Push,
        PushEnds, Leave, WorkerCrash, Reclaim, history
  <2>. QED  BY <1>1, <2>1, <2>2
<1>9. CASE \E o \in Owner : OwnerStep(o) \/ OwnerCrash(o)
  <2>1. saved' = saved /\ counted' = counted
    BY <1>9, SaveFrame DEF OwnerStep, OwnerStarts, Replicate, OwnerCrash, checkpoint, history
  <2>2. ckpt'.at = "none" => ckpt.at = "none"
    <3>1. ASSUME NEW o \in Owner, OwnerStarts(o) \/ \E k \in Key : Replicate(o, k)
          PROVE  ckpt' = ckpt
      BY <3>1 DEF OwnerStarts, Replicate, checkpoint
    <3>2. ASSUME NEW o \in Owner, OwnerCrash(o)
          PROVE  ckpt' = ckpt \/ ckpt'.at = "owners"
      BY <3>2, Waiting DEF OwnerCrash
    <3>3. ASSUME NEW o \in Owner, NEW t \in IOThread, SaveStep(o, t)
          PROVE  ckpt'.at = ckpt.at \/ ckpt'.at = "owners"
      BY <3>3, CkptStays
    <3>. QED  BY <1>9, <3>1, <3>2, <3>3 DEF OwnerStep
  <2>. QED  BY <2>1, <2>2
<1>. QED  BY <1>2, <1>3, <1>4, <1>5, <1>6, <1>7, <1>8, <1>9 DEF Next, FitStep

\* What was granted stays granted.
LEMMA GrantedStep ==
  ASSUME Next
  PROVE  Tokens(granted) \subseteq Tokens(granted')
<1>1. granted \subseteq granted'
  <2>1. ASSUME \E w \in Worker : WorkerStep(w) \/ Leave(w) \/ WorkerCrash(w)
        PROVE  granted \subseteq granted'
    BY ZenonT(40), <2>1
    DEF WorkerStep, Request, Rested, Train, FetchFails, Commit, Accept, Refuse, Disconnect, Reconnect,
        Push, PushEnds, Leave, WorkerCrash, history
  <2>. QED
    BY <2>1, SaveFrame
    DEF Next, Reclaim, FitStep, CheckpointBegins, OwnerAway, GiveUp, WriteManifest, WriteClock,
        StopServing, SchedulerStarts, GateOpens, SchedulerCrash, OwnerStep, OwnerStarts, Replicate,
        OwnerCrash, history
<1>. QED  BY <1>1 DEF Tokens

\* The contents change as a push is applied, or as an owner loses its process,
\* loads its files, or copies a fellow's newer state.
LEMMA ContentStep ==
  ASSUME TypeOK, Next
  PROVE  \/ \E w \in Worker : Push(w)
         \/ \E o \in Owner : OwnerCrash(o) \/ OwnerStarts(o)
         \/ \E o \in Owner, t \in IOThread : SaveStep(o, t)
         \/ /\ UNCHANGED <<up, written>>
            /\ \A o \in Owner, k \in Key :
                 \/ content'[o][k] = content[o][k]
                 \/ \E s \in Owner : content'[o][k] = content[s][k] /\ Ver(s, k) > Ver(o, k)
<1>1. ASSUME NEW o \in Owner, NEW k \in Key, Replicate(o, k)
      PROVE  \A q \in Owner, j \in Key :
               \/ content'[q][j] = content[q][j]
               \/ \E s \in Owner : content'[q][j] = content[s][j] /\ Ver(s, j) > Ver(q, j)
  <2>1. CASE UNCHANGED content
    BY <2>1
  <2>2. ASSUME NEW s \in Range(Replicas[k]),
               content' = [content EXCEPT
                 ![o][k] = IF Ver(s, k) > Ver(o, k) THEN content[s][k] ELSE @]
        PROVE  \A q \in Owner, j \in Key :
                 \/ content'[q][j] = content[q][j]
                 \/ \E r \in Owner : content'[q][j] = content[r][j] /\ Ver(r, j) > Ver(q, j)
    <3>1. s \in Owner
      BY Primaries
    <3>2. \A q \in Owner, j \in Key :
            content'[q][j] = IF q = o /\ j = k /\ Ver(s, k) > Ver(o, k) THEN content[s][k] ELSE content[q][j]
      BY <2>2 DEF TypeOK, ServerTypes
    <3>. QED  BY <3>1, <3>2
  <2>. QED  BY <1>1, <2>1, <2>2 DEF Replicate
<1>2. ASSUME NEW o \in Owner, NEW k \in Key, Replicate(o, k)
      PROVE  UNCHANGED <<up, written>>
  BY <1>2 DEF Replicate
<1>3. ASSUME NEW w \in Worker, WorkerStep(w) \/ Leave(w) \/ WorkerCrash(w)
      PROVE  Push(w) \/ UNCHANGED <<up, content, written>>
  BY <1>3
  DEF WorkerStep, Request, Rested, Train, FetchFails, Commit, Disconnect, Reconnect, PushEnds,
      Leave, WorkerCrash, servers
<1>4. ASSUME (\E p \in Path : Reclaim(p)) \/ FitStep \/ GiveUp \/ SchedulerCrash
      PROVE  UNCHANGED <<up, content, written>>
  BY <1>4
  DEF Reclaim, FitStep, CheckpointBegins, OwnerAway, GiveUp, WriteManifest, WriteClock, StopServing,
      SchedulerStarts, GateOpens, SchedulerCrash, servers
<1>. QED  BY <1>1, <1>2, <1>3, <1>4 DEF Next, OwnerStep

\* What a push does to the contents.
LEMMA PushContent ==
  ASSUME TypeOK, NEW w \in Worker, Push(w)
  PROVE  /\ UNCHANGED <<up, written, granted>>
         /\ \A o \in Owner, k \in Key :
              \/ content'[o][k] = content[o][k]
              \/ content'[o][k] = content[o][k] \cup {worker[w].token}
<1>1. PICK o \in Owner, keys \in SUBSET Key, f \in SUBSET Key : PushEffect(w, o, keys, f)
  BY PushStep
<1>2. ASSUME Absorb(o, Applies(o, keys), worker[w].token)
      PROVE  \A q \in Owner, k \in Key : content'[q][k] =
        IF q = o /\ k \in Applies(o, keys) THEN content[q][k] \cup {worker[w].token} ELSE content[q][k]
  BY <1>2, Absorbs
<1>. QED  BY ZenonT(40), <1>1, <1>2, PushStep DEF PushEffect, history

\* What an owner that starts again has: its file, or the seed.
LEMMA Loaded ==
  ASSUME TypeOK, NEW o \in Owner, OwnerStarts(o)
  PROVE  /\ UNCHANGED <<file, granted, ckpt, manifest>>
         /\ \A q \in Owner \ {o}, k \in Key : /\ up'[q] = up[q] /\ content'[q][k] = content[q][k]
                                              /\ written'[q][k] = written[q][k]
         /\ \A k \in Key :
              LET some == k \in Holds(o) /\ file[Dir[o]][k] \notin {NoFile, Torn}
              IN  /\ content'[o][k] = IF some THEN file[Dir[o]][k] ELSE {}
                  /\ written'[o][k] = IF some THEN Cardinality(file[Dir[o]][k]) ELSE -1
<1>. DEFINE readable(k) == k \in Holds(o) /\ file[Dir[o]][k] \notin {NoFile, Torn}
            loaded(k) == IF readable(k) THEN file[Dir[o]][k] ELSE {}
<1>1. /\ content' = [content EXCEPT ![o] = [k \in Key |-> loaded(k)]]
      /\ up' = [up EXCEPT ![o] = TRUE]
      /\ written' = [written EXCEPT ![o] = [k \in Key |->
           IF readable(k) THEN Cardinality(loaded(k)) ELSE -1]]
      /\ UNCHANGED <<file, granted, ckpt, manifest>>
  BY DEF OwnerStarts, history, checkpoint
<1>2. /\ \A q \in Owner \ {o} : up'[q] = up[q] /\ content'[q] = content[q] /\ written'[q] = written[q]
      /\ content'[o] = [k \in Key |-> loaded(k)]
      /\ written'[o] = [k \in Key |->
           IF readable(k) THEN Cardinality(loaded(k)) ELSE -1]
  BY <1>1 DEF TypeOK, ServerTypes
<1>. QED  BY SMTT(30), <1>1, <1>2

LEMMA NextCounts == TypeOK /\ FenceOK /\ CountsOK /\ [Next]_vars => CountsOK'
<1>1. ASSUME CountsOK, UNCHANGED vars
      PROVE  CountsOK'
  BY <1>1 DEF vars, clock, checkpoint, servers, history, CountsOK, OnlyGranted, Counts
<1>2. ASSUME TypeOK, FenceOK, CountsOK, Next
      PROVE  CountsOK'
  <2>1. Tokens(granted) \subseteq Tokens(granted')
    BY <1>2, GrantedStep
  <2>2. /\ \A o \in Owner, k \in Key : content[o][k] \subseteq Tokens(granted)
        /\ \A d \in Directory, k \in Key :
             file[d][k] \notin {NoFile, Torn} => file[d][k] \subseteq Tokens(granted)
        /\ \A o \in Owner, t \in IOThread, k \in Key :
             saving[o][t].state[k] \subseteq Tokens(granted)
        /\ counted \subseteq Tokens(granted) /\ saved.counted \subseteq Tokens(granted)
    BY <1>2 DEF CountsOK, OnlyGranted
  <2>3. ASSUME NEW o \in Owner, NEW k \in Key
        PROVE  content'[o][k] \subseteq Tokens(granted)
    <3>1. ASSUME NEW w \in Worker, Push(w)
          PROVE  content'[o][k] \subseteq Tokens(granted)
      <4>1. worker[w].token \in Tokens(granted)
        BY <1>2, <3>1, PushStep DEF FenceOK, Fence
      <4>. QED  BY <1>2, <2>2, <3>1, <4>1, PushContent
    <3>2. ASSUME NEW q \in Owner, OwnerCrash(q)
          PROVE  content'[o][k] \subseteq Tokens(granted)
      <4>1. content' = [content EXCEPT ![q] = [j \in Key |-> {}]]
        BY <3>2 DEF OwnerCrash
      <4>2. content'[o][k] = content[o][k] \/ content'[o][k] = {}
        BY <1>2, <4>1 DEF TypeOK, ServerTypes
      <4>. QED  BY <2>2, <4>2
    <3>3. ASSUME NEW q \in Owner, OwnerStarts(q)
          PROVE  content'[o][k] \subseteq Tokens(granted)
      BY <1>2, <2>2, <3>3, Loaded, Constants
    <3>4. ASSUME NEW q \in Owner, NEW t \in IOThread, SaveStep(q, t)
          PROVE  content'[o][k] \subseteq Tokens(granted)
      BY <2>2, <3>4, SaveFrame
    <3>. QED  BY <1>2, <2>2, <3>1, <3>2, <3>3, <3>4, ContentStep
  <2>4. ASSUME NEW d \in Directory, NEW k \in Key, file'[d][k] \notin {NoFile, Torn}
        PROVE  file'[d][k] \subseteq Tokens(granted)
    <3>1. ASSUME NEW o \in Owner, NEW t \in IOThread, NEW j \in Key,
                 WriteFile(o, t, j) \/ RenameFails(o, t, j)
          PROVE  file'[d][k] \subseteq Tokens(granted)
      <4>1. PICK x : /\ Puts(o, t, j, x)
                     /\ \/ x \in {file[Dir[o]][j], Torn}
                        \/ \E q \in Owner, s \in IOThread : x = saving[q][s].state[j]
        <5>1. CASE WriteFile(o, t, j)
          <6>1. PICK open \in SUBSET Fellows(o, t) : \E x : WriteEffect(o, t, j, open, x)
            BY <1>2, <5>1, WriteFilePuts
          <6>2. \A f \in open : f[1] \in Owner /\ f[2] \in IOThread
            BY <6>1 DEF Fellows
          <6>. QED  BY <6>1, <6>2 DEF WriteEffect
        <5>2. CASE RenameFails(o, t, j)
          BY <1>2, <5>2, RenameFailsPuts
        <5>. QED  BY <3>1, <5>1, <5>2
      <4>2. file'[d][k] = IF d = Dir[o] /\ k = j THEN x ELSE file[d][k]
        BY <1>2, <4>1, Written
      <4>. QED  BY <2>2, <2>4, <4>1, <4>2
    <3>. QED  BY <1>2, <2>2, <2>4, <3>1, FileStep
  <2>9. ASSUME NEW o \in Owner, NEW t \in IOThread, NEW k \in Key
        PROVE  saving'[o][t].state[k] \subseteq Tokens(granted)
    BY <1>2, <2>2, Snapshots
  <2>5. ASSUME NEW w \in Worker, Commit(w), Accept(w)
        PROVE  /\ counted' = counted \cup {worker[w].token}
               /\ worker[w].token \notin Tokens(granted) /\ worker[w].token \in Tokens(granted')
               /\ ckpt' = ckpt
    <3>. DEFINE g == [token |-> worker[w].token, gen |-> worker[w].gen,
                      as |-> completed[worker[w].token[1]]]
    <3>1. granted' = granted \cup {g} /\ g.token = worker[w].token
      BY <2>5 DEF Accept
    <3>. HIDE DEF g
    <3>2. worker[w].token \in Tokens(granted')
      BY <3>1 DEF Tokens
    <3>3. Training(w) /\ ckpt' = ckpt
      BY <2>5 DEF Commit, Training, checkpoint
    <3>4. worker[w].token \notin Tokens(granted)
      BY <1>2, <3>3 DEF FenceOK, Fence
    <3>5. counted' = counted \cup {worker[w].token}
      BY <2>5 DEF Accept
    <3>. QED  BY <3>2, <3>3, <3>4, <3>5
  <2>6. counted' \subseteq Tokens(granted') /\ saved'.counted \subseteq Tokens(granted')
    BY <1>2, <2>1, <2>2, <2>5, ClockStep
  <2>7. OnlyGranted'
    BY <2>1, <2>3, <2>4, <2>6, <2>9 DEF OnlyGranted
  <2>8. ASSUME ckpt'.at = "none", NEW d \in Directory \ late', NEW k \in Key,
               file'[d][k] \notin {NoFile, Torn}
        PROVE  file'[d][k] \cap counted' \subseteq saved'.counted
    <3>1. CASE counted' = saved'.counted
      BY <3>1
    <3>2. CASE /\ saved' = saved /\ ckpt.at = "none"
               /\ counted' = counted \/ \E w \in Worker : Commit(w) /\ Accept(w)
      <4>1. d \notin late /\ file'[d][k] = file[d][k]
        <5>1. ASSUME NEW o \in Owner, NEW t \in IOThread, NEW j \in Key,
                     WriteFile(o, t, j) \/ RenameFails(o, t, j)
              PROVE  d \notin late /\ file'[d][k] = file[d][k]
          <6>1. late \subseteq late' /\ Dir[o] \in late'
            BY <1>2, <2>8, <5>1, PutWhen
          <6>2. PICK x : Puts(o, t, j, x)
            BY <1>2, <5>1, WriteFilePuts, RenameFailsPuts DEF WriteEffect
          <6>. QED  BY <1>2, <2>8, <6>1, <6>2, Written
        <5>. QED  BY <1>2, <2>8, <5>1, FileStep
      <4>2. file[d][k] \cap counted \subseteq saved.counted /\ file[d][k] \subseteq Tokens(granted)
        BY <1>2, <2>8, <3>2, <4>1 DEF CountsOK, OnlyGranted, Counts
      <4>3. file[d][k] \cap counted' = file[d][k] \cap counted
        BY <2>5, <3>2, <4>2
      <4>. QED  BY <3>2, <4>1, <4>2, <4>3
    <3>. QED  BY <1>2, <2>8, <3>1, <3>2, ClockStep
  <2>. QED  BY <2>7, <2>8 DEF CountsOK, Counts
<1>. QED  BY <1>1, <1>2

LEMMA CountsImply == CountsOK => CheckpointCounts
BY DEF CountsOK, OnlyGranted, Counts, CheckpointCounts, Tokens

\* Outside a checkpoint the saved clock counts what the files hold, but for the
\* updates that a crash of the scheduler took back (files that owners wrote before
\* it died in mid-checkpoint stay ahead of the clock) and the files written when
\* no scheduler waited: the clock is saved after the owners have written.
THEOREM CheckpointsCount == Spec => []CheckpointCounts
BY TypeCorrect, FenceHolds, InitCounts, NextCounts, CountsImply, PTL DEF Spec

-----------------------------------------------------------------------------
\* The recovery point is on disk.

\* The number of updates in a file, -1 if there is none that can be read.
Size(d, k) == IF file[d][k] \in {NoFile, Torn} THEN -1 ELSE Cardinality(file[d][k])

\* What an owner wrote is in its files, which never hold more than it has.
OnDisk ==
  \A o \in Owner, k \in Key : up[o] /\ k \in Holds(o) \ overtaken =>
    written[o][k] <= Size(Dir[o], k) /\ Size(Dir[o], k) <= Ver(o, k)

\* The snapshot of a call of save_modules is not newer than the modules, and for
\* a key that is not left not newer than the file; a call that had no other
\* beside it finds no newer file than its snapshot.
Copied(o, t) ==
  \A k \in Holds(o) :
    /\ Cardinality(saving[o][t].state[k]) <= Ver(o, k)
    /\ k \notin overtaken =>
         /\ k \notin saving[o][t].left => Cardinality(saving[o][t].state[k]) <= Size(Dir[o], k)
         /\ ~saving[o][t].crossed => Size(Dir[o], k) <= Cardinality(saving[o][t].state[k])

\* Calls that run at the same time know of it.
Crossed(o, t) ==
  /\ \A s \in IOThread \ {t} : saving[o][s].on => saving[o][t].crossed
  /\ saving[o][t].taken # {} => saving[o][t].crossed

Saves == \A o \in Owner, t \in IOThread : saving[o][t].on => up[o] /\ Crossed(o, t) /\ Copied(o, t)

\* Some file has a version at least as new.
Stored(versions) ==
  \A k \in Key \ overtaken : versions[k] <= 0 \/ \E d \in Directory : versions[k] <= Size(d, k)

Recoverable == OnDisk /\ Saves /\ Stored(manifest) /\ Stored(ckpt.held)

LEMMA InitRecoverable == Init => Recoverable
<1> SUFFICES ASSUME Init PROVE Recoverable
  OBVIOUS
<1>1. \A d \in Directory, k \in Key : Size(d, k) = -1
  BY DEF Init, Size
<1>2. \A o \in Owner, k \in Key : Ver(o, k) = 0 /\ written[o][k] = -1
  BY FS_EmptySet DEF Init, Ver, NoVersions
<1>3. Stored(manifest) /\ Stored(ckpt.held)
  BY DEF Init, Stored, NoVersions, NoCkpt
<1>4. Saves
  BY DEF Init, Saves, NoSave
<1>. QED  BY <1>1, <1>2, <1>3, <1>4, Constants DEF Recoverable, OnDisk

\* Sizes are those of finite sets of tokens.
LEMMA Sizes ==
  ASSUME TypeOK
  PROVE  /\ \A d \in Directory, k \in Key : Size(d, k) \in Int /\ Size(d, k) >= -1
         /\ \A o \in Owner, k \in Key : content[o][k] \in SUBSET Token
  BY FiniteTokens, Constants DEF TypeOK, ServerTypes, Size

\* A larger set of tokens is a newer version.
LEMMA Larger ==
  ASSUME NEW S \in SUBSET Token, NEW R \in SUBSET S
  PROVE  Cardinality(R) <= Cardinality(S)
BY FiniteTokens, FS_Subset

\* What is put in the place of a file: nothing older than the file, or than the
\* snapshot it is a copy of, unless the key is overtaken; and nothing newer than
\* the module.
LEMMA PutSize ==
  ASSUME TypeOK, OnDisk, Saves, IsInjective(Dir), NEW o \in Owner, NEW t \in IOThread, NEW k \in Key,
         WriteFile(o, t, k) \/ RenameFails(o, t, k)
  PROVE  /\ overtaken \subseteq overtaken' /\ overtaken' \subseteq overtaken \cup {k}
         /\ saving[o][t].on /\ k \in Holds(o)
         /\ \A d \in Directory, j \in Key : d # Dir[o] \/ j # k => file'[d][j] = file[d][j]
         /\ k \notin overtaken' =>
              /\ Size(Dir[o], k) <= Size(Dir[o], k)'
              /\ Size(Dir[o], k)' <= Ver(o, k)
              /\ WriteFile(o, t, k) => Cardinality(saving[o][t].state[k]) <= Size(Dir[o], k)'
              /\ ~saving[o][t].crossed => Size(Dir[o], k)' = Cardinality(saving[o][t].state[k])
<1>. DEFINE own == saving[o][t].state[k]
            old == file[Dir[o]][k]
<1>1. k \in saving[o][t].left /\ saving[o][t].on /\ k \in Holds(o) /\ Dir[o] \in Directory
  BY SavingType, Constants DEF WriteFile, RenameFails
<1>2. up[o] /\ Crossed(o, t) /\ Copied(o, t)
  BY <1>1 DEF Saves
\* Only the owner's own threads write to its directory.
<1>3. ASSUME NEW f \in Fellows(o, t)
      PROVE  /\ f[1] = o /\ f[2] \in IOThread /\ saving[o][t].crossed
             /\ saving[f[1]][f[2]].state[k] \in SUBSET Token
             /\ Cardinality(saving[f[1]][f[2]].state[k]) <= Ver(o, k)
  <2>1. f \in Owner \X IOThread /\ f # <<o, t>> /\ Dir[f[1]] = Dir[o] /\ saving[f[1]][f[2]].on
    BY DEF Fellows
  <2>2. f[1] = o
    BY <2>1, Constants DEF IsInjective
  <2>3. f[2] \in IOThread \ {t}
    BY <2>1, <2>2
  <2>4. saving[o][t].crossed
    BY <1>2, <2>1, <2>2, <2>3 DEF Crossed
  <2>5. Copied(o, f[2])
    BY <2>1, <2>2, <2>3 DEF Saves
  <2>. QED  BY <1>1, <2>1, <2>2, <2>3, <2>4, <2>5, SavingType DEF Copied
<1>4. PICK x :
        /\ Puts(o, t, k, x)
        /\ x \in (SUBSET Token) \cup {NoFile, Torn}
        /\ x = NoFile => old = NoFile /\ ~WriteFile(o, t, k)
        /\ ~saving[o][t].crossed => x = own
        /\ \/ x = Torn \/ x = old
           \/ Cardinality(x) <= Ver(o, k)
  <2>0. own \in SUBSET Token /\ Cardinality(own) <= Ver(o, k)
    BY <1>1, <1>2, SavingType DEF Copied
  <2>1. CASE WriteFile(o, t, k)
    <3>1. PICK open \in SUBSET Fellows(o, t) : \E x : WriteEffect(o, t, k, open, x)
      BY <2>1, WriteFilePuts
    <3>2. PICK x : WriteEffect(o, t, k, open, x)
      BY <3>1
    <3>3. x # NoFile
      BY <3>2, Constants DEF WriteEffect
    <3>4. open # {} => saving[o][t].crossed
      BY <1>3
    <3>5. \A f \in open : Cardinality(saving[f[1]][f[2]].state[k]) <= Ver(o, k)
      BY <1>3
    <3>. QED  BY <2>0, <3>2, <3>3, <3>4, <3>5 DEF WriteEffect
  <2>2. CASE RenameFails(o, t, k) /\ ~WriteFile(o, t, k)
    <3>1. saving[o][t].crossed
      BY <1>2, <2>2 DEF RenameFails, Crossed
    <3>2. PICK x : Puts(o, t, k, x) /\ x \in {old, own, Torn}
      BY <2>2, RenameFailsPuts
    <3>3. old \in (SUBSET Token) \cup {NoFile, Torn}
      BY <1>1 DEF TypeOK, ServerTypes
    <3>. QED  BY <2>0, <2>2, <3>1, <3>2, <3>3, Constants
  <2>. QED  BY <2>1, <2>2
<1>5. \A d \in Directory, j \in Key : file'[d][j] = IF d = Dir[o] /\ j = k THEN x ELSE file[d][j]
  BY <1>4, Written
<1>6. overtaken' = IF saving[o][t].crossed /\ (Older(x, own) \/ Older(x, old))
                   THEN overtaken \cup {k} ELSE overtaken
  BY <1>4 DEF Puts
<1>7. ASSUME k \notin overtaken'
      PROVE  /\ Size(Dir[o], k) <= Size(Dir[o], k)'
             /\ Size(Dir[o], k)' <= Ver(o, k)
             /\ WriteFile(o, t, k) => Cardinality(own) <= Size(Dir[o], k)'
             /\ ~saving[o][t].crossed => Size(Dir[o], k)' = Cardinality(own)
  <2>1. /\ own \in SUBSET Token /\ own \notin {NoFile, Torn} /\ Cardinality(own) \in Nat
        /\ Ver(o, k) \in Nat /\ Size(Dir[o], k) \in Int /\ Size(Dir[o], k) >= -1
    <3>1. own \in SUBSET Token /\ Cardinality(own) \in Nat
      BY SavingType
    <3>2. own \notin {NoFile, Torn}
      BY <3>1, Constants
    <3>. QED  BY <1>1, <3>1, <3>2, Sizes, Versions
  <2>2. k \notin overtaken
    BY <1>6, <1>7
  <2>3. Size(Dir[o], k) <= Ver(o, k)
    BY <1>1, <1>2, <2>2 DEF OnDisk
  <2>4. Size(Dir[o], k)' = IF x \in {NoFile, Torn} THEN -1 ELSE Cardinality(x)
    BY <1>1, <1>5 DEF Size
  <2>5. x \notin {NoFile, Torn} => Cardinality(x) \in Nat
    BY <1>4, FiniteTokens
  <2>6. CASE ~saving[o][t].crossed
    <3>1. x = own
      BY <1>4, <2>6
    <3>2. Size(Dir[o], k) <= Cardinality(own)
      BY <1>1, <1>2, <2>2, <2>6 DEF Copied
    <3>3. Cardinality(own) <= Ver(o, k)
      BY <1>1, <1>2 DEF Copied
    <3>. QED  BY <2>1, <2>4, <3>1, <3>2, <3>3
  <2>7. CASE saving[o][t].crossed
    <3>1. ~Older(x, own) /\ ~Older(x, old)
      BY <1>6, <1>7, <2>7
    <3>2. x # Torn
      BY <3>1 DEF Older
    <3>3. CASE x = NoFile
      BY <1>4, <2>1, <2>3, <2>4, <2>7, <3>3 DEF Size
    <3>4. CASE x # NoFile
      <4>1. Cardinality(x) \in Nat /\ Size(Dir[o], k)' = Cardinality(x)
        BY <2>4, <2>5, <3>2, <3>4
      <4>2. ~(Cardinality(x) < Cardinality(own))
        BY <2>1, <3>1, <3>4 DEF Older
      <4>3. old \notin {NoFile, Torn} => ~(Cardinality(x) < Cardinality(old))
        BY <3>1, <3>4 DEF Older
      <4>4. Size(Dir[o], k) <= Cardinality(x)
        <5>1. CASE old \in {NoFile, Torn}
          BY <4>1, <5>1 DEF Size
        <5>2. CASE old \notin {NoFile, Torn}
          BY <2>1, <4>1, <4>3, <5>2 DEF Size
        <5>. QED  BY <5>1, <5>2
      <4>5. Cardinality(x) <= Ver(o, k)
        <5>1. CASE x = old
          <6>1. Size(Dir[o], k) = Cardinality(x)
            BY <3>2, <3>4, <5>1 DEF Size
          <6>. QED  BY <2>3, <6>1
        <5>2. CASE x # old
          BY <1>4, <3>2, <5>2
        <5>. QED  BY <5>1, <5>2
      <4>. QED  BY <2>1, <2>7, <4>1, <4>2, <4>4, <4>5
    <3>. QED  BY <3>3, <3>4
  <2>. QED  BY <2>6, <2>7
<1>. QED  BY <1>1, <1>5, <1>6, <1>7

\* No file is ever replaced by an older one, but of a key that is overtaken.
LEMMA SizesGrow ==
  ASSUME TypeOK, Recoverable, IsInjective(Dir), Next
  PROVE  /\ overtaken \subseteq overtaken'
         /\ \A d \in Directory, k \in Key \ overtaken' : Size(d, k) <= Size(d, k)'
<1>1. CASE UNCHANGED <<file, late, overtaken>>
  BY <1>1, Sizes DEF Size
<1>2. ASSUME NEW o \in Owner, NEW t \in IOThread, NEW j \in Key, WriteFile(o, t, j) \/ RenameFails(o, t, j)
      PROVE  /\ overtaken \subseteq overtaken'
             /\ \A d \in Directory, k \in Key \ overtaken' : Size(d, k) <= Size(d, k)'
  <2>1. ASSUME NEW d \in Directory, NEW k \in Key \ overtaken'
        PROVE  Size(d, k) <= Size(d, k)'
    <3>1. CASE d = Dir[o] /\ k = j
      BY <1>2, <3>1, PutSize DEF Recoverable
    <3>2. CASE d # Dir[o] \/ k # j
      <4>1. file'[d][k] = file[d][k]
        BY <1>2, <3>2, PutSize DEF Recoverable
      <4>. QED  BY <4>1, Sizes DEF Size
    <3>. QED  BY <3>1, <3>2
  <2>. QED  BY <1>2, <2>1, PutSize DEF Recoverable
<1>. QED  BY <1>1, <1>2, FileStep

\* Steps that leave the owners' calls and files alone, while versions grow.
LEMMA VersionsGrow ==
  ASSUME TypeOK, TypeOK', OnDisk, Saves, UNCHANGED <<up, written, file, saving, overtaken>>,
         \A o \in Owner, k \in Key : Ver(o, k) <= Ver(o, k)'
  PROVE  OnDisk' /\ Saves'
<1>1. \A d \in Directory, k \in Key : Size(d, k)' = Size(d, k) /\ Size(d, k) \in Int
  BY Sizes DEF Size
<1>2. \A o \in Owner, k \in Key : Ver(o, k) \in Nat /\ Ver(o, k)' \in Nat /\ written[o][k] \in Int
  <2>1. \A o \in Owner, k \in Key : Ver(o, k)' \in Nat
    BY FiniteTokens DEF TypeOK, ServerTypes, Ver
  <2>. QED  BY <2>1, Versions DEF TypeOK, ServerTypes, Version
<1>3. OnDisk'
  BY <1>1, <1>2, Constants DEF OnDisk
<1>4. ASSUME NEW o \in Owner, NEW t \in IOThread, saving'[o][t].on
      PROVE  up'[o] /\ Crossed(o, t)' /\ Copied(o, t)'
  <2>1. up[o] /\ Crossed(o, t) /\ Copied(o, t)
    BY <1>4 DEF Saves
  <2>2. Crossed(o, t)'
    BY <2>1 DEF Crossed
  <2>3. Copied(o, t)'
    <3>1. \A k \in Holds(o) : k \in Key /\ Cardinality(saving[o][t].state[k]) \in Nat
      BY SavingType DEF Holds
    <3>2. saving' = saving /\ overtaken' = overtaken
      OBVIOUS
    <3>3. \A k \in Holds(o) : Cardinality(saving[o][t].state[k]) <= Ver(o, k)'
      BY <1>2, <2>1, <3>1 DEF Copied
    <3>4. \A k \in Holds(o) : Size(Dir[o], k)' = Size(Dir[o], k)
      BY <1>1, <3>1, Constants
    <3>. QED  BY <2>1, <3>2, <3>3, <3>4 DEF Copied
  <2>. QED  BY <2>1, <2>2, <2>3
<1>. QED  BY <1>3, <1>4 DEF Saves

\* A call begins: it finds what was written on disk.
LEMMA StartSaveStep ==
  ASSUME TypeOK, OnDisk, Saves, NEW o \in Owner, NEW t \in IOThread, StartSave(o, t)
  PROVE  OnDisk' /\ Saves'
<1>1. /\ up[o] /\ ~saving[o][t].on
      /\ saving' = [q \in Owner |-> [s \in IOThread |->
           IF q = o /\ s = t
           THEN [on |-> TRUE, left |-> Unsaved(o), taken |-> {}, crossed |-> Fellows(o, t) # {},
                 state |-> content[o]]
           ELSE [saving[q][s] EXCEPT !.crossed = @ \/ <<q, s>> \in Fellows(o, t)]]]
      /\ UNCHANGED <<up, content, written, file, overtaken>>
  BY DEF StartSave, history
<1>2. /\ \A d \in Directory, k \in Key : Size(d, k)' = Size(d, k) /\ Size(d, k) \in Int
      /\ \A q \in Owner, k \in Key : Ver(q, k)' = Ver(q, k) /\ Ver(q, k) \in Nat
  BY <1>1, Sizes, Versions DEF Size, Ver
<1>3. OnDisk'
  BY <1>1, <1>2, Constants DEF OnDisk
<1>4. ASSUME NEW q \in Owner, NEW s \in IOThread, ~(q = o /\ s = t)
      PROVE  /\ saving'[q][s].on = saving[q][s].on /\ saving'[q][s].left = saving[q][s].left
             /\ saving'[q][s].taken = saving[q][s].taken /\ saving'[q][s].state = saving[q][s].state
             /\ saving'[q][s].crossed = (saving[q][s].crossed \/ <<q, s>> \in Fellows(o, t))
  <2>1. saving'[q][s] = [saving[q][s] EXCEPT !.crossed = @ \/ <<q, s>> \in Fellows(o, t)]
    BY <1>1, <1>4
  <2>. QED  BY <2>1, SavingType DEF SaveState
<1>5. /\ saving'[o][t].on /\ saving'[o][t].left = Unsaved(o) /\ saving'[o][t].taken = {}
      /\ saving'[o][t].state = content[o] /\ saving'[o][t].crossed = (Fellows(o, t) # {})
  BY <1>1
<1>6. \A s \in IOThread \ {t} : saving[o][s].on => <<o, s>> \in Fellows(o, t)
  BY DEF Fellows
<1>7. ASSUME NEW q \in Owner, NEW s \in IOThread, saving'[q][s].on
      PROVE  up'[q] /\ Crossed(q, s)' /\ Copied(q, s)'
  <2>0. \A k \in Holds(q) : /\ k \in Key /\ Size(Dir[q], k)' = Size(Dir[q], k) /\ Ver(q, k)' = Ver(q, k)
                            /\ Size(Dir[q], k) \in Int /\ Ver(q, k) \in Nat
    BY <1>2, Constants DEF Holds
  <2>1. CASE q = o /\ s = t
    <3>1. Crossed(o, t)'
      BY <1>4, <1>5, <1>6 DEF Crossed
    <3>2. \A k \in Holds(o) : Cardinality(content[o][k]) = Ver(o, k)
      BY DEF Ver
    <3>3. \A k \in Holds(o) \ overtaken : written[o][k] <= Size(Dir[o], k) /\ Size(Dir[o], k) <= Ver(o, k)
      BY <1>1, <2>0, <2>1 DEF OnDisk
    <3>4. \A k \in Holds(o) : k \notin Unsaved(o) => written[o][k] = Ver(o, k)
      BY DEF Unsaved
    <3>5. \A k \in Holds(o) : Cardinality(saving'[o][t].state[k]) = Ver(o, k)
      BY <1>5, <3>2
    <3>6. Copied(o, t)'
      BY <1>1, <1>5, <2>0, <2>1, <3>3, <3>4, <3>5 DEF Copied
    <3>. QED  BY <1>1, <2>1, <3>1, <3>6
  <2>2. CASE ~(q = o /\ s = t)
    <3>1. up[q] /\ Crossed(q, s) /\ Copied(q, s)
      BY <1>4, <1>7, <2>2 DEF Saves
    <3>2. Crossed(q, s)'
      <4>1. \A r \in IOThread \ {s} : saving'[q][r].on => saving'[q][s].crossed
        <5>1. ASSUME NEW r \in IOThread \ {s}, saving'[q][r].on
              PROVE  saving'[q][s].crossed
          <6>1. CASE q = o /\ r = t
            BY <1>4, <1>6, <1>7, <2>2, <5>1, <6>1
          <6>2. CASE ~(q = o /\ r = t)
            BY <1>4, <2>2, <3>1, <5>1, <6>2 DEF Crossed
          <6>. QED  BY <6>1, <6>2
        <5>. QED  BY <5>1
      <4>. QED  BY <1>4, <2>2, <3>1, <4>1 DEF Crossed
    <3>3. Copied(q, s)'
      <4>1. /\ saving'[q][s].left = saving[q][s].left /\ saving'[q][s].state = saving[q][s].state
            /\ ~saving'[q][s].crossed => ~saving[q][s].crossed
        BY <1>4, <2>2
      <4>. QED  BY <1>1, <2>0, <3>1, <4>1 DEF Copied
    <3>. QED  BY <1>1, <3>1, <3>2, <3>3
  <2>. QED  BY <2>1, <2>2
<1>. QED  BY <1>3, <1>7 DEF Saves

\* A file is put in place.
LEMMA PutStep ==
  ASSUME TypeOK, TypeOK', OnDisk, Saves, IsInjective(Dir), NEW o \in Owner, NEW t \in IOThread,
         NEW k \in Key, WriteFile(o, t, k) \/ RenameFails(o, t, k)
  PROVE  OnDisk' /\ Saves'
<1>1. /\ UNCHANGED <<up, content>>
      /\ \A q \in Owner, j \in Key : Ver(q, j)' = Ver(q, j) /\ Ver(q, j) \in Nat
  BY Versions DEF WriteFile, RenameFails, Ver
<1>2. /\ overtaken \subseteq overtaken' /\ overtaken' \subseteq overtaken \cup {k}
      /\ saving[o][t].on /\ k \in Holds(o)
      /\ \A d \in Directory, j \in Key : d # Dir[o] \/ j # k => file'[d][j] = file[d][j]
  BY PutSize
<1>3. ASSUME k \notin overtaken'
      PROVE  /\ Size(Dir[o], k) <= Size(Dir[o], k)'
             /\ Size(Dir[o], k)' <= Ver(o, k)
             /\ WriteFile(o, t, k) => Cardinality(saving[o][t].state[k]) <= Size(Dir[o], k)'
             /\ ~saving[o][t].crossed => Size(Dir[o], k)' = Cardinality(saving[o][t].state[k])
  BY <1>3, PutSize
<1>4. \A q \in Owner, j \in Key : /\ Size(Dir[q], j) \in Int /\ Size(Dir[q], j)' \in Int
                                  /\ ~(q = o /\ j = k) => Size(Dir[q], j)' = Size(Dir[q], j)
  <2>1. \A q \in Owner : Dir[q] \in Directory /\ (q # o => Dir[q] # Dir[o])
    BY Constants DEF IsInjective
  <2>2. \A q \in Owner, j \in Key : ~(q = o /\ j = k) => file'[Dir[q]][j] = file[Dir[q]][j]
    BY <1>2, <2>1
  <2>3. \A S \in SUBSET Token : Cardinality(S) \in Int
    BY FiniteTokens
  <2>4. \A q \in Owner, j \in Key : Size(Dir[q], j)' \in Int
    BY <2>1, <2>3 DEF TypeOK, ServerTypes, Size
  <2>. QED  BY <2>1, <2>2, <2>4, Sizes DEF Size
<1>5. \A q \in Owner, j \in Key :
        written'[q][j] = IF q = o /\ j = k /\ written' # written
                         THEN Cardinality(saving[o][t].state[k]) ELSE written[q][j]
  BY DEF WriteFile, RenameFails, TypeOK, ServerTypes
<1>6. OnDisk'
  <2> SUFFICES ASSUME NEW q \in Owner, NEW j \in Key, up'[q], j \in Holds(q) \ overtaken'
               PROVE  written'[q][j] <= Size(Dir[q], j)' /\ Size(Dir[q], j)' <= Ver(q, j)'
    BY DEF OnDisk
  <2>1. /\ written[q][j] <= Size(Dir[q], j) /\ Size(Dir[q], j) <= Ver(q, j)
        /\ written[q][j] \in Int
    BY <1>1, <1>2 DEF OnDisk, TypeOK, ServerTypes, Version
  <2>2. CASE ~(q = o /\ j = k)
    BY <1>1, <1>4, <1>5, <2>1, <2>2
  <2>3. CASE q = o /\ j = k
    <3>1. written'[o][k] <= Size(Dir[o], k)'
      <4>1. CASE WriteFile(o, t, k)
        <5>1. written'[o][k] = Cardinality(saving[o][t].state[k])
          BY <4>1 DEF WriteFile, TypeOK, ServerTypes
        <5>. QED  BY <1>3, <2>3, <4>1, <5>1
      <4>2. CASE RenameFails(o, t, k)
        <5>1. written'[o][k] = written[o][k]
          BY <4>2 DEF RenameFails
        <5>. QED  BY <1>3, <1>4, <2>1, <2>3, <5>1
      <4>. QED  BY <4>1, <4>2
    <3>. QED  BY <1>1, <1>3, <2>3, <3>1
  <2>. QED  BY <2>2, <2>3
\* What the calls become.
<1>7. ASSUME NEW q \in Owner, NEW s \in IOThread
      PROVE  /\ saving'[q][s].on => saving[q][s].on
             /\ saving'[q][s].on =>
                  /\ saving'[q][s].state = saving[q][s].state
                  /\ saving'[q][s].crossed = saving[q][s].crossed
                  /\ \/ saving'[q][s].left = saving[q][s].left
                     \/ q = o /\ s = t /\ saving'[q][s].left = saving[q][s].left \ {k} /\ WriteFile(o, t, k)
                  /\ saving'[q][s].taken = saving[q][s].taken \/ <<q, s>> \in Fellows(o, t)
  <2>0. saving[q][s] \in SaveState
    BY SavingType
  <2>1. CASE WriteFile(o, t, k)
    <3>0. PICK open \in SUBSET Fellows(o, t) : \E x : WriteEffect(o, t, k, open, x)
      BY <2>1, WriteFilePuts
    <3>1. saving' = [u \in Owner |-> [v \in IOThread |->
            IF u = o /\ v = t THEN [saving[o][t] EXCEPT !.left = @ \ {k}]
            ELSE [saving[u][v] EXCEPT !.taken = IF <<u, v>> \in open THEN @ \cup {k} ELSE @]]]
      BY <3>0 DEF WriteEffect
    <3>2. CASE q = o /\ s = t
      <4>1. saving'[q][s] = [saving[q][s] EXCEPT !.left = @ \ {k}]
        BY <3>1, <3>2
      <4>. QED  BY <2>0, <2>1, <3>2, <4>1 DEF SaveState
    <3>3. CASE ~(q = o /\ s = t)
      <4>1. saving'[q][s] = [saving[q][s] EXCEPT
                                !.taken = IF <<q, s>> \in open THEN @ \cup {k} ELSE @]
        BY <3>1, <3>3
      <4>. QED  BY <2>0, <4>1 DEF SaveState
    <3>. QED  BY <3>2, <3>3
  <2>2. CASE RenameFails(o, t, k)
    <3>1. saving' = [saving EXCEPT ![o][t] = NoSave]
      BY <2>2 DEF RenameFails
    <3>2. saving'[q][s] = saving[q][s] \/ saving'[q][s] = NoSave
      BY <3>1 DEF TypeOK, ServerTypes
    <3>. QED  BY <3>2 DEF NoSave
  <2>. QED  BY <2>1, <2>2
<1>8. ASSUME NEW q \in Owner, NEW s \in IOThread, saving'[q][s].on
      PROVE  up'[q] /\ Crossed(q, s)' /\ Copied(q, s)'
  <2>1. saving[q][s].on /\ up[q] /\ Crossed(q, s) /\ Copied(q, s)
    BY <1>7, <1>8 DEF Saves
  <2>2. <<q, s>> \in Fellows(o, t) => saving[q][s].crossed
    <3>1. ASSUME <<q, s>> \in Fellows(o, t)
          PROVE  saving[q][s].crossed
      <4>1. <<q, s>> # <<o, t>> /\ Dir[q] = Dir[o]
        BY <3>1 DEF Fellows
      <4>2. q = o /\ s # t
        BY <4>1, Constants DEF IsInjective
      <4>. QED  BY <1>2, <2>1, <4>2 DEF Crossed
    <3>. QED  BY <3>1
  <2>3. Crossed(q, s)'
    BY <1>7, <1>8, <2>1, <2>2 DEF Crossed
  <2>4. Copied(q, s)'
    <3> SUFFICES ASSUME NEW j \in Holds(q)
                 PROVE  /\ Cardinality(saving'[q][s].state[j]) <= Ver(q, j)'
                        /\ j \notin overtaken' =>
                             /\ j \notin saving'[q][s].left =>
                                  Cardinality(saving'[q][s].state[j]) <= Size(Dir[q], j)'
                             /\ ~saving'[q][s].crossed =>
                                  Size(Dir[q], j)' <= Cardinality(saving'[q][s].state[j])
      BY DEF Copied
    <3>1. j \in Key /\ Cardinality(saving[q][s].state[j]) \in Nat
      BY SavingType DEF Holds
    <3>2. /\ Cardinality(saving[q][s].state[j]) <= Ver(q, j)
          /\ j \notin overtaken =>
               /\ j \notin saving[q][s].left => Cardinality(saving[q][s].state[j]) <= Size(Dir[q], j)
               /\ ~saving[q][s].crossed => Size(Dir[q], j) <= Cardinality(saving[q][s].state[j])
      BY <2>1 DEF Copied
    <3>3. saving'[q][s].state = saving[q][s].state /\ saving'[q][s].crossed = saving[q][s].crossed
      BY <1>7, <1>8
    <3>4. CASE ~(q = o /\ j = k)
      <4>1. Size(Dir[q], j)' = Size(Dir[q], j)
        BY <1>4, <3>1, <3>4
      <4>2. j \notin saving'[q][s].left => j \notin saving[q][s].left
        BY <1>7, <1>8, <3>4
      <4>. QED  BY <1>1, <1>2, <3>1, <3>2, <3>3, <4>1, <4>2
    <3>5. CASE q = o /\ j = k
      <4>1. CASE s = t
        <5>1. WriteFile(o, t, k) \/ saving'[o][t].left = saving[o][t].left
          BY <1>7, <1>8, <3>5, <4>1
        <5>2. k \in saving[o][t].left
          BY DEF WriteFile, RenameFails
        <5>. QED  BY <1>1, <1>3, <1>4, <3>1, <3>2, <3>3, <3>5, <4>1, <5>1, <5>2
      <4>2. CASE s # t
        <5>1. saving[q][s].crossed
          BY <1>2, <2>1, <3>5, <4>2 DEF Crossed
        <5>2. saving'[q][s].left = saving[q][s].left
          BY <1>7, <1>8, <4>2
        <5>. QED  BY <1>1, <1>2, <1>3, <1>4, <3>1, <3>2, <3>3, <3>5, <5>1, <5>2
      <4>. QED  BY <4>1, <4>2
    <3>. QED  BY <3>4, <3>5
  <2>. QED  BY <1>1, <2>1, <2>3, <2>4
<1>. QED  BY <1>6, <1>8 DEF Saves

\* A call ends, or its process does.
LEMMA EndStep ==
  ASSUME TypeOK, TypeOK', OnDisk, Saves, NEW o \in Owner,
         (\E t \in IOThread : SaveEnds(o, t)) \/ OwnerCrash(o)
  PROVE  OnDisk' /\ Saves'
<1>1. /\ file' = file /\ overtaken' = overtaken
      /\ \A q \in Owner : up'[q] => /\ up[q] /\ content'[q] = content[q] /\ written'[q] = written[q]
  BY DEF SaveEnds, OwnerCrash, history, TypeOK, ServerTypes
<1>2. \A q \in Owner, s \in IOThread :
        saving'[q][s] = saving[q][s] \/ saving'[q][s] = NoSave
  <2>1. ASSUME NEW t \in IOThread, SaveEnds(o, t), NEW q \in Owner, NEW s \in IOThread
        PROVE  saving'[q][s] = saving[q][s] \/ saving'[q][s] = NoSave
    <3>1. saving' = [saving EXCEPT ![o][t] = NoSave]
      BY <2>1 DEF SaveEnds
    <3>. QED  BY <3>1 DEF TypeOK, ServerTypes
  <2>2. ASSUME OwnerCrash(o), NEW q \in Owner, NEW s \in IOThread
        PROVE  saving'[q][s] = saving[q][s] \/ saving'[q][s] = NoSave
    <3>1. saving' = [saving EXCEPT ![o] = [t \in IOThread |-> NoSave]]
      BY <2>2 DEF OwnerCrash
    <3>. QED  BY <3>1 DEF TypeOK, ServerTypes
  <2>. QED  BY <2>1, <2>2
<1>3. /\ \A d \in Directory, k \in Key : Size(d, k)' = Size(d, k)
      /\ \A q \in Owner, k \in Key : up'[q] => Ver(q, k)' = Ver(q, k)
  BY <1>1 DEF Size, Ver
<1>4. OnDisk'
  BY <1>1, <1>3, Constants DEF OnDisk
<1>5. ASSUME NEW q \in Owner, NEW s \in IOThread, saving'[q][s].on
      PROVE  up'[q] /\ Crossed(q, s)' /\ Copied(q, s)'
  <2>1. saving'[q][s] = saving[q][s]
    BY <1>2, <1>5 DEF NoSave
  <2>2. up[q] /\ Crossed(q, s) /\ Copied(q, s)
    BY <1>5, <2>1 DEF Saves
  <2>3. up'[q]
    <3>1. CASE OwnerCrash(o)
      <4>1. q = o => saving'[q][s] = NoSave
        BY <3>1 DEF OwnerCrash, TypeOK, ServerTypes
      <4>2. q # o
        BY <1>5, <4>1 DEF NoSave
      <4>. QED  BY <2>2, <3>1, <4>2 DEF OwnerCrash, TypeOK, ServerTypes
    <3>2. CASE \E t \in IOThread : SaveEnds(o, t)
      BY <2>2, <3>2 DEF SaveEnds
    <3>. QED  BY <3>1, <3>2
  <2>4. Crossed(q, s)'
    <3>1. \A r \in IOThread : saving'[q][r].on => saving[q][r].on
      BY <1>2 DEF NoSave
    <3>. QED  BY <2>1, <2>2, <3>1 DEF Crossed
  <2>5. Copied(q, s)'
    <3>1. \A k \in Holds(q) : /\ Size(Dir[q], k)' = Size(Dir[q], k)
                              /\ Ver(q, k)' = Ver(q, k)
      BY <1>3, <2>3, Constants DEF Holds
    <3>. QED  BY <1>1, <2>1, <2>2, <3>1 DEF Copied
  <2>. QED  BY <2>3, <2>4, <2>5
<1>. QED  BY <1>4, <1>5 DEF Saves

\* A process starts again: with its files, and no call.
LEMMA StartsStep ==
  ASSUME TypeOK, TypeOK', OnDisk, Saves, NEW o \in Owner, OwnerStarts(o)
  PROVE  OnDisk' /\ Saves'
<1>0. /\ file' = file /\ overtaken' = overtaken /\ saving' = saving /\ ~up[o]
      /\ \A q \in Owner \ {o} : up'[q] = up[q]
  BY DEF OwnerStarts, history, TypeOK, ServerTypes
<1>1. \A q \in Owner, k \in Key : Size(Dir[q], k)' = Size(Dir[q], k) /\ Size(Dir[q], k) \in Int
  BY <1>0, Sizes, Constants DEF Size
<1>2. OnDisk'
  <2> SUFFICES ASSUME NEW q \in Owner, NEW k \in Key, up'[q], k \in Holds(q) \ overtaken'
               PROVE  written'[q][k] <= Size(Dir[q], k)' /\ Size(Dir[q], k)' <= Ver(q, k)'
    BY DEF OnDisk
  <2>1. CASE q # o
    <3>1. up[q] /\ written'[q][k] = written[q][k] /\ Ver(q, k)' = Ver(q, k)
      BY <1>0, <2>1, Loaded DEF Ver
    <3>. QED  BY <1>0, <1>1, <3>1 DEF OnDisk
  <2>2. CASE q = o
    <3>1. CASE file[Dir[o]][k] \notin {NoFile, Torn}
      <4>1. /\ content'[o][k] = file[Dir[o]][k]
            /\ written'[o][k] = Cardinality(file[Dir[o]][k])
        BY <2>2, <3>1, Loaded
      <4>2. Ver(o, k)' = Size(Dir[o], k) /\ written'[o][k] = Size(Dir[o], k)
        BY <3>1, <4>1 DEF Ver, Size
      <4>. QED  BY <1>1, <2>2, <4>2
    <3>2. CASE file[Dir[o]][k] \in {NoFile, Torn}
      <4>1. written'[o][k] = -1 /\ Size(Dir[o], k) = -1
        BY <3>2, Loaded DEF Size
      <4>2. Ver(o, k)' \in Nat
        BY FiniteTokens DEF TypeOK, ServerTypes, Ver
      <4>. QED  BY <1>1, <2>2, <4>1, <4>2
    <3>. QED  BY <3>1, <3>2
  <2>. QED  BY <2>1, <2>2
<1>3. ASSUME NEW q \in Owner, NEW s \in IOThread, saving'[q][s].on
      PROVE  up'[q] /\ Crossed(q, s)' /\ Copied(q, s)'
  <2>1. up[q] /\ Crossed(q, s) /\ Copied(q, s) /\ q # o
    BY <1>0, <1>3 DEF Saves
  <2>2. \A k \in Holds(q) : /\ Size(Dir[q], k)' = Size(Dir[q], k)
                            /\ Ver(q, k)' = Ver(q, k)
    BY <1>1, <2>1, Loaded DEF Ver, Holds
  <2>3. Crossed(q, s)'
    BY <1>0, <2>1 DEF Crossed
  <2>4. Copied(q, s)'
    BY <1>0, <2>1, <2>2 DEF Copied
  <2>. QED  BY <1>0, <2>1, <2>3, <2>4
<1>. QED  BY <1>2, <1>3 DEF Saves

\* Each step keeps what was written on disk, and what is being written in step
\* with it.
LEMMA OnDiskStep ==
  ASSUME TypeOK, TypeOK', Recoverable, IsInjective(Dir), Next
  PROVE  OnDisk' /\ Saves'
<1>0. OnDisk /\ Saves
  BY DEF Recoverable
<1>1. \A o \in Owner, k \in Key : /\ Ver(o, k) \in Nat /\ Ver(o, k)' \in Nat
                                  /\ content[o][k] \in SUBSET Token /\ content'[o][k] \in SUBSET Token
  BY FiniteTokens DEF TypeOK, ServerTypes, Ver
<1>2. ASSUME NEW o \in Owner, NEW t \in IOThread, SaveStep(o, t)
      PROVE  OnDisk' /\ Saves'
  BY <1>0, <1>2, StartSaveStep, PutStep, EndStep DEF SaveStep
<1>3. ASSUME NEW o \in Owner, OwnerCrash(o) \/ OwnerStarts(o)
      PROVE  OnDisk' /\ Saves'
  BY <1>0, <1>3, EndStep, StartsStep
<1>4. ASSUME ~\E o \in Owner, t \in IOThread : SaveStep(o, t),
             ~\E o \in Owner : OwnerCrash(o) \/ OwnerStarts(o)
      PROVE  OnDisk' /\ Saves'
  <2>1. UNCHANGED <<saving, file, overtaken>>
    BY <1>4, SavingStep, FileStep DEF SaveStep
  <2>2. ASSUME NEW w \in Worker, Push(w)
        PROVE  OnDisk' /\ Saves'
    <3>1. \A o \in Owner, k \in Key : content[o][k] \subseteq content'[o][k]
      BY <2>2, PushContent
    <3>2. \A o \in Owner, k \in Key : Ver(o, k) <= Ver(o, k)'
      BY <1>1, <3>1, Larger DEF Ver
    <3>. QED  BY <1>0, <2>1, <2>2, <3>2, PushContent, VersionsGrow
  <2>3. CASE /\ UNCHANGED <<up, written>>
             /\ \A o \in Owner, k \in Key :
                  \/ content'[o][k] = content[o][k]
                  \/ \E s \in Owner : content'[o][k] = content[s][k] /\ Ver(s, k) > Ver(o, k)
    <3>1. ASSUME NEW o \in Owner, NEW k \in Key
          PROVE  Ver(o, k) <= Ver(o, k)'
      <4>1. CASE content'[o][k] = content[o][k]
        BY <1>1, <4>1 DEF Ver
      <4>2. ASSUME NEW s \in Owner, content'[o][k] = content[s][k], Ver(s, k) > Ver(o, k)
            PROVE  Ver(o, k) <= Ver(o, k)'
        <5>1. Ver(o, k)' = Ver(s, k)
          BY <4>2 DEF Ver
        <5>. QED  BY <1>1, <4>2, <5>1
      <4>. QED  BY <2>3, <4>1, <4>2
    <3>. QED  BY <1>0, <2>1, <2>3, <3>1, VersionsGrow
  <2>. QED  BY <1>4, <2>2, <2>3, ContentStep
<1>. QED  BY <1>2, <1>3, <1>4

\* The manifest is what the last completed round of a checkpoint was told.
LEMMA VersionsStep ==
  ASSUME TypeOK, Next
  PROVE  /\ manifest' = manifest \/ manifest' = ckpt.held
         /\ \/ ckpt'.held = ckpt.held
            \/ ckpt'.held = NoVersions
            \/ \E o \in Owner, t \in IOThread :
                 /\ SaveEnds(o, t)
                 /\ \A k \in Key :
                      \/ ckpt'.held[k] = ckpt.held[k]
                      \/ k \in Holds(o) /\ ckpt'.held[k] = Cardinality(saving[o][t].state[k])
<1>1. ASSUME NEW o \in Owner, NEW t \in IOThread, SaveStep(o, t)
      PROVE  /\ manifest' = manifest
             /\ \/ ckpt'.held = ckpt.held
                \/ /\ SaveEnds(o, t)
                   /\ \A k \in Key :
                        \/ ckpt'.held[k] = ckpt.held[k]
                        \/ k \in Holds(o) /\ ckpt'.held[k] = Cardinality(saving[o][t].state[k])
  <2>1. manifest' = manifest
    BY <1>1, SaveFrame
  <2>2. CASE ckpt' = ckpt \/ ckpt' = [ckpt EXCEPT !.by = t]
    BY <2>1, <2>2 DEF TypeOK, CheckpointTypes
  <2>3. CASE Waited(o, t) /\ ckpt' = NextOwner
    BY <2>1, <2>3, Waiting DEF Waited
  <2>4. CASE /\ SaveEnds(o, t) /\ Waited(o, t)
             /\ ckpt' = [NextOwner EXCEPT !.held = [k \in Key |->
                  IF k \in Holds(o) THEN Max({@[k], Cardinality(saving[o][t].state[k])}) ELSE @[k]]]
    <3>1. NextOwner \in CkptRecord /\ NextOwner.held = ckpt.held
      BY <2>4, Waiting DEF Waited
    <3>. DEFINE newer(k) == Max({ckpt.held[k], Cardinality(saving[o][t].state[k])})
    <3>2. ckpt'.held = [k \in Key |-> IF k \in Holds(o) THEN newer(k) ELSE ckpt.held[k]]
      BY <2>4, <3>1 DEF CkptRecord
    <3>3. \A k \in Key : newer(k) = ckpt.held[k] \/ newer(k) = Cardinality(saving[o][t].state[k])
      <4>1. \A a, b \in Version : Max({a, b}) \in {a, b}
        BY DEF Max, Version
      <4>2. \A k \in Key : Cardinality(saving[o][t].state[k]) \in Version /\ ckpt.held[k] \in Version
        BY SavingType DEF TypeOK, CheckpointTypes, Version
      <4>. QED  BY <4>1, <4>2
    <3>. HIDE DEF newer
    <3>. QED  BY <2>1, <2>4, <3>2, <3>3
  <2>. QED
    BY <1>1, <2>2, <2>3, <2>4 DEF SaveStep, StartSave, WriteFile, RenameFails, SaveEnds, checkpoint
<1>2. CASE WriteManifest
  <2>1. ckpt'.held = ckpt.held
    BY <1>2 DEF WriteManifest, TypeOK, CheckpointTypes
  <2>. QED  BY <1>2, <2>1 DEF WriteManifest
<1>3. CASE CheckpointBegins \/ WriteClock \/ StopServing \/ SchedulerCrash
  <2>1. Ask.held = NoVersions /\ NoCkpt.held = NoVersions
    BY DEF Ask, NoCkpt
  <2>. QED  BY <1>3, <2>1 DEF CheckpointBegins, WriteClock, StopServing, SchedulerCrash
<1>4. CASE OwnerAway \/ GiveUp \/ \E o \in Owner : OwnerCrash(o)
  <2>1. manifest' = manifest
    BY <1>4 DEF OwnerAway, GiveUp, OwnerCrash
  <2>2. ckpt' = ckpt \/ \E o \in Owner : Waits(o) /\ ckpt' = NextOwner
    BY <1>4 DEF OwnerAway, GiveUp, OwnerCrash
  <2>3. ckpt'.held = ckpt.held
    BY <2>2, Waiting
  <2>. QED  BY <2>1, <2>3
<1>5. CASE \/ \E w \in Worker : WorkerStep(w) \/ Leave(w) \/ WorkerCrash(w)
           \/ \E p \in Path : Reclaim(p)
           \/ SchedulerStarts \/ GateOpens
           \/ \E o \in Owner : OwnerStarts(o) \/ \E k \in Key : Replicate(o, k)
  <2>1. ASSUME \E w \in Worker : WorkerStep(w) \/ Leave(w) \/ WorkerCrash(w)
        PROVE  UNCHANGED <<ckpt, manifest>>
    BY ZenonT(40), <2>1
    DEF WorkerStep, Request, Rested, Train, FetchFails, Commit, Disconnect, Reconnect, Push, PushEnds,
        Leave, WorkerCrash, checkpoint
  <2>2. UNCHANGED <<ckpt, manifest>>
    BY <1>5, <2>1 DEF Reclaim, SchedulerStarts, GateOpens, OwnerStarts, Replicate, checkpoint
  <2>. QED  BY <2>2
<1>. QED  BY <1>1, <1>2, <1>3, <1>4, <1>5 DEF Next, FitStep, OwnerStep

LEMMA NextRecoverable ==
  ASSUME IsInjective(Dir)
  PROVE  TypeOK /\ TypeOK' /\ Recoverable /\ [Next]_vars => Recoverable'
<1>1. ASSUME Recoverable, UNCHANGED vars
      PROVE  Recoverable'
  BY <1>1
  DEF vars, checkpoint, servers, history, Recoverable, OnDisk, Saves, Crossed, Copied, Stored, Size, Ver
<1>2. ASSUME TypeOK, TypeOK', Recoverable, Next
      PROVE  Recoverable'
  <2>1. OnDisk' /\ Saves'
    BY <1>2, OnDiskStep
  <2>2. overtaken \subseteq overtaken'
    BY <1>2, SizesGrow
  <2>3. ASSUME NEW d \in Directory, NEW k \in Key \ overtaken'
        PROVE  Size(d, k) \in Int /\ Size(d, k)' \in Int /\ Size(d, k) <= Size(d, k)'
    <3>1. Size(d, k)' \in Int
      <4>1. \A S \in SUBSET Token : Cardinality(S) \in Int
        BY FiniteTokens
      <4>. QED  BY <1>2, <4>1 DEF TypeOK, ServerTypes, Size
    <3>. QED  BY <1>2, <3>1, SizesGrow, Sizes
  <2>4. ASSUME NEW k \in Key \ overtaken', NEW v \in Version,
               v <= 0 \/ \E d \in Directory : v <= Size(d, k)
        PROVE  v <= 0 \/ \E d \in Directory : v <= Size(d, k)'
    BY <2>3, <2>4 DEF Version
  <2>5. manifest \in [Key -> Version] /\ ckpt.held \in [Key -> Version]
    BY <1>2 DEF TypeOK, CheckpointTypes
  <2>6. \A k \in Key \ overtaken' : /\ manifest[k] <= 0 \/ \E d \in Directory : manifest[k] <= Size(d, k)
                                    /\ ckpt.held[k] <= 0 \/ \E d \in Directory : ckpt.held[k] <= Size(d, k)
    BY <1>2, <2>2 DEF Recoverable, Stored
  <2>7. Stored(manifest)'
    <3>1. \A k \in Key : \/ manifest'[k] = manifest[k] \/ manifest'[k] = ckpt.held[k]
      BY <1>2, VersionsStep
    <3>. QED  BY <2>4, <2>5, <2>6, <3>1 DEF Stored
  <2>8. Stored(ckpt.held)'
    <3>1. ASSUME NEW k \in Key \ overtaken', ckpt'.held[k] = ckpt.held[k]
          PROVE  ckpt'.held[k] <= 0 \/ \E d \in Directory : ckpt'.held[k] <= Size(d, k)'
      BY <2>4, <2>5, <2>6, <3>1
    <3>2. ASSUME NEW k \in Key, ckpt'.held = NoVersions
          PROVE  ckpt'.held[k] <= 0
      BY <3>2 DEF NoVersions
    <3>3. ASSUME NEW o \in Owner, NEW t \in IOThread, SaveEnds(o, t), NEW k \in Holds(o),
                 k \notin overtaken', ckpt'.held[k] = Cardinality(saving[o][t].state[k])
          PROVE  \E d \in Directory : ckpt'.held[k] <= Size(d, k)'
      <4>1. k \in Key /\ Dir[o] \in Directory /\ k \notin overtaken
        BY <2>2, <3>3, Constants DEF Holds
      <4>2. Copied(o, t) /\ k \notin saving[o][t].left
        BY <1>2, <3>3 DEF SaveEnds, Recoverable, Saves
      <4>3. ckpt'.held[k] <= Size(Dir[o], k) /\ ckpt'.held[k] \in Nat
        BY <1>2, <3>3, <4>1, <4>2, SavingType DEF Copied
      <4>4. Size(Dir[o], k)' = Size(Dir[o], k)
        BY <3>3 DEF SaveEnds, Size
      <4>. QED  BY <4>1, <4>3, <4>4
    <3>. QED  BY <1>2, <3>1, <3>2, <3>3, VersionsStep DEF Stored
  <2>. QED  BY <2>1, <2>7, <2>8 DEF Recoverable
<1>. QED  BY <1>1, <1>2

LEMMA RecoverableImplies == TypeOK /\ Recoverable => RecoveryPointOnDisk
<1> SUFFICES ASSUME TypeOK, Recoverable, NEW k \in Key \ overtaken, manifest[k] > 0
             PROVE  \E d \in Directory : /\ file[d][k] \notin {NoFile, Torn}
                                         /\ Cardinality(file[d][k]) >= manifest[k]
  BY DEF RecoveryPointOnDisk
<1>1. manifest[k] \in Int
  BY DEF TypeOK, CheckpointTypes, Version
<1>2. PICK d \in Directory : manifest[k] <= Size(d, k)
  BY <1>1 DEF Recoverable, Stored
<1>3. Size(d, k) # -1 /\ Size(d, k) \in Int
  BY <1>1, <1>2, Sizes
<1>. QED  BY <1>1, <1>2, <1>3 DEF Size

\* The manifest's versions stay on disk but for keys of which two calls of
\* save_modules that ran at the same time left an older file or a torn one,
\* provided every owner has a directory of its own: two owners that share one
\* overwrite each other's newer files.
THEOREM RecoveryPoint ==
  ASSUME IsInjective(Dir)
  PROVE  Spec => []RecoveryPointOnDisk
BY TypeCorrect, InitRecoverable, NextRecoverable, RecoverableImplies, PTL DEF Spec

=============================================================================
