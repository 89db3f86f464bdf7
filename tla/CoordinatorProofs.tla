------------------------- MODULE CoordinatorProofs -------------------------
(***************************************************************************)
(* Proofs about Coordinator, for every number of paths and workers, every  *)
(* topology of shared modules and every bound.                             *)
(***************************************************************************)
EXTENDS Coordinator, FiniteSetTheorems, WellFoundedInduction, TLAPS

-----------------------------------------------------------------------------
(* Types. *)

\* The parts of TypeOK, by the variables an action changes together.
TypeFitting ==
  /\ phase \in {"down", "serving", "ending", "ended"}
  /\ target \in Nat /\ lastCkpt \in Nat

TypeProgress ==
  /\ T \in Nat
  /\ completed \in [Path -> Nat]
  /\ versions \in [Shared -> Nat]
  /\ bank \in [Shared -> Weights]
  /\ private \in [Path -> Weights]

TypeLeases ==
  /\ inflight \in [Path -> {"none", "live", "late"}]
  /\ issued \in [Path -> Nat]
  /\ lease \in [Path -> Weights]
  /\ owner \in [Path -> Worker \cup {Nobody}]

TypeJobs ==
  /\ conn \in [Worker -> BOOLEAN]
  /\ job \in [Worker -> Job \cup {NoJob}]
  /\ sent \in [Worker -> BOOLEAN]
  /\ \A w \in Worker : sent[w] => job[w] # NoJob
  /\ orphans \subseteq Job

TypeCaches ==
  /\ have \in [Worker -> [Shared -> Nat \cup {-1}]]
  /\ cache \in [Worker -> [Shared -> Weights]]
  /\ warm \in [Worker -> SUBSET Path]
  /\ mine \in [Worker -> [Path -> Weights]]
  /\ carry \in [Worker -> [Path -> Weights]]

TypeHistory ==
  /\ nextToken \in 1 .. MaxToken + 1
  /\ applied \subseteq Token
  /\ crashes \in 0 .. MaxCrash

TypeDisk == disk \in [Weights -> Directory]

\* TypeOK is the conjunction of its parts, now and after a step.
LEMMA TypeParts ==
  /\ TypeOK <=> /\ TypeFitting /\ TypeProgress /\ TypeLeases /\ TypeJobs
                /\ TypeCaches /\ TypeHistory /\ TypeDisk
  /\ TypeOK' <=> /\ TypeFitting' /\ TypeProgress' /\ TypeLeases' /\ TypeJobs'
                 /\ TypeCaches' /\ TypeHistory' /\ TypeDisk'
BY DEF TypeOK, TypeFitting, TypeProgress, TypeLeases, TypeJobs, TypeCaches,
       TypeHistory, TypeDisk

\* Tokens, and the mark of the initial weights, are weights.
LEMMA ZeroIsWeights == 0 \in Weights /\ Token \subseteq Weights
BY ConstantAssumption DEF Weights, Token

\* The content of a checkpoint directory never written.
LEMMA NoDirectoryType == NoDirectory \in Directory
BY ZeroIsWeights DEF NoDirectory, Directory

\* What a worker holds is a task, and not the mark of having none.
LEMMA HeldJob ==
  ASSUME TypeJobs, NEW w \in Worker, job[w] # NoJob
  PROVE  job[w] \in Job
BY DEF TypeJobs

\* The initial states are well-typed.
LEMMA InitType == Init => TypeOK
<1> SUFFICES ASSUME Init PROVE TypeOK
  OBVIOUS
<1>1. TypeFitting /\ TypeProgress /\ TypeLeases /\ TypeJobs /\ TypeCaches
  BY ConstantAssumption, ZeroIsWeights
  DEF Init, TypeFitting, TypeProgress, TypeLeases, TypeJobs, TypeCaches
<1>2. TypeHistory /\ TypeDisk
  BY ConstantAssumption, NoDirectoryType DEF Init, TypeHistory, TypeDisk
<1> QED BY <1>1, <1>2, TypeParts

\* Each part of the type invariant speaks of its own variables only.
LEMMA TypeUnchanged ==
  /\ TypeFitting /\ UNCHANGED fitting => TypeFitting'
  /\ TypeProgress /\ UNCHANGED progress => TypeProgress'
  /\ TypeLeases /\ UNCHANGED leases => TypeLeases'
  /\ TypeJobs /\ UNCHANGED <<conn, job, sent, orphans>> => TypeJobs'
  /\ TypeCaches /\ UNCHANGED <<have, cache, warm, mine, carry>> => TypeCaches'
  /\ TypeHistory /\ UNCHANGED history => TypeHistory'
  /\ TypeDisk /\ UNCHANGED disk => TypeDisk'
BY DEF fitting, progress, leases, history, TypeFitting, TypeProgress, TypeLeases,
       TypeJobs, TypeCaches, TypeHistory, TypeDisk

\* A contribution received changes the progress, the leases and the updates
\* applied, and keeps their types.
LEMMA ReceiveType ==
  ASSUME TypeOK, NEW m \in Job, Receive(m)
  PROVE  /\ TypeProgress' /\ TypeLeases' /\ TypeHistory'
         /\ UNCHANGED <<fitting, disk>>
<1>1. m.token \in Weights /\ m.token \in Token /\ m.path \in Path
  BY ZeroIsWeights DEF Job
<1>2. TypeProgress /\ TypeLeases /\ TypeHistory
  BY TypeParts
<1>3. TypeLeases'
  BY <1>1, <1>2, ZeroIsWeights DEF Receive, FreeLease, leases, TypeLeases
<1>4. CASE Apply(m)
  <2>1. TypeProgress'
    BY <1>1, <1>2, <1>4 DEF Apply, TypeProgress
  <2>2. TypeHistory'
    BY <1>1, <1>2, <1>4 DEF Apply, Receive, TypeHistory
  <2>. QED  BY <1>3, <2>1, <2>2 DEF Receive
<1>5. CASE UNCHANGED <<progress, applied>>
  <2>1. TypeProgress'
    BY <1>2, <1>5, TypeUnchanged
  <2>2. TypeHistory'
    BY <1>2, <1>5 DEF Receive, TypeHistory
  <2>. QED  BY <1>3, <2>1, <2>2 DEF Receive
<1>. QED  BY <1>4, <1>5 DEF Receive

\* Leaving a connection behind keeps the jobs well-typed once the worker has
\* let go of a task it had submitted.
LEMMA AbandonType ==
  ASSUME TypeOK, NEW w \in Worker, Abandon(w),
         job' = [job EXCEPT ![w] = NoJob] \/ (~sent[w] /\ UNCHANGED job)
  PROVE  TypeJobs'
<1>1. TypeJobs
  BY TypeParts
<1>2. sent[w] => job[w] \in Job
  BY <1>1, HeldJob DEF TypeJobs
<1>3. orphans' \subseteq Job
  BY <1>1, <1>2 DEF Abandon, TypeJobs
<1>4. /\ conn' \in [Worker -> BOOLEAN]
      /\ job' \in [Worker -> Job \cup {NoJob}]
      /\ sent' \in [Worker -> BOOLEAN]
  BY <1>1 DEF Abandon, TypeJobs
<1>5. ASSUME NEW v \in Worker, sent'[v]
      PROVE  job'[v] # NoJob
  BY <1>1, <1>5 DEF Abandon, TypeJobs
<1>. QED  BY <1>3, <1>4, <1>5 DEF TypeJobs

\* So is the empty lease table.
LEMMA NoLeasesType == NoLeases => TypeLeases'
BY ConstantAssumption, ZeroIsWeights DEF NoLeases, TypeLeases

\* A task handed out and taken in, or lost with its reply.
LEMMA RequestType ==
  ASSUME TypeOK, NEW w \in Worker, Request(w)
  PROVE  TypeOK'
<1> USE ZeroIsWeights
<1>1. /\ TypeFitting /\ TypeProgress /\ TypeLeases /\ TypeJobs /\ TypeCaches
      /\ TypeHistory /\ TypeDisk
  BY TypeParts
<1>2. nextToken \in Token /\ nextToken \in Weights
  BY <1>1, ConstantAssumption DEF Request, TypeHistory, Token
<1>3. PICK p \in Path :
        /\ inflight' = [Reclaimed(inflight, "none") EXCEPT ![p] = "live"]
        /\ lease' = [Reclaimed(lease, 0) EXCEPT ![p] = nextToken]
        /\ owner' = [Reclaimed(owner, Nobody) EXCEPT ![p] = w]
        /\ issued' = [issued EXCEPT ![p] = T]
        /\ TakeTask(w, p) \/ LoseTask(w)
  BY DEF Request
<1>4. TypeLeases'
  BY <1>1, <1>2, <1>3 DEF TypeLeases, TypeProgress, Reclaimed
<1>5. TypeHistory'
  BY <1>1, <1>2, ConstantAssumption DEF Request, TypeHistory, Token
<1>6. TypeFitting' /\ TypeProgress' /\ TypeDisk'
  BY <1>1, TypeUnchanged DEF Request
<1>7. ~sent[w]
  BY <1>1 DEF Request, TypeJobs
<1>8. TypeJobs' /\ TypeCaches'
  <2>1. CASE TakeTask(w, p)
    <3> DEFINE j == [token |-> nextToken, path |-> p, gen |-> completed[p],
                     base |-> T, valid |-> TRUE]
    <3>1. j \in Job
      BY <1>1, <1>2 DEF TypeProgress, Job
    <3>2. j # NoJob
      BY <1>2, ConstantAssumption DEF NoJob, Token
    <3>3. job' = [job EXCEPT ![w] = j] /\ UNCHANGED <<conn, sent, orphans>>
      BY <2>1 DEF TakeTask, Request
    <3> HIDE DEF j
    <3>4. TypeJobs'
      BY <1>1, <1>7, <3>1, <3>2, <3>3 DEF TypeJobs
    <3>5. /\ have' \in [Worker -> [Shared -> Nat \cup {-1}]]
          /\ cache' \in [Worker -> [Shared -> Weights]]
      BY <1>1, <2>1 DEF TakeTask, HaveAfterTask, TypeCaches, TypeProgress
    <3>6. /\ mine' \in [Worker -> [Path -> Weights]]
          /\ carry' \in [Worker -> [Path -> Weights]]
          /\ UNCHANGED warm
      BY <1>1, <2>1 DEF TakeTask, TypeCaches, TypeProgress
    <3>. QED  BY <1>1, <3>4, <3>5, <3>6 DEF TypeCaches
  <2>2. CASE LoseTask(w)
    BY <1>1, <2>2, TypeUnchanged DEF LoseTask, Request, TypeJobs
  <2>. QED  BY <1>3, <2>1, <2>2
<1>. QED  BY <1>4, <1>5, <1>6, <1>8, TypeParts

\* A directory restored from gives the state of the coordinator its types.
LEMMA StartFromType ==
  ASSUME NEW d \in Directory, StartFrom(d)
  PROVE  /\ TypeProgress'
         /\ target' \in Nat /\ lastCkpt' \in Nat
<1>1. ExtrasOf(d) \subseteq Extra
  BY DEF ExtrasOf, Extra, Directory
<1>2. PICK e \in ExtrasOf(d) :
        T' = e.T /\ completed' = e.completed /\ versions' = e.versions
  BY DEF StartFrom
<1>3. /\ T' \in Nat
      /\ completed' \in [Path -> Nat]
      /\ versions' \in [Shared -> Nat]
  BY <1>1, <1>2 DEF Extra
<1>4. bank' \in [Shared -> Weights] /\ private' \in [Path -> Weights]
  BY DEF StartFrom, Directory
<1>. QED  BY <1>3, <1>4, ConstantAssumption DEF StartFrom, TypeProgress

\* A checkpoint that ran to its end, and one that did not.
LEMMA CheckpointType ==
  ASSUME TypeProgress, TypeDisk
  PROVE  /\ DiskAfterCheckpoint \in [Weights -> Directory]
         /\ \A b \in BOOLEAN : DiskTornBy(b) \in [Weights -> Directory]
<1>1. [T |-> T, completed |-> completed, versions |-> versions] \in Extra
  BY DEF TypeProgress, Extra
<1>2. [bank |-> bank, private |-> private, meta |-> TRUE,
       extra |-> {[T |-> T, completed |-> completed, versions |-> versions]}]
        \in Directory
  BY <1>1 DEF TypeProgress, Directory
<1>3. DiskAfterCheckpoint \in [Weights -> Directory]
  BY <1>2 DEF TypeDisk, DiskAfterCheckpoint
<1>4. ASSUME NEW b \in BOOLEAN
      PROVE  DiskTornBy(b) \in [Weights -> Directory]
  <2> DEFINE m == disk[T].meta \/ b
             d == [bank |-> bank, private |-> private, meta |-> m,
                   extra |-> disk[T].extra]
  <2>1. m \in BOOLEAN
    OBVIOUS
  <2> HIDE DEF m
  <2>2. T \in Weights => d \in Directory
    BY <2>1 DEF TypeDisk, TypeProgress, Directory
  <2> HIDE DEF d
  <2>3. [disk EXCEPT ![T] = d] \in [Weights -> Directory]
    BY <2>2 DEF TypeDisk
  <2>. QED  BY <2>3 DEF DiskTornBy, d, m
<1>. QED  BY <1>3, <1>4

\* A coordinator that dies leaves its variables and its connections typed.
LEMMA DownType ==
  ASSUME TypeOK, Down
  PROVE  /\ TypeFitting' /\ TypeProgress' /\ TypeLeases' /\ TypeJobs'
         /\ TypeCaches' /\ TypeHistory'
<1>1. TypeJobs /\ TypeCaches /\ TypeHistory
  BY TypeParts
<1>2. TypeFitting' /\ TypeProgress'
  BY ZeroIsWeights DEF Down, TypeFitting, TypeProgress
<1>3. TypeLeases'
  BY NoLeasesType DEF Down
<1>4. TypeJobs'
  BY <1>1 DEF Down, TypeJobs
<1>5. TypeCaches'
  BY <1>1, TypeUnchanged DEF Down
<1>6. TypeHistory'
  BY <1>1, ConstantAssumption DEF Down, TypeHistory
<1>. QED  BY <1>2, <1>3, <1>4, <1>5, <1>6

\* Every step keeps the types.
LEMMA StepType == TypeOK /\ [Next]_vars => TypeOK'
<1> SUFFICES ASSUME TypeOK, [Next]_vars
             PROVE  TypeOK'
  OBVIOUS
<1> USE ZeroIsWeights
<1>0. /\ TypeFitting /\ TypeProgress /\ TypeLeases /\ TypeJobs /\ TypeCaches
      /\ TypeHistory /\ TypeDisk
  BY TypeParts
<1>1. ASSUME NEW p \in Path, LeaseTimesOut(p)
      PROVE  TypeOK'
  <2>1. TypeLeases'
    BY <1>0, <1>1 DEF LeaseTimesOut, TypeLeases
  <2>. QED  BY <1>0, <1>1, <2>1, TypeUnchanged, TypeParts DEF LeaseTimesOut, workers
<1>2. CASE Reclaim
  <2>1. TypeLeases'
    BY <1>0, <1>2 DEF Reclaim, Reclaimed, TypeLeases
  <2>. QED  BY <1>0, <1>2, <2>1, TypeUnchanged, TypeParts DEF Reclaim, workers
<1>3. ASSUME NEW w \in Worker, Heartbeat(w)
      PROVE  TypeOK'
  <2>1. TypeLeases'
    BY <1>0, <1>3 DEF Heartbeat, TypeLeases
  <2>. QED  BY <1>0, <1>3, <2>1, TypeUnchanged, TypeParts DEF Heartbeat, workers
<1>4. ASSUME NEW w \in Worker, Request(w)
      PROVE  TypeOK'
  BY <1>4, RequestType
<1>5. ASSUME NEW w \in Worker, Train(w)
      PROVE  TypeOK'
  <2> DEFINE p == job[w].path
  <2>1. job[w] \in Job /\ p \in Path /\ job[w].token \in Weights
    BY <1>0, <1>5, HeldJob DEF Train, Job
  <2>2. TypeCaches'
    BY <1>0, <1>5, <2>1 DEF Train, TypeCaches
  <2>3. TypeJobs'
    <3>1. CASE conn[w]
      <4>1. PICK v \in BOOLEAN : job' = [job EXCEPT ![w].valid = v]
        BY <1>5, <3>1 DEF Train
      <4> DEFINE j == [job[w] EXCEPT !.valid = v]
      <4>2. j \in Job
        BY <2>1 DEF Job
      <4>3. j # NoJob
        BY <4>2, ConstantAssumption DEF Job, NoJob, Token
      <4>4. job' = [job EXCEPT ![w] = j]
        BY <1>0, <4>1 DEF TypeJobs
      <4> HIDE DEF j
      <4>. QED  BY <1>0, <1>5, <3>1, <4>2, <4>3, <4>4 DEF Train, TypeJobs
    <3>2. CASE ~conn[w]
      BY <1>0, <1>5, <3>2 DEF Train, TypeJobs
    <3>. QED  BY <3>1, <3>2
  <2>. QED  BY <1>0, <1>5, <2>2, <2>3, TypeUnchanged, TypeParts DEF Train, server
<1>6. ASSUME NEW w \in Worker, Fail(w)
      PROVE  TypeOK'
  <2>1. job[w].path \in Path
    BY <1>0, <1>6, HeldJob DEF Fail, Job
  <2>2. TypeLeases'
    BY <1>0, <1>6, <2>1 DEF Fail, FreeLease, leases, TypeLeases
  <2>3. TypeJobs'
    BY <1>0, <1>6 DEF Fail, TypeJobs
  <2>. QED  BY <1>0, <1>6, <2>2, <2>3, TypeUnchanged, TypeParts DEF Fail
<1>7. ASSUME NEW w \in Worker, Submit(w)
      PROVE  TypeOK'
  <2>1. job[w] \in Job
    BY <1>0, <1>7, HeldJob DEF Submit, TypeJobs
  <2>2. /\ TypeProgress' /\ TypeLeases' /\ TypeHistory'
        /\ UNCHANGED <<fitting, disk>>
    BY <1>7, <2>1, ReceiveType DEF Submit
  <2>3. TypeJobs'
    BY <1>0, <1>7 DEF Submit, TypeJobs
  <2>4. \A c \in Weights : CarryAfterAck(job[w], c) \in Weights
    BY <2>1 DEF CarryAfterAck, Job
  <2>5. TypeCaches'
    <3>1. job[w].path \in Path /\ carry[w] \in [Path -> Weights]
      BY <1>0, <2>1 DEF TypeCaches, Job
    <3> DEFINE q == job[w].path
               c == CarryAfterAck(job[w], carry[w][q])
    <3>2. c \in Weights
      BY <2>4, <3>1
    <3>3. \/ carry' = [carry EXCEPT ![w] = [carry[w] EXCEPT ![q] = c]]
          \/ carry' = carry
      BY <1>7 DEF Submit
    <3> HIDE DEF q, c
    <3> DEFINE f == [carry[w] EXCEPT ![q] = c]
    <3>5. f \in [Path -> Weights]
      BY <3>1, <3>2
    <3> HIDE DEF f
    <3>6. carry' = [carry EXCEPT ![w] = f] \/ carry' = carry
      BY <3>3 DEF f
    <3>7. carry' \in [Worker -> [Path -> Weights]]
      BY <1>0, <3>5, <3>6 DEF TypeCaches
    <3>. QED  BY <1>0, <1>7, <3>7 DEF Submit, TypeCaches
  <2>. QED  BY <1>0, <2>2, <2>3, <2>5, TypeUnchanged, TypeParts
<1>8. ASSUME NEW m \in orphans, SubmitLate(m)
      PROVE  TypeOK'
  <2>1. m \in Job
    BY <1>0 DEF TypeJobs
  <2>2. /\ TypeProgress' /\ TypeLeases' /\ TypeHistory'
        /\ UNCHANGED <<fitting, disk>>
    BY <1>8, <2>1, ReceiveType DEF SubmitLate
  <2>3. TypeJobs'
    BY <1>0, <1>8 DEF SubmitLate, workers, TypeJobs
  <2>. QED  BY <1>0, <1>8, <2>2, <2>3, TypeUnchanged, TypeParts DEF SubmitLate, workers
<1>9. ASSUME NEW w \in Worker, Disconnect(w)
      PROVE  TypeOK'
  <2>1. TypeJobs'
    BY <1>0, <1>9, AbandonType DEF Disconnect, TypeJobs
  <2>. QED  BY <1>0, <1>9, <2>1, TypeUnchanged, TypeParts DEF Disconnect, server
<1>10. ASSUME NEW w \in Worker, Reconnect(w)
       PROVE  TypeOK'
  <2>1. TypeJobs'
    BY <1>0, <1>10 DEF Reconnect, TypeJobs
  <2>. QED  BY <1>0, <1>10, <2>1, TypeUnchanged, TypeParts DEF Reconnect, server
<1>11. ASSUME NEW w \in Worker, WorkerRestart(w)
       PROVE  TypeOK'
  <2>1. TypeJobs'
    BY <1>11, AbandonType DEF WorkerRestart
  <2>2. TypeCaches'
    BY <1>0, <1>11 DEF WorkerRestart, TypeCaches
  <2>. QED  BY <1>0, <1>11, <2>1, <2>2, TypeUnchanged, TypeParts DEF WorkerRestart, server
<1>12. CASE Start
  <2>1. PICK d \in Directory : StartFrom(d)
    BY <1>0, <1>12, NoDirectoryType DEF Start, Restorable, TypeDisk
  <2>2. TypeFitting' /\ TypeProgress'
    BY <1>12, <2>1, StartFromType DEF Start, TypeFitting
  <2>3. TypeLeases'
    BY <1>12, NoLeasesType DEF Start
  <2>. QED  BY <1>0, <1>12, <2>2, <2>3, TypeUnchanged, TypeParts DEF Start, workers
<1>13. CASE Checkpoint
  <2>1. TypeDisk' /\ TypeFitting'
    BY <1>0, <1>13, CheckpointType
    DEF Checkpoint, progress, TypeProgress, TypeFitting, TypeDisk
  <2>. QED  BY <1>0, <1>13, <2>1, TypeUnchanged, TypeParts DEF Checkpoint, workers
<1>14. CASE StopServing
  <2>1. TypeFitting'
    BY <1>0, <1>14 DEF StopServing, TypeFitting
  <2>. QED  BY <1>0, <1>14, <2>1, TypeUnchanged, TypeParts DEF StopServing, workers
<1>15. CASE FinishFit
  <2>1. TypeDisk' /\ TypeFitting'
    BY <1>0, <1>15, CheckpointType DEF FinishFit, TypeFitting, TypeDisk
  <2>. QED  BY <1>0, <1>15, <2>1, TypeUnchanged, TypeParts DEF FinishFit, workers
<1>16. CASE Crash
  BY <1>0, <1>16, DownType, TypeUnchanged, TypeParts DEF Crash
<1>17. ASSUME NEW metaWritten \in BOOLEAN, CrashInCheckpoint(metaWritten)
       PROVE  TypeOK'
  <2>1. TypeDisk'
    BY <1>0, <1>17, CheckpointType DEF CrashInCheckpoint, TypeDisk
  <2>. QED  BY <1>17, <2>1, DownType, TypeParts DEF CrashInCheckpoint
<1>18. CASE UNCHANGED vars
  BY <1>0, <1>18, TypeUnchanged, TypeParts DEF vars, server, workers
<1>. QED
  BY <1>1, <1>2, <1>3, <1>4, <1>5, <1>6, <1>7, <1>8, <1>9, <1>10, <1>11, <1>12,
     <1>13, <1>14, <1>15, <1>16, <1>17, <1>18 DEF Next

\* Every variable of the coordinator, its workers and its disk keeps its type,
\* and a worker only ever waits for the ack of a task it holds.
THEOREM TypeCorrect == Spec => []TypeOK
BY InitType, StepType, PTL DEF Spec

-----------------------------------------------------------------------------
(* The fence.  AcceptedInSequence and AcceptedWithinStaleness say what is   *)
(* true of a contribution when it is accepted; what makes them true is kept *)
(* from the moment its lease was given: a contribution that would pass the  *)
(* fence was leased at the count, and at the clock, the coordinator has on  *)
(* record for its path; and a token stands for one lease only.              *)

\* Two copies of one task, which may differ in how training ended.
SameTask(m, n) ==
  m.token = n.token /\ m.path = n.path /\ m.gen = n.gen /\ m.base = n.base

FenceInv ==
  /\ \A m \in InHand : m.token < nextToken
  /\ \A m, n \in InHand : m.token = n.token => SameTask(m, n)
  /\ \A m \in InHand :
       Fenced(m) => m.gen = completed[m.path] /\ m.base = issued[m.path]

\* What a contribution in hand is.
LEMMA InHandType == TypeJobs => InHand \subseteq Job
BY HeldJob DEF InHand, TypeJobs

\* A step after which only tasks handed out before are in hand, and which
\* changes count and clock of no path whose lease it leaves alone, keeps the
\* fence.
LEMMA FenceKept ==
  ASSUME TypeOK, FenceInv, nextToken' = nextToken,
         \A m \in InHand' : \E n \in InHand : SameTask(m, n),
         \A p \in Path :
           inflight'[p] # "none" =>
             /\ inflight[p] # "none" /\ lease'[p] = lease[p]
             /\ completed'[p] = completed[p] /\ issued'[p] = issued[p]
  PROVE  FenceInv'
<1>1. \A n \in InHand : n.path \in Path
  BY InHandType, TypeParts DEF Job
<1>2. ASSUME NEW m \in InHand'
      PROVE  m.token < nextToken'
  BY <1>2 DEF FenceInv, SameTask
<1>3. ASSUME NEW m \in InHand', NEW n \in InHand', m.token = n.token
      PROVE  SameTask(m, n)
  BY <1>3 DEF FenceInv, SameTask
<1>4. ASSUME NEW m \in InHand', inflight'[m.path] # "none", lease'[m.path] = m.token
      PROVE  m.gen = completed'[m.path] /\ m.base = issued'[m.path]
  <2>1. PICK n \in InHand : SameTask(m, n)
    BY <1>4
  <2>2. Fenced(n)
    BY <1>1, <1>4, <2>1 DEF SameTask, Fenced
  <2>. QED  BY <1>1, <1>4, <2>1, <2>2 DEF SameTask, FenceInv
<1>. QED  BY <1>2, <1>3, <1>4 DEF FenceInv, SameTask, Fenced

\* What may come to be in hand by a worker training, finishing, failing, or
\* leaving its submit behind.
LEMMA InHandKept ==
  ASSUME TypeJobs,
         \A w \in Worker : \/ job'[w] = job[w] \/ job'[w] = NoJob
                           \/ job[w] # NoJob /\ SameTask(job'[w], job[w]),
         \A m \in orphans' \ orphans : \E w \in Worker : job[w] # NoJob /\ m = job[w]
  PROVE  \A m \in InHand' : \E n \in InHand : SameTask(m, n)
BY DEF InHand, SameTask, TypeJobs

\* The empty lease table fences everything off.
LEMMA FenceNoLeases ==
  ASSUME TypeOK, FenceInv, nextToken' = nextToken, NoLeases,
         \A m \in InHand' : \E n \in InHand : SameTask(m, n)
  PROVE  FenceInv'
<1>1. \A p \in Path : inflight'[p] = "none"
  BY DEF NoLeases
<1>. QED  BY <1>1, FenceKept

\* A contribution received either frees the lease of its path or leaves every
\* count and lease alone.
LEMMA FenceReceive ==
  ASSUME TypeOK, FenceInv, NEW m \in Job, Receive(m),
         \A n \in InHand' : \E l \in InHand : SameTask(n, l)
  PROVE  FenceInv'
<1>1. m.path \in Path /\ TypeProgress /\ TypeLeases
  BY TypeParts DEF Job
<1>2. nextToken' = nextToken
  BY DEF Receive
<1>3. ASSUME NEW p \in Path, inflight'[p] # "none"
      PROVE  /\ inflight[p] # "none" /\ lease'[p] = lease[p]
             /\ completed'[p] = completed[p] /\ issued'[p] = issued[p]
  <2>1. CASE Fenced(m)
    <3>1. FreeLease(m.path)
      BY <2>1 DEF Receive
    <3>2. p # m.path
      BY <1>1, <1>3, <3>1 DEF FreeLease, TypeLeases
    <3>3. completed'[p] = completed[p]
      BY <1>1, <3>2 DEF Receive, Apply, progress, TypeProgress
    <3>. QED  BY <1>1, <1>3, <3>1, <3>2, <3>3 DEF FreeLease, TypeLeases
  <2>2. CASE ~Fenced(m)
    BY <1>3, <2>2 DEF Receive, Accepts, leases, progress
  <2>. QED  BY <2>1, <2>2
<1>. QED  BY <1>2, <1>3, FenceKept

\* A new lease has a token nobody holds, and the count and clock of its path.
LEMMA FenceRequest ==
  ASSUME TypeOK, FenceInv, NEW w \in Worker, Request(w)
  PROVE  FenceInv'
<1>0. TypeJobs /\ TypeLeases /\ TypeProgress /\ TypeHistory
  BY TypeParts
<1>1. PICK p \in Path :
        /\ inflight' = [Reclaimed(inflight, "none") EXCEPT ![p] = "live"]
        /\ lease' = [Reclaimed(lease, 0) EXCEPT ![p] = nextToken]
        /\ issued' = [issued EXCEPT ![p] = T]
        /\ TakeTask(w, p) \/ LoseTask(w)
  BY DEF Request
<1> DEFINE j == [token |-> nextToken, path |-> p, gen |-> completed[p],
                 base |-> T, valid |-> TRUE]
<1>2. ASSUME NEW m \in InHand'
      PROVE  m \in InHand \/ m = j
  BY <1>0, <1>1, <1>2 DEF InHand, Request, TakeTask, LoseTask, TypeJobs
<1>3. UNCHANGED completed /\ nextToken' = nextToken + 1 /\ nextToken \in Nat
  BY <1>0, ConstantAssumption DEF Request, progress, TypeHistory
<1>4. \A m \in InHand : m.path \in Path /\ m.token \in Nat /\ m.token < nextToken
  BY <1>0, InHandType DEF FenceInv, Job, Token
<1>5. ASSUME NEW m \in InHand, inflight'[m.path] # "none", lease'[m.path] = m.token
      PROVE  m.gen = completed'[m.path] /\ m.base = issued'[m.path]
  <2>1. m.path # p
    BY <1>0, <1>1, <1>4, <1>5, <1>3 DEF Reclaimed, TypeLeases
  <2>2. Fenced(m)
    BY <1>0, <1>1, <1>4, <1>5, <2>1 DEF Reclaimed, TypeLeases, Fenced
  <2>. QED  BY <1>0, <1>1, <1>3, <1>4, <2>1, <2>2 DEF FenceInv, TypeLeases
<1>6. j.gen = completed'[j.path] /\ j.base = issued'[j.path]
  BY <1>0, <1>1, <1>3 DEF TypeLeases
<1>7. j.token = nextToken
  OBVIOUS
<1> HIDE DEF j
<1>8. \A m \in InHand' : m.token < nextToken'
  BY <1>2, <1>3, <1>4, <1>7
<1>9. \A m, n \in InHand' : m.token = n.token => SameTask(m, n)
  BY <1>2, <1>3, <1>4, <1>7 DEF FenceInv, SameTask
<1>10. \A m \in InHand' :
         inflight'[m.path] # "none" /\ lease'[m.path] = m.token
           => m.gen = completed'[m.path] /\ m.base = issued'[m.path]
  BY <1>2, <1>5, <1>6
<1>. QED  BY <1>8, <1>9, <1>10 DEF FenceInv, SameTask, Fenced

\* The fence holds before the first lease.
LEMMA FenceInit == Init => FenceInv
BY DEF Init, FenceInv, InHand, NoJob

\* The fence holds after every step.
LEMMA FenceStep == TypeOK /\ FenceInv /\ [Next]_vars => FenceInv'
<1> SUFFICES ASSUME TypeOK, FenceInv, [Next]_vars
             PROVE  FenceInv'
  OBVIOUS
<1>0. TypeJobs /\ TypeLeases /\ TypeProgress
  BY TypeParts
<1>a. UNCHANGED <<job, orphans>> => \A m \in InHand' : \E n \in InHand : SameTask(m, n)
  BY <1>0, InHandKept
<1>1. ASSUME NEW p \in Path, LeaseTimesOut(p)
      PROVE  FenceInv'
  BY <1>0, <1>1, <1>a, FenceKept
  DEF LeaseTimesOut, TypeLeases, progress, workers, history
<1>2. CASE Reclaim
  BY <1>0, <1>2, <1>a, FenceKept
  DEF Reclaim, Reclaimed, TypeLeases, progress, workers, history
<1>3. ASSUME NEW w \in Worker, Heartbeat(w)
      PROVE  FenceInv'
  BY <1>0, <1>3, <1>a, FenceKept
  DEF Heartbeat, Fenced, TypeLeases, progress, workers, history
<1>4. ASSUME NEW w \in Worker, Request(w)
      PROVE  FenceInv'
  BY <1>4, FenceRequest
<1>5. ASSUME NEW w \in Worker, Train(w)
      PROVE  FenceInv'
  <2>1. \A v \in Worker : \/ job'[v] = job[v] \/ job'[v] = NoJob
                          \/ job[v] # NoJob /\ SameTask(job'[v], job[v])
    <3>1. job[w] \in Job
      BY <1>0, <1>5, HeldJob DEF Train
    <3>2. CASE conn[w]
      <4>1. PICK b \in BOOLEAN : job' = [job EXCEPT ![w].valid = b]
        BY <1>5, <3>2 DEF Train
      <4> DEFINE j == [job[w] EXCEPT !.valid = b]
      <4>2. SameTask(j, job[w])
        BY <3>1 DEF SameTask, Job
      <4>3. job' = [job EXCEPT ![w] = j]
        BY <1>0, <4>1 DEF TypeJobs
      <4> HIDE DEF j
      <4>. QED  BY <1>0, <1>5, <4>2, <4>3 DEF Train, TypeJobs
    <3>3. CASE ~conn[w]
      BY <1>0, <1>5, <3>3 DEF Train, TypeJobs
    <3>. QED  BY <3>2, <3>3
  <2>. QED  BY <1>0, <1>5, <2>1, InHandKept, FenceKept
            DEF Train, server, leases, progress, history
<1>6. ASSUME NEW w \in Worker, Fail(w)
      PROVE  FenceInv'
  <2>1. \A m \in InHand' : \E n \in InHand : SameTask(m, n)
    BY <1>0, <1>6, InHandKept DEF Fail, TypeJobs
  <2>2. job[w].path \in Path
    BY <1>0, <1>6, HeldJob DEF Fail, Job
  <2>. QED  BY <1>0, <1>6, <2>1, <2>2, FenceKept
            DEF Fail, FreeLease, leases, progress, history, TypeLeases
<1>7. ASSUME NEW w \in Worker, Submit(w)
      PROVE  FenceInv'
  <2>1. \A m \in InHand' : \E n \in InHand : SameTask(m, n)
    BY <1>0, <1>7, InHandKept DEF Submit, TypeJobs
  <2>2. job[w] \in Job
    BY <1>0, <1>7, HeldJob DEF Submit, TypeJobs
  <2>. QED  BY <1>7, <2>1, <2>2, FenceReceive DEF Submit
<1>8. ASSUME NEW m \in orphans, SubmitLate(m)
      PROVE  FenceInv'
  <2>1. \A n \in InHand' : \E l \in InHand : SameTask(n, l)
    BY <1>0, <1>8, InHandKept DEF SubmitLate, workers
  <2>2. m \in Job
    BY <1>0 DEF TypeJobs
  <2>. QED  BY <1>8, <2>1, <2>2, FenceReceive DEF SubmitLate
<1>9. ASSUME NEW w \in Worker, Disconnect(w) \/ WorkerRestart(w)
      PROVE  FenceInv'
  <2>1. \A v \in Worker : job'[v] = job[v] \/ job'[v] = NoJob
    BY <1>0, <1>9 DEF Disconnect, WorkerRestart, TypeJobs
  <2>2. \A m \in orphans' \ orphans : \E v \in Worker : job[v] # NoJob /\ m = job[v]
    BY <1>0, <1>9 DEF Disconnect, WorkerRestart, Abandon, TypeJobs
  <2>. QED  BY <1>0, <1>9, <2>1, <2>2, InHandKept, FenceKept
            DEF Disconnect, WorkerRestart, server, leases, progress, history
<1>10. ASSUME NEW w \in Worker, Reconnect(w)
       PROVE  FenceInv'
  BY <1>0, <1>10, <1>a, FenceKept DEF Reconnect, server, leases, progress, history
<1>11. CASE Start
  BY <1>11, <1>a, FenceNoLeases DEF Start, workers, history
<1>12. CASE Checkpoint \/ StopServing \/ FinishFit
  BY <1>12, <1>a, FenceKept
  DEF Checkpoint, StopServing, FinishFit, leases, progress, workers, history
<1>13. CASE Down
  <2>1. \A m \in InHand' : \E n \in InHand : SameTask(m, n)
    BY <1>0, <1>13, InHandKept DEF Down, TypeJobs
  <2>. QED  BY <1>13, <2>1, FenceNoLeases DEF Down
<1>14. CASE UNCHANGED vars
  BY <1>14, <1>a, FenceKept DEF vars, server, leases, progress, workers, history
<1>. QED
  BY <1>1, <1>2, <1>3, <1>4, <1>5, <1>6, <1>7, <1>8, <1>9, <1>10, <1>11, <1>12,
     <1>13, <1>14 DEF Next, Crash, CrashInCheckpoint

\* A step that applies the update of a task in hand found it fenced.
LEMMA AppliedWasFenced ==
  ASSUME TypeOK, FenceInv, [Next]_vars,
         NEW m \in InHand, m.token \in applied' \ applied
  PROVE  /\ Fenced(m) /\ m.gen = completed[m.path] /\ m.base = issued[m.path]
         /\ T - issued[m.path] <= StalenessBound
<1>1. TypeJobs
  BY TypeParts
<1>2. PICK n \in InHand : Receive(n) /\ Accepts(n)
  <2>1. CASE \E w \in Worker : Submit(w)
    BY <1>1, <2>1 DEF Submit, Receive, TypeJobs, InHand
  <2>2. CASE \E n \in orphans : SubmitLate(n)
    BY <2>2 DEF SubmitLate, Receive, InHand
  <2>3. CASE UNCHANGED applied
    BY <2>3
  <2>. QED
    BY <2>1, <2>2, <2>3
    DEF Next, LeaseTimesOut, Reclaim, Heartbeat, Request, Train, Fail, Disconnect,
        Reconnect, WorkerRestart, Start, Checkpoint, StopServing, FinishFit, Crash,
        CrashInCheckpoint, Down, vars, history
<1>3. m.token = n.token
  BY <1>2 DEF Receive, Apply
<1>. QED  BY <1>2, <1>3 DEF FenceInv, SameTask, Accepts, Fenced

\* The fence is an invariant: what would pass it is what its lease says.
THEOREM FenceHolds == Spec => []FenceInv
<1>1. Init => TypeOK /\ FenceInv
  BY InitType, FenceInit
<1>2. TypeOK /\ FenceInv /\ [Next]_vars => (TypeOK /\ FenceInv)'
  BY StepType, FenceStep
<1>. QED  BY <1>1, <1>2, PTL DEF Spec

\* Whatever happens to leases, connections and the coordinator, a path's n-th
\* update is a contribution leased for its n-th update.
THEOREM PathsAdvanceInSequence == Spec => AcceptedInSequence
<1>1. TypeOK /\ FenceInv /\ [Next]_vars =>
        [\A m \in InHand :
           m.token \in applied' \ applied => m.gen = completed[m.path]]_vars
  BY AppliedWasFenced
<1>. QED  BY <1>1, TypeCorrect, FenceHolds, PTL DEF Spec, AcceptedInSequence

\* No accepted contribution is more than StalenessBound updates old, counted
\* from the clock its worker was given.
THEOREM StalenessIsBounded == Spec => AcceptedWithinStaleness
<1>1. TypeOK /\ FenceInv /\ [Next]_vars =>
        [\A m \in InHand :
           m.token \in applied' \ applied => T - m.base <= StalenessBound]_vars
  BY AppliedWasFenced
<1>. QED  BY <1>1, TypeCorrect, FenceHolds, PTL DEF Spec, AcceptedWithinStaleness

-----------------------------------------------------------------------------
(* Error feedback.                                                         *)

\* The carry changes where a task is taken (to 0), where an ack commits it,
\* and where a worker restarts (to 0); the applied updates only grow.
LEMMA CarryStep == TypeOK /\ CarryOnlyFromApplied /\ [Next]_vars => CarryOnlyFromApplied'
<1> SUFFICES ASSUME TypeOK, CarryOnlyFromApplied, [Next]_vars
             PROVE  CarryOnlyFromApplied'
  OBVIOUS
<1>0. TypeJobs /\ carry \in [Worker -> [Path -> Weights]]
  BY TypeParts DEF TypeCaches
<1>1. ASSUME NEW w \in Worker, Request(w)
      PROVE  CarryOnlyFromApplied'
  <2>1. UNCHANGED applied
    BY <1>1 DEF Request
  <2>2. PICK p \in Path : TakeTask(w, p) \/ LoseTask(w)
    BY <1>1 DEF Request
  <2>. QED  BY <1>0, <2>1, <2>2 DEF TakeTask, LoseTask, CarryOnlyFromApplied
<1>2. ASSUME NEW w \in Worker, Submit(w)
      PROVE  CarryOnlyFromApplied'
  <2>1. job[w] \in Job /\ job[w].path \in Path
    BY <1>0, <1>2, HeldJob DEF Submit, TypeJobs, Job
  <2>2. Receive(job[w]) /\ applied \subseteq applied'
    BY <1>2 DEF Submit, Receive, Apply
  <2>3. \A c \in applied \cup {0} : CarryAfterAck(job[w], c) \in applied' \cup {0}
    BY <2>2 DEF CarryAfterAck, Receive, Apply
  <2>4. ASSUME NEW v \in Worker, NEW p \in Path
        PROVE  \/ carry'[v][p] = carry[v][p]
               \/ carry'[v][p] = CarryAfterAck(job[w], carry[v][p])
    BY <1>0, <1>2, <2>1 DEF Submit
  <2>. QED  BY <2>2, <2>3, <2>4 DEF CarryOnlyFromApplied
<1>3. ASSUME NEW m \in orphans, SubmitLate(m)
      PROVE  CarryOnlyFromApplied'
  BY <1>3 DEF SubmitLate, Receive, Apply, workers, CarryOnlyFromApplied
<1>4. ASSUME NEW w \in Worker, WorkerRestart(w)
      PROVE  CarryOnlyFromApplied'
  BY <1>0, <1>4 DEF WorkerRestart, history, CarryOnlyFromApplied
<1>5. CASE UNCHANGED <<carry, applied>>
  BY <1>5 DEF CarryOnlyFromApplied
<1>. QED
  BY <1>1, <1>2, <1>3, <1>4, <1>5
  DEF Next, LeaseTimesOut, Reclaim, Heartbeat, Train, Fail, Disconnect, Reconnect,
      Start, Checkpoint, StopServing, FinishFit, Crash, CrashInCheckpoint, Down,
      vars, history, workers

\* No residual of an update that was not applied is ever carried.
THEOREM CarriesAreLegitimate == Spec => []CarryOnlyFromApplied
<1>1. Init => CarryOnlyFromApplied
  BY DEF Init, CarryOnlyFromApplied
<1>. QED  BY <1>1, CarryStep, TypeCorrect, PTL DEF Spec

-----------------------------------------------------------------------------
(* The overshoot of the target.                                            *)

InFlight == {p \in Path : inflight[p] # "none"}

\* Sets of paths are finite, and no larger than all of them.
LEMMA PathsCount ==
  ASSUME NEW S \in SUBSET Path
  PROVE  IsFiniteSet(S) /\ Cardinality(S) \in Nat /\ Cardinality(S) <= NumPaths
<1>1. NumPaths \in Nat /\ NumPaths >= 1
  BY ConstantAssumption
<1>2. IsFiniteSet(0 .. NumPaths - 1) /\ Cardinality(0 .. NumPaths - 1) = NumPaths
  BY <1>1, FS_Interval
<1>. QED  BY <1>2, FS_Subset, FS_CardinalityType DEF Path

\* So are the paths in flight, before and after a step.
LEMMA InFlightCount ==
  /\ IsFiniteSet(InFlight) /\ Cardinality(InFlight) \in Nat
  /\ Cardinality(InFlight) <= NumPaths
  /\ IsFiniteSet(InFlight') /\ Cardinality(InFlight') \in Nat
  /\ Cardinality(InFlight') <= NumPaths
<1>1. InFlight \in SUBSET Path /\ InFlight' \in SUBSET Path
  BY DEF InFlight
<1>. QED  BY <1>1, PathsCount

\* What a step in which no lease is given may do: with the clock it ends a
\* lease, and a clock that stands still gains no lease.
LEMMA OvershootKept ==
  ASSUME TypeOK, OvershootBounded, phase # "down", target' = target,
         \/ T' = T /\ InFlight' \subseteq InFlight
         \/ T' = T + 1 /\ \E p \in InFlight : InFlight' = InFlight \ {p}
  PROVE  OvershootBounded'
<1>1. T \in Nat /\ target \in Nat /\ NumPaths \in Nat
  BY ConstantAssumption DEF TypeOK
<1>2. T + Cardinality(InFlight) < target + NumPaths
  BY DEF OvershootBounded, InFlight
<1>3. CASE T' = T /\ InFlight' \subseteq InFlight
  <2>1. Cardinality(InFlight') <= Cardinality(InFlight)
    BY <1>3, InFlightCount, FS_Subset
  <2>. QED  BY <1>1, <1>2, <1>3, <2>1, InFlightCount
            DEF OvershootBounded, InFlight
<1>4. ASSUME T' = T + 1, NEW p \in InFlight, InFlight' = InFlight \ {p}
      PROVE  OvershootBounded'
  <2>1. Cardinality(InFlight') = Cardinality(InFlight) - 1
    BY <1>4, InFlightCount, FS_RemoveElement
  <2>. QED  BY <1>1, <1>2, <1>4, <2>1, InFlightCount DEF OvershootBounded, InFlight
<1>. QED  BY <1>3, <1>4

\* A contribution received ends a lease when it moves the clock.
LEMMA OvershootReceive ==
  ASSUME TypeOK, OvershootBounded, NEW m \in Job, Receive(m)
  PROVE  OvershootBounded'
<1>1. TypeLeases /\ m.path \in Path /\ phase # "down" /\ target' = target
  BY TypeParts DEF Receive, fitting, Job
<1>2. CASE Fenced(m)
  <2>1. m.path \in InFlight /\ InFlight' = InFlight \ {m.path}
    BY <1>1, <1>2 DEF Receive, FreeLease, Fenced, TypeLeases, InFlight
  <2>2. T' = T \/ T' = T + 1
    BY DEF Receive, Apply, progress
  <2>. QED  BY <1>1, <2>1, <2>2, OvershootKept
<1>3. CASE ~Fenced(m)
  <2>1. T' = T /\ InFlight' = InFlight
    BY <1>3 DEF Receive, Accepts, progress, leases, InFlight
  <2>. QED  BY <1>1, <2>1, OvershootKept
<1>. QED  BY <1>2, <1>3

\* Leases are given only below the target, and then to at most every path.
LEMMA OvershootStep == TypeOK /\ OvershootBounded /\ [Next]_vars => OvershootBounded'
<1> SUFFICES ASSUME TypeOK, OvershootBounded, [Next]_vars
             PROVE  OvershootBounded'
  OBVIOUS
<1>0. /\ TypeJobs /\ TypeLeases
      /\ T \in Nat /\ target \in Nat /\ NumPaths \in Nat \ {0} /\ Generations \in Nat
  BY TypeParts, ConstantAssumption DEF TypeOK
<1>1. ASSUME NEW w \in Worker, Request(w)
      PROVE  OvershootBounded'
  <2>1. T' = T /\ target' = target /\ T < target
    BY <1>1 DEF Request, fitting, progress
  <2>. QED  BY <1>0, <2>1, InFlightCount DEF OvershootBounded, InFlight
<1>2. ASSUME NEW w \in Worker, Submit(w)
      PROVE  OvershootBounded'
  <2>1. job[w] \in Job
    BY <1>0, <1>2, HeldJob DEF Submit, TypeJobs
  <2>. QED  BY <1>2, <2>1, OvershootReceive DEF Submit
<1>3. ASSUME NEW m \in orphans, SubmitLate(m)
      PROVE  OvershootBounded'
  BY <1>0, <1>3, OvershootReceive DEF SubmitLate, TypeJobs
<1>4. ASSUME NEW w \in Worker, Fail(w)
      PROVE  OvershootBounded'
  <2>1. CASE phase = "down"
    BY <2>1, <1>4 DEF Fail, fitting, OvershootBounded
  <2>2. CASE phase # "down"
    <3>1. InFlight' \subseteq InFlight
      BY <1>0, <1>4 DEF Fail, FreeLease, leases, TypeLeases, InFlight
    <3>. QED  BY <1>4, <2>2, <3>1, OvershootKept DEF Fail, fitting, progress
  <2>. QED  BY <2>1, <2>2
<1>5. ASSUME NEW p \in Path, LeaseTimesOut(p)
      PROVE  OvershootBounded'
  <2>1. InFlight' \subseteq InFlight
    BY <1>0, <1>5 DEF LeaseTimesOut, TypeLeases, InFlight
  <2>. QED  BY <1>5, <2>1, OvershootKept DEF LeaseTimesOut, fitting, progress
<1>6. CASE Reclaim
  <2>1. InFlight' \subseteq InFlight
    BY <1>0, <1>6 DEF Reclaim, Reclaimed, Expired, TypeLeases, InFlight
  <2>. QED  BY <1>6, <2>1, OvershootKept DEF Reclaim, fitting, progress
<1>7. ASSUME NEW w \in Worker, Heartbeat(w)
      PROVE  OvershootBounded'
  <2>1. InFlight' \subseteq InFlight
    BY <1>0, <1>7 DEF Heartbeat, Fenced, TypeLeases, InFlight
  <2>. QED  BY <1>7, <2>1, OvershootKept DEF Heartbeat, fitting, progress
<1>8. CASE Start
  <2>1. InFlight' = {}
    BY <1>8 DEF Start, NoLeases, InFlight
  <2>2. Cardinality(InFlight') = 0
    BY <2>1, FS_EmptySet
  <2>3. T' \in Nat /\ target' = T' + Generations * NumPaths
    BY <1>8, StepType DEF Start, StartFrom, TypeOK, Next
  <2>4. Generations * NumPaths \in Nat
    BY <1>0
  <2>5. \A t, u \in Nat : t + 0 < t + u + NumPaths
    BY <1>0
  <2>6. T' + 0 < T' + Generations * NumPaths + NumPaths
    BY <2>3, <2>4, <2>5
  <2>. QED  BY <2>2, <2>3, <2>6 DEF OvershootBounded, InFlight
<1>9. CASE Checkpoint \/ StopServing \/ FinishFit
  BY <1>9 DEF Checkpoint, StopServing, FinishFit, progress, leases, OvershootBounded
<1>10. CASE Down
  BY <1>10 DEF Down, OvershootBounded
<1>11. CASE UNCHANGED server
  BY <1>11 DEF server, fitting, progress, leases, OvershootBounded
<1>. QED
  BY <1>1, <1>2, <1>3, <1>4, <1>5, <1>6, <1>7, <1>8, <1>9, <1>10, <1>11
  DEF Next, Train, Disconnect, Reconnect, WorkerRestart, Crash, CrashInCheckpoint, vars

\* With the leases still out, the clock stays within one update per path of
\* the target.
THEOREM OvershootIsBounded == Spec => []OvershootBounded
<1>1. Init => OvershootBounded
  BY DEF Init, OvershootBounded
<1>. QED  BY <1>1, OvershootStep, TypeCorrect, PTL DEF Spec

-----------------------------------------------------------------------------
(* The warm caches.  CacheFresh compares versions for equality, so that it   *)
(* takes more than itself: a version a worker holds was given out by this    *)
(* coordinator, which never goes back to it before the first crash.          *)

Fresh ==
  \A w \in Worker, k \in Shared :
    /\ have[w][k] <= versions[k]
    /\ have[w][k] = versions[k] => cache[w][k] = bank[k]

\* Before its first start the coordinator has nothing, on disk or in memory.
Pristine ==
  /\ \A n \in Weights : ~disk[n].meta
  /\ versions = [k \in Shared |-> 0]
  /\ bank = [k \in Shared |-> 0]

FreshInv == crashes = 0 => Fresh /\ (phase = "down" => Pristine)

\* A task taken in leaves the worker with current weights of the path.
LEMMA FreshTask ==
  ASSUME TypeOK, Fresh, NEW w \in Worker, NEW p \in Path, TakeTask(w, p),
         UNCHANGED <<versions, bank>>
  PROVE  Fresh'
<1>1. TypeCaches /\ TypeProgress
  BY TypeParts
<1>2. ASSUME NEW v \in Worker, NEW k \in Shared
      PROVE  /\ have'[v][k] <= versions'[k]
             /\ have'[v][k] = versions'[k] => cache'[v][k] = bank'[k]
  <2>1. CASE v = w
    <3>1. have'[v][k] = IF k \in Uses[p] THEN versions[k] ELSE have[v][k]
      BY <1>1, <2>1 DEF TakeTask, HaveAfterTask, TypeCaches
    <3>2. cache'[v][k] = IF k \in Uses[p] /\ have[v][k] # versions[k]
                         THEN bank[k] ELSE cache[v][k]
      BY <1>1, <2>1 DEF TakeTask, TypeCaches
    <3>3. versions[k] \in Nat
      BY <1>1 DEF TypeProgress
    <3>. QED  BY <3>1, <3>2, <3>3 DEF Fresh
  <2>2. CASE v # w
    <3>1. have'[v] = have[v] /\ cache'[v] = cache[v]
      BY <1>1, <2>2 DEF TakeTask, TypeCaches
    <3>. QED  BY <3>1 DEF Fresh
  <2>. QED  BY <2>1, <2>2
<1>. QED  BY <1>2 DEF Fresh

\* An outer step moves the version of what it changes past every cache.
LEMMA FreshReceive ==
  ASSUME TypeOK, Fresh, NEW m \in Job, Receive(m), UNCHANGED <<have, cache>>
  PROVE  Fresh'
<1>1. TypeCaches /\ TypeProgress
  BY TypeParts
<1>2. CASE Apply(m)
  <2>1. ASSUME NEW w \in Worker, NEW k \in Shared
        PROVE  /\ have[w][k] <= versions'[k]
               /\ have[w][k] = versions'[k] => cache[w][k] = bank'[k]
    <3>1. have[w][k] \in Int /\ versions[k] \in Nat
      BY <1>1 DEF TypeCaches, TypeProgress
    <3>2. CASE k \in Written(m, Uses[m.path])
      <4>1. versions'[k] = versions[k] + 1
        BY <1>2, <3>2 DEF Apply
      <4>. QED  BY <3>1, <4>1 DEF Fresh
    <3>3. CASE k \notin Written(m, Uses[m.path])
      <4>1. versions'[k] = versions[k] /\ bank'[k] = bank[k]
        BY <1>2, <3>3 DEF Apply
      <4>. QED  BY <4>1 DEF Fresh
    <3>. QED  BY <3>2, <3>3
  <2>. QED  BY <2>1 DEF Fresh
<1>3. CASE UNCHANGED <<progress, applied>>
  BY <1>3 DEF Fresh, progress
<1>. QED  BY <1>2, <1>3 DEF Receive

\* Every step keeps the caches fresh, as long as the coordinator never crashed.
LEMMA FreshStep == TypeOK /\ FreshInv /\ [Next]_vars => FreshInv'
<1> SUFFICES ASSUME TypeOK, FreshInv, [Next]_vars, crashes' = 0
             PROVE  Fresh' /\ (phase' = "down" => Pristine')
  BY DEF FreshInv
<1>0. TypeCaches /\ TypeJobs /\ TypeProgress /\ crashes \in Nat
  BY TypeParts DEF TypeHistory
<1>1. CASE Down
  BY <1>0, <1>1 DEF Down
<1>2. ASSUME ~Down
      PROVE  Fresh' /\ (phase' = "down" => Pristine')
  <2>0. Fresh /\ (phase = "down" => Pristine)
    BY <1>2
    DEF FreshInv, Next, LeaseTimesOut, Reclaim, Heartbeat, Request, Train, Fail,
        Submit, SubmitLate, Receive, Disconnect, Reconnect, WorkerRestart, Start,
        Checkpoint, StopServing, FinishFit, Crash, CrashInCheckpoint, vars, history
  <2>1. ASSUME NEW w \in Worker, Request(w)
        PROVE  Fresh' /\ (phase' = "down" => Pristine')
    <3>1. phase' # "down" /\ UNCHANGED <<versions, bank>>
      BY <2>1 DEF Request, fitting, progress
    <3>2. PICK p \in Path : TakeTask(w, p) \/ LoseTask(w)
      BY <2>1 DEF Request
    <3>3. CASE LoseTask(w)
      BY <2>0, <3>1, <3>3 DEF LoseTask, Fresh
    <3>. QED  BY <2>0, <3>1, <3>2, <3>3, FreshTask
  <2>2. ASSUME NEW m \in Job, Receive(m), UNCHANGED <<have, cache>>
        PROVE  Fresh' /\ (phase' = "down" => Pristine')
    BY <2>0, <2>2, FreshReceive DEF Receive, fitting
  <2>3. ASSUME NEW w \in Worker, WorkerRestart(w)
        PROVE  Fresh' /\ (phase' = "down" => Pristine')
    <3>1. UNCHANGED <<phase, versions, bank, disk>>
      BY <2>3 DEF WorkerRestart, server, fitting, progress
    <3>2. ASSUME NEW v \in Worker, NEW k \in Shared
          PROVE  /\ have'[v][k] <= versions[k]
                 /\ have'[v][k] = versions[k] => cache'[v][k] = bank[k]
      <4>1. CASE v = w
        <5>1. have'[v][k] = -1 /\ versions[k] \in Nat
          BY <1>0, <2>3, <4>1 DEF WorkerRestart, TypeCaches, TypeProgress
        <5>. QED  BY <5>1
      <4>2. CASE v # w
        <5>1. have'[v] = have[v] /\ cache'[v] = cache[v]
          BY <1>0, <2>3, <4>2 DEF WorkerRestart, TypeCaches
        <5>. QED  BY <2>0, <5>1 DEF Fresh
      <4>. QED  BY <4>1, <4>2
    <3>. QED  BY <2>0, <3>1, <3>2 DEF Fresh, Pristine
  <2>4. CASE Start
    <3>1. Pristine /\ Restorable = {}
      <4>1. Pristine
        BY <2>0, <2>4 DEF Start
      <4>2. DOMAIN disk = Weights
        BY TypeParts DEF TypeDisk
      <4>. QED  BY <4>1, <4>2 DEF Pristine, Restorable
    <3>2. StartFrom(NoDirectory)
      BY <2>4, <3>1 DEF Start
    <3>3. bank' = bank /\ versions' = versions
      BY <3>1, <3>2 DEF StartFrom, NoDirectory, ExtrasOf, Pristine
    <3>. QED  BY <2>0, <2>4, <3>3 DEF Start, workers, Fresh
  <2>5. CASE /\ UNCHANGED <<have, cache, versions, bank>>
             /\ phase' # "down" \/ UNCHANGED <<phase, disk>>
    BY <2>0, <2>5 DEF Fresh, Pristine
  <2>6. ASSUME NEW w \in Worker, Submit(w)
        PROVE  Fresh' /\ (phase' = "down" => Pristine')
    BY <1>0, <2>2, <2>6, HeldJob DEF Submit, TypeJobs
  <2>7. ASSUME NEW m \in orphans, SubmitLate(m)
        PROVE  Fresh' /\ (phase' = "down" => Pristine')
    BY <1>0, <2>2, <2>7 DEF SubmitLate, TypeJobs, workers
  <2>. QED
    BY <1>2, <2>1, <2>3, <2>4, <2>5, <2>6, <2>7
    DEF Next, LeaseTimesOut, Reclaim, Heartbeat, Train, Fail, Disconnect, Reconnect,
        Checkpoint, StopServing, FinishFit, Crash, CrashInCheckpoint, vars, server,
        workers, fitting, progress
<1>. QED  BY <1>1, <1>2

\* Until the coordinator first crashes, leaving a module out of a task because
\* the worker reports its version leaves out nothing the worker has not got.
THEOREM CachesAreFresh == Spec => []CacheFresh
<1>1. Init => FreshInv
  BY DEF Init, FreshInv, Fresh, Pristine, NoDirectory
<1>2. FreshInv => CacheFresh
  BY DEF FreshInv, Fresh, CacheFresh
<1>. QED  BY <1>1, <1>2, FreshStep, TypeCorrect, PTL DEF Spec
-----------------------------------------------------------------------------
(* Sums over a finite set.  FoldFunction is a recursive function over the    *)
(* subsets of the domain; that there is one, and what it adds up to, is by   *)
(* the smallest subset on which it would go wrong.                           *)

\* A set of numbers that is not empty has a least element.
LEMMA LeastNumber ==
  ASSUME NEW N \in SUBSET Nat, N # {}
  PROVE  \E n \in N : \A m \in N : n <= m
<1>. DEFINE R == OpToRel(<, Nat)
<1>1. PICK x \in N : \A y \in N : <<y, x>> \notin R
  BY NatLessThanWellFounded, WFMin
<1>2. ASSUME NEW y \in N PROVE y < x => <<y, x>> \in R
  <2>1. x \in Nat /\ y \in Nat
    OBVIOUS
  <2>. QED  BY <2>1, SMTT(20) DEF OpToRel
<1>. HIDE DEF R
<1>3. ASSUME NEW y \in N PROVE x <= y
  <2>1. x \in Nat /\ y \in Nat
    OBVIOUS
  <2>2. <<y, x>> \notin R
    BY <1>1
  <2>3. ~(y < x)
    BY <1>2, <2>2
  <2>. QED  BY <2>1, <2>3
<1>. QED  BY <1>3

\* Among the subsets of a finite set there is one that is no other with an element more.
LEMMA LeastSubset ==
  ASSUME NEW S, IsFiniteSet(S), NEW B \in SUBSET SUBSET S, B # {}
  PROVE  \E s \in B : \A x \in s : s \ {x} \notin B
<1>. DEFINE N == {Cardinality(s) : s \in B}
<1>0. \A s \in B : IsFiniteSet(s) /\ Cardinality(s) \in Nat
  BY FS_Subset, FS_CardinalityType
<1>1. N \in SUBSET Nat /\ N # {}
  BY <1>0
<1>2. PICK n \in N : \A m \in N : n <= m
  <2>. HIDE DEF N
  <2>. QED  BY <1>1, LeastNumber
<1>3. PICK s \in B : Cardinality(s) = n
  OBVIOUS
<1>4. ASSUME NEW x \in s, s \ {x} \in B PROVE FALSE
  <2>1. Cardinality(s \ {x}) = Cardinality(s) - 1
    BY <1>0, FS_RemoveElement
  <2>. QED  BY <1>0, <1>2, <1>3, <1>4, <2>1
<1>. QED  BY <1>3, <1>4

\* What the recursive function of a sum satisfies: on all subsets, and on those
\* of at most n elements.
Pick(s) == CHOOSE x \in s : TRUE

Summand(g, f, s) == IF s = {} THEN 0 ELSE f[Pick(s)] + g[s \ {Pick(s)}]

SumsUpTo(g, S, f, n) == \A s \in SUBSET S : Cardinality(s) <= n => g[s] = Summand(g, f, s)

Sums(g, S, f) == g = [s \in SUBSET S |-> Summand(g, f, s)]

Total(f) == FoldFunction(+, 0, f)

\* The table of the sums over all subsets.
SumTable(g, S, f) ==
  /\ g \in [SUBSET S -> Nat]
  /\ \A s \in SUBSET S : g[s] = Summand(g, f, s)

\* The element a sum goes on with is one of the set.
LEMMA PickIn ==
  ASSUME NEW S, NEW s \in SUBSET S, s # {}
  PROVE  Pick(s) \in s /\ Pick(s) \in S /\ s \ {Pick(s)} \in SUBSET S
BY DEF Pick

\* There is such a function: by the number of elements it is right up to.
LEMMA SumsExist ==
  ASSUME NEW S, IsFiniteSet(S), NEW f \in [S -> Nat]
  PROVE  \E g \in [SUBSET S -> Nat] : Sums(g, S, f)
<1>. DEFINE Def(n) == \E g \in [SUBSET S -> Nat] : SumsUpTo(g, S, f, n)
<1>0. \A s \in SUBSET S : /\ IsFiniteSet(s) /\ Cardinality(s) \in Nat
                         /\ Cardinality(s) <= Cardinality(S)
  BY FS_Subset, FS_CardinalityType
<1>1. Def(0)
  <2>1. \A s \in SUBSET S : Cardinality(s) <= 0 => s = {}
    BY <1>0, FS_EmptySet
  <2>. WITNESS [s \in SUBSET S |-> 0] \in [SUBSET S -> Nat]
  <2>. QED  BY <2>1 DEF SumsUpTo, Summand
<1>2. ASSUME NEW n \in Nat, Def(n)
      PROVE  Def(n + 1)
  <2>1. PICK g \in [SUBSET S -> Nat] : SumsUpTo(g, S, f, n)
    BY <1>2
  <2>. DEFINE h == [s \in SUBSET S |-> Summand(g, f, s)]
  <2>2. h \in [SUBSET S -> Nat]
    <3>1. ASSUME NEW s \in SUBSET S PROVE Summand(g, f, s) \in Nat
      BY PickIn DEF Summand
    <3>. QED  BY <3>1
  <2>3. ASSUME NEW s \in SUBSET S, Cardinality(s) <= n PROVE h[s] = g[s]
    BY <2>1, <2>3 DEF SumsUpTo
  <2>4. ASSUME NEW s \in SUBSET S, Cardinality(s) <= n + 1
        PROVE  h[s] = Summand(h, f, s)
    <3>1. CASE s = {}
      BY <3>1 DEF Summand
    <3>2. CASE s # {}
      <4>1. s \ {Pick(s)} \in SUBSET S /\ Pick(s) \in s
        BY <3>2, PickIn
      <4>2. Cardinality(s \ {Pick(s)}) = Cardinality(s) - 1 /\ Cardinality(s) \in Nat
        BY <1>0, <4>1, FS_RemoveElement
      <4>3. Cardinality(s \ {Pick(s)}) <= n
        BY <2>4, <4>2
      <4>4. h[s \ {Pick(s)}] = g[s \ {Pick(s)}]
        BY <2>3, <4>1, <4>3
      <4>5. h[s] = Summand(g, f, s)
        OBVIOUS
      <4>. HIDE DEF h
      <4>. QED  BY <3>2, <4>4, <4>5 DEF Summand
    <3>. QED  BY <3>1, <3>2
  <2>5. SumsUpTo(h, S, f, n + 1)
    BY <2>4 DEF SumsUpTo
  <2>. QED  BY <2>2, <2>5
<1>3. \A n \in Nat : Def(n)
  <2>. SUFFICES ASSUME NEW k \in Nat, ~Def(k) PROVE FALSE
    OBVIOUS
  <2>. DEFINE Bad == {n \in Nat : ~Def(n)}
  <2>. HIDE DEF Def
  <2>1. PICK n \in Bad : \A m \in Bad : n <= m
    BY LeastNumber
  <2>2. n # 0 /\ n - 1 \in Nat /\ Def(n - 1)
    BY <2>1, <1>1
  <2>3. Def(n - 1 + 1)
    BY <2>2, <1>2
  <2>. QED  BY <2>1, <2>3
<1>4. PICK g \in [SUBSET S -> Nat] : SumsUpTo(g, S, f, Cardinality(S))
  BY <1>3, <1>0
<1>5. \A s \in SUBSET S : g[s] = Summand(g, f, s)
  BY <1>0, <1>4 DEF SumsUpTo
<1>. QED  BY <1>5 DEF Sums

\* Every such function has numbers as values.
LEMMA SumsAreNumbers ==
  ASSUME NEW S, IsFiniteSet(S), NEW f \in [S -> Nat], NEW g, Sums(g, S, f)
  PROVE  g \in [SUBSET S -> Nat]
<1>. DEFINE B == {s \in SUBSET S : g[s] \notin Nat}
<1>1. \A s \in SUBSET S : g[s] = Summand(g, f, s)
  BY DEF Sums
<1>2. ASSUME B # {} PROVE FALSE
  <2>1. PICK s \in B : \A x \in s : s \ {x} \notin B
    <3>1. B \in SUBSET SUBSET S
      OBVIOUS
    <3>. HIDE DEF B
    <3>. QED  BY <1>2, <3>1, LeastSubset
  <2>2. g[s] \notin Nat /\ g[s] = Summand(g, f, s)
    BY <1>1 DEF SumTable
  <2>3. s # {} /\ s \in SUBSET S
    BY <2>2 DEF Summand
  <2>4. Pick(s) \in s /\ Pick(s) \in S /\ s \ {Pick(s)} \in SUBSET S
    BY <2>3, PickIn
  <2>5. g[s \ {Pick(s)}] \in Nat /\ f[Pick(s)] \in Nat
    BY <2>1, <2>4
  <2>. QED  BY <2>2, <2>3, <2>5 DEF Summand
<1>3. \A s \in SUBSET S : g[s] \in Nat
  BY <1>2
<1>. QED  BY <1>3 DEF Sums

\* FoldFunction is that function.
LEMMA FoldIsSum ==
  ASSUME NEW S, IsFiniteSet(S), NEW f \in [S -> Nat]
  PROVE  \E g : SumTable(g, S, f) /\ Total(f) = g[S]
<1>1. \E g : Sums(g, S, f)
  BY SumsExist
<1>2. Total(f) = (CHOOSE g : Sums(g, S, f))[S]
  BY DEF Total, FoldFunction, FoldFunctionOnSet, MapThenFoldSet, Sums, Summand, Pick
<1>3. Sums(CHOOSE g : Sums(g, S, f), S, f)
  BY <1>1
<1>4. PICK g : Total(f) = g[S] /\ Sums(g, S, f)
  BY <1>2, <1>3
<1>5. \A s \in SUBSET S : g[s] = Summand(g, f, s)
  BY <1>4 DEF Sums
<1>. QED  BY <1>4, <1>5, SumsAreNumbers DEF SumTable

\* A sum of zeros is zero.
LEMMA SumOfZeros ==
  ASSUME NEW S, IsFiniteSet(S)
  PROVE  Total([x \in S |-> 0]) = 0
<1>. DEFINE f == [x \in S |-> 0]
<1>0. f \in [S -> Nat] /\ \A x \in S : f[x] = 0
  OBVIOUS
<1>. HIDE DEF f
<1>1. PICK g : SumTable(g, S, f) /\ Total(f) = g[S]
  BY <1>0, FoldIsSum
<1>. DEFINE B == {s \in SUBSET S : g[s] # 0}
<1>2. ASSUME B # {} PROVE FALSE
  <2>1. PICK s \in B : \A x \in s : s \ {x} \notin B
    <3>1. B \in SUBSET SUBSET S
      OBVIOUS
    <3>. HIDE DEF B
    <3>. QED  BY <1>2, <3>1, LeastSubset
  <2>2. g[s] # 0 /\ g[s] = Summand(g, f, s)
    BY <1>1 DEF SumTable
  <2>3. s # {} /\ s \in SUBSET S
    BY <2>2 DEF Summand
  <2>4. Pick(s) \in s /\ Pick(s) \in S /\ s \ {Pick(s)} \in SUBSET S
    BY <2>3, PickIn
  <2>5. g[s \ {Pick(s)}] = 0 /\ f[Pick(s)] = 0
    BY <1>0, <2>1, <2>4
  <2>. QED  BY <2>2, <2>3, <2>5 DEF Summand
<1>3. g[S] = 0
  BY <1>2
<1>. QED  BY <1>1, <1>3 DEF f

\* Adding one to a term adds one to the sum.
LEMMA SumStep ==
  ASSUME NEW S, IsFiniteSet(S), NEW f \in [S -> Nat], NEW y \in S
  PROVE  Total(f) \in Nat /\ Total([f EXCEPT ![y] = @ + 1]) = Total(f) + 1
<1>. DEFINE h == [f EXCEPT ![y] = @ + 1]
            more(s) == IF y \in s THEN 1 ELSE 0
<1>0. h \in [S -> Nat] /\ \A x \in S : h[x] = f[x] + (IF x = y THEN 1 ELSE 0)
  OBVIOUS
<1>. HIDE DEF h
<1>1. PICK g : SumTable(g, S, f) /\ Total(f) = g[S]
  BY FoldIsSum
<1>2. PICK k : SumTable(k, S, h) /\ Total(h) = k[S]
  BY <1>0, FoldIsSum
<1>. DEFINE B == {s \in SUBSET S : k[s] # g[s] + more(s)}
<1>3. ASSUME B # {} PROVE FALSE
  <2>1. PICK s \in B : \A x \in s : s \ {x} \notin B
    <3>1. B \in SUBSET SUBSET S
      OBVIOUS
    <3>. HIDE DEF B
    <3>. QED  BY <1>3, <3>1, LeastSubset
  <2>2. s \in SUBSET S /\ k[s] # g[s] + more(s)
    OBVIOUS
  <2>3. g[s] = Summand(g, f, s) /\ k[s] = Summand(k, h, s)
    BY <1>1, <1>2, <2>2 DEF SumTable
  <2>4. s # {}
    BY <2>2, <2>3 DEF Summand
  <2>. DEFINE x == Pick(s)
  <2>5. x \in s /\ x \in S /\ s \ {x} \in SUBSET S
    BY <2>2, <2>4, PickIn
  <2>6. k[s \ {x}] = g[s \ {x}] + more(s \ {x})
    BY <2>1, <2>5
  <2>7. k[s] = h[x] + k[s \ {x}] /\ g[s] = f[x] + g[s \ {x}]
    BY <2>3, <2>4 DEF Summand
  <2>. HIDE DEF x
  <2>8. more(s) = more(s \ {x}) + (IF x = y THEN 1 ELSE 0)
    BY <2>5
  <2>9. f[x] \in Nat /\ g[s \ {x}] \in Nat
    BY <1>1, <2>5 DEF SumTable
  <2>10. h[x] = f[x] + (IF x = y THEN 1 ELSE 0)
    BY <2>5, <1>0
  <2>11. more(s \ {x}) \in Nat
    OBVIOUS
  <2>. HIDE DEF more
  <2>. QED  BY <2>2, <2>6, <2>7, <2>8, <2>9, <2>10, <2>11
<1>4. k[S] = g[S] + 1
  BY <1>3
<1>5. Total(f) \in Nat
  BY <1>1 DEF SumTable
<1>. QED  BY <1>1, <1>2, <1>4, <1>5 DEF h

-----------------------------------------------------------------------------
(* The clock.                                                                *)

\* A clock with the counts it belongs to; in the engine, and in the extra.pt of
\* every directory, whole or torn.
ClockInv ==
  /\ T = Total(completed)
  /\ \A n \in Weights : \A e \in disk[n].extra : e.T = Total(e.completed)

\* A step that changes neither the clock, the counts nor the disk.
LEMMA ClockParts ==
  ASSUME UNCHANGED <<T, completed, disk>>, ClockInv
  PROVE  ClockInv'
BY DEF ClockInv

\* There are finitely many paths.
LEMMA PathFinite == IsFiniteSet(Path)
<1>1. Path \in SUBSET Path
  OBVIOUS
<1>. QED  BY <1>1, PathsCount

\* No path, no update: what a fresh or unreadable directory gives.
LEMMA ClockOfZeros == Total([p \in Path |-> 0]) = 0
BY PathFinite, SumOfZeros

\* A contribution moves the clock and one count, or neither.
LEMMA ClockReceive ==
  ASSUME TypeOK, ClockInv, NEW m \in Job, Receive(m)
  PROVE  ClockInv'
<1>1. UNCHANGED disk
  BY DEF Receive
<1>2. CASE Apply(m)
  <2>1. m.path \in Path /\ completed \in [Path -> Nat]
    BY DEF Job, TypeOK
  <2>2. Total(completed') = Total(completed) + 1
    BY <1>2, <2>1, PathFinite, SumStep DEF Apply
  <2>3. Total(completed)' = Total(completed')
    OBVIOUS
  <2>. QED  BY <1>1, <1>2, <2>2, <2>3 DEF ClockInv, Apply
<1>3. CASE UNCHANGED progress
  BY <1>1, <1>3, ClockParts DEF progress
<1>. QED  BY <1>2, <1>3 DEF Receive

\* Start restores a clock with the counts it was saved with; a torn directory
\* keeps those of the save before.
LEMMA ClockStep == TypeOK /\ ClockInv /\ [Next]_vars => ClockInv'
<1>. SUFFICES ASSUME TypeOK, ClockInv, [Next]_vars
              PROVE  ClockInv'
  OBVIOUS
<1>0. TypeJobs /\ disk \in [Weights -> Directory]
  BY TypeParts DEF TypeDisk
<1>1. Total(completed)' = Total(completed')
  OBVIOUS
<1>2. ASSUME NEW w \in Worker, Submit(w)
      PROVE  ClockInv'
  <2>1. job[w] \in Job
    BY <1>0, <1>2, HeldJob DEF Submit, TypeJobs
  <2>. QED  BY <1>2, <2>1, ClockReceive DEF Submit
<1>3. ASSUME NEW m \in orphans, SubmitLate(m)
      PROVE  ClockInv'
  BY <1>0, <1>3, ClockReceive DEF SubmitLate, TypeJobs
<1>4. ASSUME NEW d \in Directory, StartFrom(d), UNCHANGED disk,
             \A e \in d.extra : e.T = Total(e.completed)
      PROVE  ClockInv'
  <2>1. T' = Total(completed')
    BY <1>4, ClockOfZeros DEF StartFrom, ExtrasOf
  <2>. QED  BY <1>1, <1>4, <2>1 DEF ClockInv
<1>5. CASE Start
  <2>1. NoDirectory.extra = {}
    BY DEF NoDirectory
  <2>2. \A n \in Restorable : n \in Weights /\ disk[n] \in Directory
    BY <1>0 DEF Restorable
  <2>3. UNCHANGED disk
    BY <1>5 DEF Start
  <2>4. CASE StartFrom(NoDirectory)
    BY <1>4, <2>1, <2>3, <2>4, NoDirectoryType
  <2>5. ASSUME NEW n \in Restorable, StartFrom(disk[n]) PROVE ClockInv'
    BY <1>4, <2>2, <2>3, <2>5 DEF ClockInv
  <2>. QED  BY <1>5, <2>4, <2>5 DEF Start
<1>6. ASSUME disk' = DiskAfterCheckpoint
      PROVE  \A n \in Weights : \A e \in disk'[n].extra : e.T = Total(e.completed)
  BY <1>0, <1>6 DEF DiskAfterCheckpoint, ClockInv
<1>7. ASSUME disk' = DiskAfterCheckpoint \/ disk' = disk, UNCHANGED progress
      PROVE  ClockInv'
  BY <1>1, <1>6, <1>7 DEF ClockInv, progress
<1>8. CASE Checkpoint \/ FinishFit
  BY <1>7, <1>8 DEF Checkpoint, FinishFit
<1>9. CASE Crash \/ \E metaWritten \in BOOLEAN : CrashInCheckpoint(metaWritten)
  <2>1. T' = Total(completed')
    BY <1>9, ClockOfZeros DEF Crash, CrashInCheckpoint, Down
  <2>2. \A n \in Weights : disk'[n].extra = disk[n].extra
    BY <1>0, <1>9 DEF Crash, CrashInCheckpoint, DiskTornBy
  <2>. QED  BY <1>1, <2>1, <2>2 DEF ClockInv
<1>10. CASE UNCHANGED <<T, completed, disk>>
  BY <1>10, ClockParts
<1>. QED
  BY <1>2, <1>3, <1>5, <1>8, <1>9, <1>10
  DEF Next, LeaseTimesOut, Reclaim, Heartbeat, Request, Train, Fail, Disconnect, Reconnect,
      WorkerRestart, StopServing, vars, server, progress

\* Through rejections, reclaims, crashes and torn checkpoints, the clock is
\* the number of updates of all paths.
THEOREM ClockCounts == Spec => []ClockCountsCompletions
<1>1. Init => ClockInv
  BY ClockOfZeros DEF Init, ClockInv, NoDirectory
<1>2. ClockInv => ClockCountsCompletions
  BY DEF ClockInv, ClockCountsCompletions, Total
<1>. QED  BY <1>1, <1>2, ClockStep, TypeCorrect, PTL DEF Spec

=============================================================================
