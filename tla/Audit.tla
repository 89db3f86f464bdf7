------------------------------- MODULE Audit -------------------------------
(***************************************************************************)
(* Redundant execution (schedule/sharded.py: Scheduler._next_task,         *)
(* _find_check_locked .. _commit; ParameterServer._private_proposal): the  *)
(* scheduler has sampled tasks run again, from the base their worker       *)
(* pinned, by workers it has no path for, compares the digests and debits  *)
(* who disagrees with a majority; an owner replaces a private module only  *)
(* by a state that enough of these workers computed.                       *)
(*                                                                         *)
(* All that run one task from its pinned base compute the same, but for    *)
(* workers with faulty hardware, whose result is their own.  A digest is   *)
(* "same", or the name of such a worker.  Leases are fenced as in Sharded; *)
(* here only which worker holds one matters.  Deadlines pass at any time.  *)
(* Parking, rate limits, reputation's decay and restarts of the scheduler  *)
(* (it forgets its audits) are left out.                                   *)
(***************************************************************************)
EXTENDS Integers, FiniteSets, Sequences, FiniteSetsExt, SequencesExt

CONSTANTS
  Path,
  PrivatePath,    \* the paths with a private module
  PoisonedPath,   \* the paths whose data raises the loss of the trusted probe
  Worker,
  Faulty,         \* the workers whose hardware computes something else
  Redundancy,     \* runs of an audited task
  PrivateQuorum,  \* proposals that must agree
  ProbeQuorum,    \* reports of harm that flag a task, 0: no probe is shipped
  MaxProposals,   \* _PRIVATE_PROPOSAL_MAX
  Target,         \* _target: the commits, of all paths, that end the run
  MaxLost,        \* bound on the number of reclaimed leases and lost workers
  None            \* a model value

ASSUME ConstantAssumption ==
  /\ PrivatePath \subseteq Path /\ PoisonedPath \subseteq Path /\ Faulty \subseteq Worker
  /\ Redundancy \in Nat /\ Redundancy >= 2
  /\ PrivateQuorum \in 2 .. Redundancy
  /\ ProbeQuorum \in 0 .. Redundancy - 1
  /\ {MaxProposals, Target, MaxLost} \subseteq Nat
  /\ "same" \notin Worker /\ None \notin Worker \cup Path \cup {"same"}

VARIABLES
  completed, \* path -> _completed
  holder,    \* path -> the worker whose lease is current, or None
  audits,    \* _audits: a set of records
  debited,   \* the workers whose reputation was ever debited
  flagged,   \* the tasks flagged by the probe screen
  worker,    \* worker -> what it is doing
  proposals, \* path -> _private_proposals of its private key, oldest first
  private,   \* path -> the state last applied to its private module, or None
  lost       \* the number of reclaimed leases and lost workers

vars == <<completed, holder, audits, debited, flagged, worker, proposals, private, lost>>
scheduler == <<completed, holder, audits, debited, flagged>>
owner == <<proposals, private>>

-----------------------------------------------------------------------------
Generation == 0 .. Target - 1
Digest == {"same"} \cup Faulty
Result(w) == IF w \in Faulty THEN w ELSE "same"

\* A digest a worker reports, and whether it says that the update is harmful.
Check == [peer : Worker, digest : Digest \cup {None}, harm : BOOLEAN]

Task == [path : Path, gen : Nat]
Audit == [path : Path, gen : Nat, primary : Worker \cup {None},
          members : SUBSET Worker, checks : SUBSET Check]

\* The audit of a task: none or one.
AuditsOf(p, g) == {x \in audits : x.path = p /\ x.gen = g}

Idle == [at |-> "idle", path |-> None, gen |-> 0, told |-> FALSE, digest |-> None]

Init ==
  /\ completed = [p \in Path |-> 0]
  /\ holder = [p \in Path |-> None]
  /\ audits = {}
  /\ debited = {}
  /\ flagged = {}
  /\ worker = [w \in Worker |-> Idle]
  /\ proposals = [p \in Path |-> <<>>]
  /\ private = [p \in Path |-> None]
  /\ lost = 0

\* _T is the number of commits.
Training == FoldFunction(+, 0, completed) < Target
Eligible == {p \in Path : holder[p] = None}

-----------------------------------------------------------------------------
\* Leases.

\* _next_task, with a path for the worker.  It may be sampled for an audit; a
\* path with a private module always is.  An audit that an earlier lease of
\* the same generation left behind stays as it is.
Lease(w, p) ==
  /\ worker[w] = Idle /\ Training
  /\ p \in Eligible /\ \A q \in Eligible : completed[p] <= completed[q]
  /\ holder' = [holder EXCEPT ![p] = w]
  /\ \E sampled \in IF p \in PrivatePath THEN {TRUE} ELSE BOOLEAN :
       LET told == sampled /\ AuditsOf(p, completed[p]) = {}
       IN  /\ audits' = IF told
                        THEN audits \cup {[path |-> p, gen |-> completed[p], primary |-> None,
                                           members |-> {w}, checks |-> {}]}
                        ELSE audits
           /\ worker' = [worker EXCEPT ![w] =
                [Idle EXCEPT !.at = "task", !.path = p, !.gen = completed[p], !.told = told]]
  /\ UNCHANGED <<completed, debited, flagged, owner, lost>>

\* _find_check_locked: an audit whose primary has committed, with a free slot,
\* for a worker that has none in it.
NeedsChecker(x, w) ==
  /\ x.primary # None /\ w \notin x.members
  /\ Cardinality(x.members) < Redundancy

\* _next_task with no path for the worker (_reserve_check_locked).
LeaseCheck(w) ==
  /\ worker[w] = Idle /\ Training /\ Eligible = {}
  /\ \E x \in audits :
       /\ NeedsChecker(x, w)
       /\ audits' = (audits \ {x}) \cup {[x EXCEPT !.members = @ \cup {w}]}
       /\ worker' = [worker EXCEPT ![w] =
            [Idle EXCEPT !.at = "check", !.path = x.path, !.gen = x.gen]]
  /\ UNCHANGED <<completed, holder, debited, flagged, owner, lost>>

\* The lease expires.
Reclaim(p) ==
  /\ holder[p] # None /\ lost < MaxLost
  /\ holder' = [holder EXCEPT ![p] = None]
  /\ lost' = lost + 1
  /\ UNCHANGED <<completed, audits, debited, flagged, worker, owner>>

-----------------------------------------------------------------------------
\* The verdict.

\* The digests an audit has, with whose they are.
Present(x) == {c \in x.checks : c.digest # None}
Agreeing(x, d) == Cardinality({c \in Present(x) : c.digest = d})

\* Mutant of Majority: the most frequent digest, if it is alone.
Plurality(x) ==
  {d \in Digest : /\ Cardinality(Present(x)) >= 2 /\ Agreeing(x, d) >= 1
                  /\ \A e \in Digest : Agreeing(x, e) <= Agreeing(x, d)}

\* Counter.most_common(1): two or more agree.
Majority(x) ==
  {d \in Digest : /\ Agreeing(x, d) >= 2
                  /\ \A e \in Digest : Agreeing(x, e) <= Agreeing(x, d)}

\* The probe screen: enough checkers report that the update does harm, and it
\* was committed.
Harmed(x) ==
  /\ ProbeQuorum > 0 /\ x.primary # None
  /\ Cardinality({c \in x.checks : c.harm}) >= ProbeQuorum

\* _resolve_audit_locked: the audit is over.  Of two digests that are equally
\* frequent the majority is either one.
Resolve(x) ==
  /\ audits' = {y \in audits : y.path # x.path \/ y.gen # x.gen}
  /\ \/ Majority(x) = {} /\ UNCHANGED debited
     \/ \E top \in Majority(x) :
          debited' = debited \cup {c.peer : c \in {c \in Present(x) : c.digest # top}}
  /\ flagged' = IF Harmed(x) THEN flagged \cup {[path |-> x.path, gen |-> x.gen]} ELSE flagged

\* Mutant of Overdue: only an audit whose primary has committed.
OverdueIfCommitted(x) == x.primary # None

\* The deadline of the audit has passed: one is set when it is created, and
\* again when its primary commits.
Overdue(x) == TRUE

\* _resolve_audits_locked, whenever leases are reclaimed.
TimeOut(p, g) ==
  /\ \E x \in AuditsOf(p, g) : Overdue(x) /\ Resolve(x)
  /\ UNCHANGED <<completed, holder, worker, owner, lost>>

-----------------------------------------------------------------------------
\* Workers.

\* _commit of the path's current lease, and the audit's share of it: its
\* primary's base and digest, if the worker was told that it is audited; an
\* audit whose primary was not is dropped.
Commit(w) ==
  LET p == worker[w].path
      g == completed[p]
      mine == {x \in AuditsOf(p, g) : x.primary = None}
      report == [peer |-> w, digest |-> Result(w), harm |-> FALSE]
  IN  /\ worker[w].at = "task" /\ holder[p] = w /\ worker[w].gen = g
      /\ holder' = [holder EXCEPT ![p] = None]
      /\ completed' = [completed EXCEPT ![p] = @ + 1]
      /\ audits' = (audits \ mine) \cup
           (IF worker[w].told
            THEN {[x EXCEPT !.primary = w, !.checks = {report}] : x \in mine} ELSE {})
      /\ worker' = [worker EXCEPT ![w].at = "push"]
      /\ UNCHANGED <<debited, flagged, owner, lost>>

\* A lease that is not the path's current one; or a loss that is not finite.
Refused(w) ==
  LET p == worker[w].path
      fenced == holder[p] = w /\ worker[w].gen = completed[p]
  IN  /\ worker[w].at = "task"
      /\ fenced => w \in Faulty
      /\ holder' = IF fenced THEN [holder EXCEPT ![p] = None] ELSE holder
      /\ debited' = IF fenced THEN debited \cup {w} ELSE debited
      /\ worker' = [worker EXCEPT ![w] = Idle]
      /\ UNCHANGED <<completed, audits, flagged, owner, lost>>

\* Mutant of Votes: all states proposed for the task.
VotesForTask(s, m) == {v \in s : v.gen = m.gen}

\* The proposals that agree with one.
Votes(s, m) == {v \in s : v.gen = m.gen /\ v.digest = m.digest}

\* _record_private_proposal_locked: tokens are counted per state proposed; the
\* oldest of too many states is forgotten; a quorum makes the state the
\* module's, and clears the others.
Propose(w) ==
  LET p == worker[w].path
      m == [gen |-> worker[w].gen, digest |-> Result(w)]
      bucket == proposals[p]
      known == \E i \in DOMAIN bucket : bucket[i].state = m
      grown == IF known THEN bucket ELSE Append(bucket, [state |-> m, tokens |-> {}])
      kept == IF Len(grown) > MaxProposals THEN Tail(grown) ELSE grown
      told == [i \in DOMAIN kept |->
                IF kept[i].state = m THEN [kept[i] EXCEPT !.tokens = @ \cup {w}] ELSE kept[i]]
      tokens == UNION {{[gen |-> told[i].state.gen, digest |-> told[i].state.digest, by |-> t] :
                         t \in told[i].tokens} : i \in DOMAIN told}
  IN  IF Cardinality(Votes(tokens, m)) >= PrivateQuorum
      THEN /\ private' = [private EXCEPT ![p] = m]
           /\ proposals' = [proposals EXCEPT ![p] = <<>>]
      ELSE /\ proposals' = [proposals EXCEPT ![p] = told]
           /\ UNCHANGED private

\* The granted push carries the primary's own proposal.
Push(w) ==
  /\ worker[w].at = "push"
  /\ worker' = [worker EXCEPT ![w] = Idle]
  /\ IF worker[w].path \in PrivatePath THEN Propose(w) ELSE UNCHANGED owner
  /\ UNCHANGED <<scheduler, lost>>

\* A checker runs the task again and proposes its private state; or the pinned
\* base is no longer held, and it abstains.
Reproduce(w) ==
  /\ worker[w].at = "check"
  /\ \/ /\ worker' = [worker EXCEPT ![w].at = "checked", ![w].digest = Result(w)]
        /\ IF worker[w].path \in PrivatePath THEN Propose(w) ELSE UNCHANGED owner
     \/ /\ worker' = [worker EXCEPT ![w].at = "checked"]
        /\ UNCHANGED owner
  /\ UNCHANGED <<scheduler, lost>>

\* All its checkers have reported.
Complete(x) == x.primary # None /\ Cardinality(x.checks) >= Redundancy

\* _commit_check: the report of a reserved checker of an open audit; too late,
\* it is ignored.  The last one resolves the audit.
CommitCheck(w) ==
  LET p == worker[w].path
      poisoned == p \in PoisonedPath
  IN  /\ worker[w].at = "checked"
      /\ worker' = [worker EXCEPT ![w] = Idle]
      /\ \E harm \in IF worker[w].digest = None THEN {FALSE}
                     ELSE IF w \in Faulty THEN BOOLEAN ELSE {poisoned} :
           LET report == [peer |-> w, digest |-> worker[w].digest, harm |-> harm]
               open == {x \in AuditsOf(p, worker[w].gen) : w \in x.members}
               next == {[x EXCEPT !.checks = @ \cup {report}] : x \in open}
           IN  IF \E x \in next : Complete(x)
               THEN \E x \in next : Resolve(x)
               ELSE /\ audits' = (audits \ open) \cup next
                    /\ UNCHANGED <<debited, flagged>>
      /\ UNCHANGED <<completed, holder, owner, lost>>

\* A worker's process ends; another one takes its place.
Vanish(w) ==
  /\ worker[w].at # "idle" /\ lost < MaxLost
  /\ lost' = lost + 1
  /\ worker' = [worker EXCEPT ![w] = Idle]
  /\ holder' = [p \in Path |-> IF holder[p] = w THEN None ELSE holder[p]]
  /\ UNCHANGED <<completed, audits, debited, flagged, owner>>

-----------------------------------------------------------------------------
WorkerStep(w) ==
  \/ \E p \in Path : Lease(w, p)
  \/ LeaseCheck(w)
  \/ Commit(w)
  \/ Refused(w)
  \/ Push(w)
  \/ Reproduce(w)
  \/ CommitCheck(w)

Next ==
  \/ \E w \in Worker : WorkerStep(w) \/ Vanish(w)
  \/ \E p \in Path : Reclaim(p)
  \/ \E p \in Path, g \in Generation : TimeOut(p, g)

Spec == Init /\ [][Next]_vars

\* The reclaim loop goes through all that is overdue, again and again.
FairSpec == Spec /\ \A p \in Path, g \in Generation : WF_vars(TimeOut(p, g))

-----------------------------------------------------------------------------
\* Properties.

WorkerState ==
  [at : {"idle", "task", "push", "check", "checked"}, path : Path \cup {None},
   gen : Nat, told : BOOLEAN, digest : Digest \cup {None}]

\* The type of the state; one audit per task, no more members than runs, and
\* no more reports than members.
TypeOK ==
  /\ completed \in [Path -> Nat]
  /\ holder \in [Path -> Worker \cup {None}]
  /\ \A x \in audits :
       /\ x \in Audit /\ AuditsOf(x.path, x.gen) = {x}
       /\ Cardinality(x.members) <= Redundancy
       /\ {c.peer : c \in x.checks} \subseteq x.members
       /\ Cardinality({c.peer : c \in x.checks}) = Cardinality(x.checks)
  /\ debited \subseteq Worker /\ flagged \subseteq Task
  /\ worker \in [Worker -> WorkerState]
  /\ \A p \in Path : Len(proposals[p]) <= MaxProposals
  /\ \A p \in Path : private[p] # None => private[p].digest \in Digest
  /\ lost \in 0 .. MaxLost

\* With one faulty worker no other ever loses reputation, and no task on clean
\* data is flagged: not by a tie, a late or missing report, an abstention, or
\* an audit that a lost lease left behind.
HonestKeepStanding ==
  /\ debited \subseteq Faulty
  /\ \A t \in flagged : t.path \in PoisonedPath

\* With one faulty worker a private module only ever holds what a correct
\* worker computed: the proposals of one worker alone stall it, never change it.
NeverOverwrittenAlone == \A p \in Path : private[p] # None => private[p].digest = "same"

\* Every audit is closed, whether or not its primary commits and its checkers
\* report.
AuditsClose ==
  \A p \in Path, g \in Generation :
    [](AuditsOf(p, g) # {} => <>(AuditsOf(p, g) = {}))

=============================================================================
