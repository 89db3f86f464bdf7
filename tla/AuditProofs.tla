----------------------------- MODULE AuditProofs -----------------------------
(***************************************************************************)
(* What holds of Audit for every number of paths, workers and runs of an   *)
(* audited task.                                                           *)
(***************************************************************************)
EXTENDS Audit, FiniteSetTheorems, FunctionTheorems, SequenceTheorems, TLAPS

-----------------------------------------------------------------------------
\* The invariant.

Proposal == [state : [gen : Nat, digest : Digest], tokens : SUBSET Worker]

Types ==
  /\ completed \in [Path -> Nat]
  /\ holder \in [Path -> Worker \cup {None}]
  /\ audits \in SUBSET Audit
  /\ debited \in SUBSET Worker
  /\ flagged \in SUBSET Task
  /\ worker \in [Worker -> WorkerState]
  /\ \A w \in Worker : worker[w].at # "idle" => worker[w].path \in Path
  /\ proposals \in [Path -> Seq(Proposal)]
  /\ private \in [Path -> [gen : Nat, digest : Digest] \cup {None}]
  /\ lost \in 0 .. MaxLost

\* A task has one audit, which has room for as many members as runs.
OneAudit ==
  /\ \A x, y \in audits : x.path = y.path /\ x.gen = y.gen => x = y
  /\ \A x \in audits : IsFiniteSet(x.members) /\ Cardinality(x.members) <= Redundancy

\* An audit whose primary has committed is of a generation that is over.
Opened == \A x \in audits : x.primary # None => x.gen < completed[x.path]

\* A member reports once, and what it computed.
ReportsOf(x) ==
  \A c \in x.checks :
    /\ c.peer \in x.members
    /\ c.digest \in {None, Result(c.peer)}
    /\ c.harm => c.peer \in Faulty \/ x.path \in PoisonedPath
    /\ \A d \in x.checks : d.peer = c.peer => d = c

Reports == \A x \in audits : ReportsOf(x)

\* Who runs a check has not reported yet, and its task is over.
Running(w) == worker[w].at \in {"check", "checked"}

Reporting ==
  \A w \in Worker :
    /\ Running(w) =>
         /\ worker[w].gen < completed[worker[w].path]
         /\ \A x \in AuditsOf(worker[w].path, worker[w].gen) : \A c \in x.checks : c.peer # w
    /\ worker[w].digest \in {None, Result(w)}

\* Who trains under the current lease, and was told of an audit, is a member.
Fenced(w) ==
  /\ worker[w].at = "task" /\ worker[w].told
  /\ holder[worker[w].path] = w /\ worker[w].gen = completed[worker[w].path]

Leased ==
  \A w \in Worker : Fenced(w) =>
    \A x \in AuditsOf(worker[w].path, worker[w].gen) : w \in x.members

\* A proposal has the tokens of workers that computed it.
Proposed ==
  \A p \in Path :
    /\ Len(proposals[p]) <= MaxProposals
    /\ \A i \in DOMAIN proposals[p] : \A t \in proposals[p][i].tokens :
         Result(t) = proposals[p][i].state.digest

\* A private module holds what correct workers computed.
PrivateSame == \A p \in Path : private[p] # None => private[p].digest = "same"

IInv ==
  /\ Types /\ OneAudit /\ Opened /\ Reports /\ Reporting /\ Leased
  /\ debited \subseteq Faulty
  /\ Proposed /\ PrivateSame

-----------------------------------------------------------------------------
\* Digests.

\* Nobody but a faulty worker computes something else, and no two of these the
\* same.
LEMMA ResultType ==
  /\ \A w \in Worker : Result(w) \in Digest /\ Result(w) # None
  /\ \A w \in Worker : Result(w) # "same" => w \in Faulty /\ Result(w) = w
BY ConstantAssumption DEF Result, Digest

LEMMA AtMostOne ==
  ASSUME NEW S, NEW e, S \subseteq {e}
  PROVE  IsFiniteSet(S) /\ Cardinality(S) <= 1
<1>1. IsFiniteSet({e}) /\ Cardinality({e}) = 1
  BY FS_Singleton
<1>. QED  BY <1>1, FS_Subset

\* A majority is one of correct results.
LEMMA MajorityIsSame ==
  ASSUME NEW x \in Audit, ReportsOf(x), NEW top \in Majority(x)
  PROVE  top = "same"
<1>. SUFFICES ASSUME top # "same" PROVE FALSE
  OBVIOUS
<1>. DEFINE S == {c \in Present(x) : c.digest = top}
<1>1. \A c \in S : c \in x.checks /\ c.digest = Result(c.peer) /\ c.peer \in Worker
  BY ConstantAssumption DEF Audit, Check, ReportsOf, Present
<1>2. \A c \in S : c.peer = top
  BY <1>1, ResultType
<1>3. \A c, d \in S : c = d
  BY <1>1, <1>2 DEF ReportsOf
<1>4. Cardinality(S) <= 1
  <2>1. CASE S = {}
    <3>1. S \subseteq {top}
      BY <2>1
    <3>. HIDE DEF S
    <3>. QED  BY <3>1, AtMostOne
  <2>2. CASE S # {}
    <3>1. PICK e \in S : TRUE
      BY <2>2
    <3>2. S \subseteq {e}
      BY <1>3
    <3>. HIDE DEF S
    <3>. QED  BY <3>2, AtMostOne
  <2>. QED  BY <2>1, <2>2
<1>5. Cardinality(S) >= 2
  BY DEF Majority, Agreeing
<1>6. Cardinality(S) = 0 \/ Cardinality(S) = 1 \/ Cardinality(S) \in Int
  <2>1. IsFiniteSet(S)
    <3>1. \E e : S \subseteq {e}
      <4>1. CASE S = {}
        BY <4>1
      <4>2. CASE S # {}
        <5>1. PICK e \in S : TRUE
          BY <4>2
        <5>. QED  BY <1>3, <5>1
      <4>. QED  BY <4>1, <4>2
    <3>. HIDE DEF S
    <3>. QED  BY <3>1, AtMostOne
  <2>. HIDE DEF S
  <2>. QED  BY <2>1, FS_CardinalityType
<1>. HIDE DEF S
<1>. QED  BY <1>4, <1>5, <1>6

\* A verdict debits faulty workers only, for any number of them.
LEMMA VerdictIsFair ==
  ASSUME debited \subseteq Faulty, NEW x \in Audit, ReportsOf(x), Resolve(x)
  PROVE  debited' \subseteq Faulty
<1>1. ASSUME NEW top \in Majority(x), NEW c \in Present(x), c.digest # top
      PROVE  c.peer \in Faulty
  <2>1. c \in x.checks /\ c.digest # None /\ c.digest # "same"
    BY <1>1, MajorityIsSame DEF Present
  <2>2. c.peer \in Worker /\ c.digest = Result(c.peer)
    BY <2>1 DEF Audit, Check, ReportsOf
  <2>. QED  BY <2>1, <2>2, ResultType
<1>2. \/ debited' = debited
      \/ \E top \in Majority(x) :
           debited' = debited \cup {c.peer : c \in {c \in Present(x) : c.digest # top}}
  BY DEF Resolve
<1>. QED  BY <1>1, <1>2

\* Less than ProbeQuorum faulty workers flag no task on clean data.
FlaggedPoisoned == \A t \in flagged : t.path \in PoisonedPath

FewFaulty == IsFiniteSet(Faulty) /\ (ProbeQuorum > 0 => Cardinality(Faulty) < ProbeQuorum)

LEMMA VerdictIsClean ==
  ASSUME FewFaulty, FlaggedPoisoned, NEW x \in Audit, ReportsOf(x), Resolve(x)
  PROVE  FlaggedPoisoned'
<1>1. ASSUME Harmed(x) PROVE x.path \in PoisonedPath
  <2>. SUFFICES ASSUME x.path \notin PoisonedPath PROVE FALSE
    OBVIOUS
  <2>. DEFINE S == {c \in x.checks : c.harm}
              peer == [c \in S |-> c.peer]
  <2>1. \A c \in S : c.peer \in Faulty
    BY DEF ReportsOf
  <2>2. \A c, d \in S : c.peer = d.peer => c = d
    BY DEF ReportsOf
  <2>3. ProbeQuorum > 0 /\ Cardinality(S) >= ProbeQuorum
    BY <1>1 DEF Harmed
  <2>4. peer \in [S -> Faulty]
    BY <2>1
  <2>5. \A c, d \in S : peer[c] = peer[d] => c = d
    BY <2>2
  <2>. HIDE DEF S, peer
  <2>6. peer \in Injection(S, Faulty)
    BY <2>4, <2>5 DEF Injection, IsInjective
  <2>7. IsFiniteSet(S) /\ Cardinality(S) <= Cardinality(Faulty)
    BY <2>6, FS_Injection DEF FewFaulty
  <2>8. Cardinality(S) \in Nat /\ Cardinality(Faulty) \in Nat
    BY <2>7, FS_CardinalityType DEF FewFaulty
  <2>. QED  BY <2>3, <2>7, <2>8, ConstantAssumption DEF FewFaulty
<1>2. flagged' = flagged \/ (Harmed(x) /\ flagged' = flagged \cup {[path |-> x.path, gen |-> x.gen]})
  BY DEF Resolve
<1>. QED  BY <1>1, <1>2 DEF FlaggedPoisoned

-----------------------------------------------------------------------------
\* Proposals.

\* The tokens in a list of proposals are those of workers that computed them.
Earned(s) == \A i \in DOMAIN s : \A t \in s[i].tokens : Result(t) = s[i].state.digest

LEMMA EarnedTail ==
  ASSUME NEW s \in Seq(Proposal), Earned(s), s # <<>>
  PROVE  Tail(s) \in Seq(Proposal) /\ Earned(Tail(s)) /\ Len(Tail(s)) = Len(s) - 1
<1>1. /\ Tail(s) \in Seq(Proposal) /\ Len(Tail(s)) = Len(s) - 1
      /\ \A i \in 1 .. Len(Tail(s)) : Tail(s)[i] = s[i + 1]
  BY HeadTailProperties
<1>2. DOMAIN Tail(s) = 1 .. Len(Tail(s)) /\ DOMAIN s = 1 .. Len(s) /\ Len(s) \in Nat
  BY <1>1
<1>3. \A i \in 1 .. Len(Tail(s)) : i + 1 \in 1 .. Len(s)
  BY <1>1, <1>2
<1>. QED  BY <1>1, <1>2, <1>3 DEF Earned

LEMMA EarnedAppend ==
  ASSUME NEW s \in Seq(Proposal), Earned(s), NEW m \in [gen : Nat, digest : Digest]
  PROVE  LET u == Append(s, [state |-> m, tokens |-> {}])
         IN  u \in Seq(Proposal) /\ Earned(u) /\ Len(u) = Len(s) + 1
<1>. DEFINE e == [state |-> m, tokens |-> {}]
            u == Append(s, e)
<1>1. e \in Proposal /\ e.tokens = {}
  BY DEF Proposal
<1>. HIDE DEF e
<1>2. /\ u \in Seq(Proposal) /\ Len(u) = Len(s) + 1
      /\ \A i \in 1 .. Len(s) : u[i] = s[i]
      /\ u[Len(s) + 1] = e
  BY <1>1
<1>3. DOMAIN u = 1 .. Len(s) + 1 /\ DOMAIN s = 1 .. Len(s) /\ Len(s) \in Nat
  BY <1>2
<1>. HIDE DEF u
<1>4. Earned(u)
  <2>. SUFFICES ASSUME NEW i \in DOMAIN u, NEW t \in u[i].tokens
                PROVE  Result(t) = u[i].state.digest
    BY DEF Earned
  <2>1. CASE i \in 1 .. Len(s)
    BY <1>2, <1>3, <2>1 DEF Earned
  <2>2. CASE i = Len(s) + 1
    BY <1>1, <1>2, <2>2
  <2>. QED  BY <1>3, <2>1, <2>2
<1>. QED  BY <1>2, <1>4 DEF u, e

\* A list of proposals stays within its bound and honest; and a state that is
\* correct workers' only, since two must agree, becomes the module's.
LEMMA ProposeKeeps ==
  ASSUME Types, Proposed, PrivateSame, NEW w \in Worker, worker[w].path \in Path, Propose(w)
  PROVE  /\ proposals' \in [Path -> Seq(Proposal)]
         /\ private' \in [Path -> [gen : Nat, digest : Digest] \cup {None}]
         /\ Proposed' /\ PrivateSame'
<1>. DEFINE p == worker[w].path
            m == [gen |-> worker[w].gen, digest |-> Result(w)]
            bucket == proposals[p]
            known == \E i \in DOMAIN bucket : bucket[i].state = m
            grown == IF known THEN bucket ELSE Append(bucket, [state |-> m, tokens |-> {}])
            kept == IF Len(grown) > MaxProposals THEN Tail(grown) ELSE grown
            told == [i \in DOMAIN kept |->
                      IF kept[i].state = m THEN [kept[i] EXCEPT !.tokens = kept[i].tokens \cup {w}]
                      ELSE kept[i]]
            tokens == UNION {{[gen |-> told[i].state.gen, digest |-> told[i].state.digest, by |-> t] :
                               t \in told[i].tokens} : i \in DOMAIN told}
<1>1. \/ /\ Cardinality(Votes(tokens, m)) >= PrivateQuorum
         /\ private' = [private EXCEPT ![p] = m]
         /\ proposals' = [proposals EXCEPT ![p] = <<>>]
      \/ /\ proposals' = [proposals EXCEPT ![p] = told]
         /\ private' = private
  BY DEF Propose
<1>2. m \in [gen : Nat, digest : Digest] /\ m.digest = Result(w) /\ p \in Path
  BY ResultType DEF Types, WorkerState
<1>. HIDE DEF m
<1>3. bucket \in Seq(Proposal) /\ Earned(bucket) /\ Len(bucket) <= MaxProposals /\ Len(bucket) \in Nat
  BY <1>2 DEF Types, Proposed, Earned
<1>4. grown \in Seq(Proposal) /\ Earned(grown) /\ Len(grown) <= MaxProposals + 1
  <2>. HIDE DEF bucket
  <2>1. CASE known
    BY <1>3, <2>1, ConstantAssumption
  <2>2. CASE ~known
    BY <1>2, <1>3, <2>2, EarnedAppend, ConstantAssumption
  <2>. QED  BY <2>1, <2>2
<1>5. kept \in Seq(Proposal) /\ Earned(kept) /\ Len(kept) <= MaxProposals
  <2>. HIDE DEF grown
  <2>1. CASE Len(grown) > MaxProposals
    <3>1. grown # <<>>
      BY <2>1, ConstantAssumption
    <3>2. Tail(grown) \in Seq(Proposal) /\ Earned(Tail(grown)) /\ Len(Tail(grown)) = Len(grown) - 1
      BY <1>4, <3>1, EarnedTail
    <3>. QED  BY <1>4, <2>1, <3>2, ConstantAssumption
  <2>2. CASE ~(Len(grown) > MaxProposals)
    BY <1>4, <2>2, ConstantAssumption
  <2>. QED  BY <2>1, <2>2
<1>. HIDE DEF kept
<1>6. DOMAIN kept = 1 .. Len(kept) /\ Len(kept) \in Nat /\ \A i \in DOMAIN kept : kept[i] \in Proposal
  BY <1>5
<1>7. \A i \in DOMAIN kept :
        /\ told[i] \in Proposal
        /\ told[i].state = kept[i].state
        /\ \A t \in told[i].tokens : Result(t) = told[i].state.digest
  <2>. SUFFICES ASSUME NEW i \in DOMAIN kept
                PROVE  /\ told[i] \in Proposal
                       /\ told[i].state = kept[i].state
                       /\ \A t \in told[i].tokens : Result(t) = told[i].state.digest
    OBVIOUS
  <2>1. kept[i] \in Proposal /\ \A t \in kept[i].tokens : Result(t) = kept[i].state.digest
    BY <1>5, <1>6 DEF Earned
  <2>2. CASE kept[i].state = m
    <3>. DEFINE r == [kept[i] EXCEPT !.tokens = kept[i].tokens \cup {w}]
    <3>1. told[i] = r
      BY <2>2
    <3>2. r \in Proposal /\ r.state = kept[i].state /\ r.tokens = kept[i].tokens \cup {w}
      BY <2>1 DEF Proposal
    <3>. HIDE DEF told, r
    <3>. QED  BY <1>2, <2>1, <2>2, <3>1, <3>2
  <2>3. CASE kept[i].state # m
    BY <2>1, <2>3
  <2>. QED  BY <2>2, <2>3
<1>8. DOMAIN told = DOMAIN kept
  OBVIOUS
<1>9. told \in Seq(Proposal) /\ Earned(told) /\ Len(told) <= MaxProposals
  <2>1. told \in [1 .. Len(kept) -> Proposal]
    <3>1. told = [i \in 1 .. Len(kept) |-> told[i]]
      BY <1>6
    <3>2. \A i \in 1 .. Len(kept) : told[i] \in Proposal
      BY <1>6, <1>7
    <3>. HIDE DEF told
    <3>. QED  BY <3>1, <3>2
  <2>. HIDE DEF told
  <2>2. told \in Seq(Proposal) /\ Len(told) = Len(kept)
    BY <1>6, <2>1
  <2>. QED  BY <1>5, <1>7, <1>8, <2>2 DEF Earned
<1>. HIDE DEF told
<1>10. CASE /\ Cardinality(Votes(tokens, m)) >= PrivateQuorum
            /\ private' = [private EXCEPT ![p] = m]
            /\ proposals' = [proposals EXCEPT ![p] = <<>>]
  <2>1. m.digest = "same"
    <3>. SUFFICES ASSUME m.digest # "same" PROVE FALSE
      OBVIOUS
    <3>. DEFINE e == [gen |-> m.gen, digest |-> m.digest, by |-> m.digest]
    <3>1. ASSUME NEW v \in Votes(tokens, m) PROVE v = e
      <4>1. v \in tokens /\ v.gen = m.gen /\ v.digest = m.digest
        BY DEF Votes
      <4>2. PICK i \in DOMAIN told : \E t \in told[i].tokens :
              v = [gen |-> told[i].state.gen, digest |-> told[i].state.digest, by |-> t]
        BY <4>1
      <4>3. PICK t \in told[i].tokens :
              v = [gen |-> told[i].state.gen, digest |-> told[i].state.digest, by |-> t]
        BY <4>2
      <4>4. t \in Worker /\ Result(t) = told[i].state.digest
        BY <1>7, <1>8 DEF Proposal
      <4>5. t = m.digest
        BY <4>1, <4>3, <4>4, ResultType
      <4>. QED  BY <4>1, <4>3, <4>5
    <3>. HIDE DEF e, tokens
    <3>2. IsFiniteSet(Votes(tokens, m)) /\ Cardinality(Votes(tokens, m)) <= 1
      BY <3>1, AtMostOne
    <3>3. Cardinality(Votes(tokens, m)) \in Nat
      BY <3>2, FS_CardinalityType
    <3>. QED  BY <1>10, <3>2, <3>3, ConstantAssumption
  <2>2. proposals' \in [Path -> Seq(Proposal)] /\ private' \in [Path -> [gen : Nat, digest : Digest] \cup {None}]
    BY <1>2, <1>10 DEF Types
  <2>3. Proposed'
    <3>1. \A q \in Path : proposals'[q] = proposals[q] \/ proposals'[q] = <<>>
      BY <1>10 DEF Types
    <3>2. DOMAIN <<>> = {} /\ Len(<<>>) = 0
      OBVIOUS
    <3>. QED  BY <3>1, <3>2, ConstantAssumption DEF Proposed
  <2>4. PrivateSame'
    BY <1>10, <2>1 DEF PrivateSame, Types
  <2>. QED  BY <2>2, <2>3, <2>4
<1>11. CASE /\ proposals' = [proposals EXCEPT ![p] = told]
            /\ private' = private
  <2>1. proposals' \in [Path -> Seq(Proposal)]
    BY <1>9, <1>11 DEF Types
  <2>2. \A q \in Path : proposals'[q] = proposals[q] \/ proposals'[q] = told
    BY <1>11 DEF Types
  <2>3. Proposed'
    <3>1. ASSUME NEW q \in Path
          PROVE  /\ Len(proposals'[q]) <= MaxProposals
                 /\ \A i \in DOMAIN proposals'[q] : \A t \in proposals'[q][i].tokens :
                      Result(t) = proposals'[q][i].state.digest
      <4>1. CASE proposals'[q] = told
        BY <1>9, <4>1 DEF Earned
      <4>2. CASE proposals'[q] = proposals[q]
        BY <4>2 DEF Proposed
      <4>. QED  BY <2>2, <4>1, <4>2
    <3>. QED  BY <3>1 DEF Proposed
  <2>. QED  BY <1>11, <2>1, <2>3 DEF Types, PrivateSame
<1>. QED  BY <1>1, <1>10, <1>11

-----------------------------------------------------------------------------
\* The steps.

LEMMA IdleType == Idle \in WorkerState /\ ~(Idle.at # "idle") /\ Idle.digest = None
BY DEF Idle, WorkerState

LEMMA LeaseStep ==
  ASSUME IInv, NEW w \in Worker, NEW p \in Path, Lease(w, p)
  PROVE  IInv'
<1>. USE DEF IInv
<1>. DEFINE g == completed[p]
            new == [path |-> p, gen |-> g, primary |-> None, members |-> {w}, checks |-> {}]
<1>1. PICK told \in BOOLEAN :
        /\ told => AuditsOf(p, g) = {}
        /\ audits' = IF told THEN audits \cup {new} ELSE audits
        /\ worker' = [worker EXCEPT ![w] =
             [Idle EXCEPT !.at = "task", !.path = p, !.gen = g, !.told = told]]
  BY DEF Lease
<1>2. /\ holder' = [holder EXCEPT ![p] = w]
      /\ UNCHANGED <<completed, debited, flagged, owner, lost>>
  BY DEF Lease
<1>14. holder[p] = None
  BY DEF Lease, Eligible
<1>3. g \in Nat
  BY DEF Types
<1>4. new \in Audit
  BY <1>3 DEF Audit, Check
<1>5. /\ new.path = p /\ new.gen = g /\ new.primary = None /\ new.members = {w} /\ new.checks = {}
  OBVIOUS
<1>. DEFINE now == [Idle EXCEPT !.at = "task", !.path = p, !.gen = g, !.told = told]
<1>6. now \in WorkerState /\ now.at = "task" /\ now.path = p /\ now.digest = None
  BY <1>3 DEF Idle, WorkerState
<1>7. worker' = [worker EXCEPT ![w] = now]
  BY <1>1
<1>8. \A x \in audits' : x \in audits \/ (x = new /\ AuditsOf(p, g) = {})
  BY <1>1
<1>16. now.told => \A x \in audits' : x.path = p /\ x.gen = g => x = new
  BY <1>1 DEF Idle, AuditsOf
<1>. HIDE DEF new, now, g
<1>9. Types'
  <2>1. audits' \in SUBSET Audit
    BY <1>4, <1>8 DEF Types
  <2>2. worker' \in [Worker -> WorkerState]
    BY <1>6, <1>7 DEF Types
  <2>3. \A v \in Worker : worker'[v].at # "idle" => worker'[v].path \in Path
    BY <1>6, <1>7 DEF Types
  <2>. QED  BY <1>2, <2>1, <2>2, <2>3 DEF Types, owner
<1>10. OneAudit'
  <2>1. IsFiniteSet({w}) /\ Cardinality({w}) = 1
    BY FS_Singleton
  <2>2. \A x \in audits : ~(AuditsOf(p, g) = {} /\ x.path = p /\ x.gen = g)
    BY DEF AuditsOf
  <2>3. \A x, y \in audits' : x.path = y.path /\ x.gen = y.gen => x = y
    BY <1>5, <1>8, <2>2 DEF OneAudit
  <2>4. IsFiniteSet(new.members) /\ Cardinality(new.members) <= Redundancy
    BY <1>5, <2>1, ConstantAssumption
  <2>5. \A x \in audits' : IsFiniteSet(x.members) /\ Cardinality(x.members) <= Redundancy
    BY <1>8, <2>4 DEF OneAudit
  <2>. QED  BY <2>3, <2>5 DEF OneAudit
<1>11. Opened'
  BY <1>2, <1>5, <1>8 DEF Opened
<1>12. Reports'
  BY <1>5, <1>8 DEF Reports, ReportsOf
<1>13. Reporting'
  <2>1. ASSUME NEW v \in Worker
        PROVE  /\ Running(v)' => Running(v) /\ worker'[v] = worker[v]
               /\ worker'[v].digest \in {None, Result(v)}
    BY <1>6, <1>7 DEF Types, Running, Reporting
  <2>. QED  BY <1>2, <1>5, <1>8, <2>1 DEF Reporting, AuditsOf
<1>15. Leased'
  <2>. SUFFICES ASSUME NEW v \in Worker, Fenced(v)',
                       NEW x \in audits', x.path = worker'[v].path, x.gen = worker'[v].gen
                PROVE  v \in x.members
    BY DEF Leased, AuditsOf
  <2>1. CASE v = w
    <3>1. worker'[v] = now
      BY <1>7, <2>1 DEF Types
    <3>2. now.told /\ now.gen = g
      BY <3>1 DEF Fenced, now, g, Idle
    <3>. QED  BY <1>5, <1>6, <1>16, <2>1, <3>1, <3>2
  <2>2. CASE v # w
    <3>1. worker'[v] = worker[v] /\ worker[v].path # p
      BY <1>2, <1>7, <2>2 DEF Types, Fenced
    <3>2. Fenced(v)
      BY <1>2, <3>1, <2>2 DEF Types, Fenced
    <3>3. x \in audits
      BY <1>5, <1>8, <3>1
    <3>. QED  BY <3>1, <3>2, <3>3 DEF Leased, AuditsOf
  <2>. QED  BY <2>1, <2>2
<1>. QED  BY <1>2, <1>9, <1>10, <1>11, <1>12, <1>13, <1>15 DEF owner, Proposed, PrivateSame

LEMMA LeaseCheckStep ==
  ASSUME IInv, NEW w \in Worker, LeaseCheck(w)
  PROVE  IInv'
<1>. USE DEF IInv
<1>1. PICK x \in audits :
        /\ NeedsChecker(x, w)
        /\ audits' = (audits \ {x}) \cup {[x EXCEPT !.members = x.members \cup {w}]}
        /\ worker' = [worker EXCEPT ![w] =
             [Idle EXCEPT !.at = "check", !.path = x.path, !.gen = x.gen]]
  BY DEF LeaseCheck
<1>2. UNCHANGED <<completed, holder, debited, flagged, owner, lost>>
  BY DEF LeaseCheck
<1>. DEFINE y == [x EXCEPT !.members = x.members \cup {w}]
            now == [Idle EXCEPT !.at = "check", !.path = x.path, !.gen = x.gen]
<1>3. x \in Audit
  BY DEF Types
<1>4. /\ y \in Audit /\ y.members = x.members \cup {w}
      /\ y.path = x.path /\ y.gen = x.gen /\ y.primary = x.primary /\ y.checks = x.checks
  BY <1>3 DEF Audit
<1>5. /\ now \in WorkerState /\ now.at = "check" /\ now.path = x.path /\ now.gen = x.gen
      /\ now.digest = None /\ x.path \in Path
  BY <1>3 DEF Idle, WorkerState, Audit
<1>6. worker' = [worker EXCEPT ![w] = now] /\ \A z \in audits' : z = y \/ (z \in audits /\ z # x)
  BY <1>1
<1>. HIDE DEF y, now
<1>7. Types'
  <2>1. audits' \in SUBSET Audit
    BY <1>4, <1>6 DEF Types
  <2>2. worker' \in [Worker -> WorkerState]
    BY <1>5, <1>6 DEF Types
  <2>3. \A v \in Worker : worker'[v].at # "idle" => worker'[v].path \in Path
    BY <1>5, <1>6 DEF Types
  <2>. QED  BY <1>2, <2>1, <2>2, <2>3 DEF Types, owner
<1>8. OneAudit'
  <2>1. IsFiniteSet(y.members) /\ Cardinality(y.members) <= Redundancy
    <3>1. IsFiniteSet(x.members) /\ Cardinality(x.members) < Redundancy /\ w \notin x.members
      BY <1>1 DEF OneAudit, NeedsChecker
    <3>2. Cardinality(y.members) = Cardinality(x.members) + 1 /\ IsFiniteSet(y.members)
      BY <1>4, <3>1, FS_AddElement
    <3>3. Cardinality(x.members) \in Nat
      BY <3>1, FS_CardinalityType
    <3>. QED  BY <3>1, <3>2, <3>3, ConstantAssumption
  <2>. QED  BY ZenonT(40), <1>4, <1>6, <2>1 DEF OneAudit
<1>9. Opened'
  BY <1>2, <1>4, <1>6 DEF Opened
<1>10. Reports'
  <2>1. ReportsOf(y)
    BY <1>4 DEF Reports, ReportsOf
  <2>. QED  BY <1>6, <2>1 DEF Reports
<1>11. Reporting'
  <2>1. ASSUME NEW v \in Worker, Running(v)'
        PROVE  /\ worker'[v].gen < completed[worker'[v].path]
               /\ \A z \in audits' : z.path = worker'[v].path /\ z.gen = worker'[v].gen =>
                    \A c \in z.checks : c.peer # v
    <3>1. CASE v = w
      <4>1. worker'[v] = now
        BY <1>6, <3>1 DEF Types
      <4>2. x.gen < completed[x.path]
        BY <1>1 DEF NeedsChecker, Opened
      <4>3. \A z \in audits' : z.path = x.path /\ z.gen = x.gen => z = y
        BY <1>6 DEF OneAudit
      <4>4. \A c \in y.checks : c.peer # w
        BY <1>1, <1>4 DEF NeedsChecker, Reports, ReportsOf
      <4>. QED  BY <1>5, <3>1, <4>1, <4>2, <4>3, <4>4
    <3>2. CASE v # w
      <4>1. worker'[v] = worker[v] /\ Running(v)
        BY <1>6, <2>1, <3>2 DEF Types, Running
      <4>. QED  BY <1>4, <1>6, <4>1 DEF Reporting, AuditsOf
    <3>. QED  BY <3>1, <3>2
  <2>2. \A v \in Worker : worker'[v].digest \in {None, Result(v)}
    BY <1>5, <1>6 DEF Types, Reporting
  <2>. QED  BY <1>2, <2>1, <2>2 DEF Reporting, AuditsOf
<1>12. Leased'
  <2>. SUFFICES ASSUME NEW v \in Worker, Fenced(v)',
                       NEW z \in audits', z.path = worker'[v].path, z.gen = worker'[v].gen
                PROVE  v \in z.members
    BY DEF Leased, AuditsOf
  <2>1. worker'[v] = worker[v] /\ Fenced(v)
    BY <1>2, <1>5, <1>6 DEF Types, Fenced
  <2>. QED  BY <1>4, <1>6, <2>1 DEF Leased, AuditsOf
<1>. QED  BY <1>2, <1>7, <1>8, <1>9, <1>10, <1>11, <1>12 DEF owner, Proposed, PrivateSame

\* What holds of the audits holds of fewer, while no worker starts a check.
LEMMA FewerAudits ==
  ASSUME IInv, audits' \subseteq audits, completed' = completed,
         \A p \in Path : holder'[p] \in {holder[p], None},
         \A w \in Worker : /\ Running(w)' => /\ Running(w) /\ worker'[w].path = worker[w].path
                                             /\ worker'[w].gen = worker[w].gen
                           /\ worker'[w].at = "task" => worker'[w] = worker[w]
                           /\ worker'[w].digest \in {None, Result(w)}
  PROVE  OneAudit' /\ Opened' /\ Reports' /\ Reporting' /\ Leased'
<1>. USE DEF IInv
<1>1. OneAudit' /\ Reports'
  BY DEF OneAudit, Reports, ReportsOf
<1>2. Opened'
  <2>. SUFFICES ASSUME NEW x \in audits', x.primary # None PROVE x.gen < completed'[x.path]
    BY DEF Opened
  <2>1. x \in Audit /\ x.gen < completed[x.path]
    BY DEF Opened, Types
  <2>. QED  BY <2>1 DEF Audit, Types
<1>3. Reporting'
  <2>1. ASSUME NEW w \in Worker, Running(w)'
        PROVE  /\ worker'[w].gen < completed'[worker'[w].path]
               /\ \A x \in AuditsOf(worker[w].path, worker[w].gen)' : \A c \in x.checks : c.peer # w
    <3>1. worker[w].gen < completed[worker[w].path] /\ worker[w].path \in Path /\ worker[w].gen \in Nat
      BY <2>1 DEF Reporting, Running, Types, WorkerState
    <3>2. \A x \in AuditsOf(worker[w].path, worker[w].gen) : \A c \in x.checks : c.peer # w
      BY <2>1 DEF Reporting
    <3>3. completed[worker[w].path] \in Nat
      BY <3>1 DEF Types
    <3>4. worker'[w].gen < completed'[worker'[w].path]
      BY <2>1, <3>1, <3>3
    <3>5. /\ worker'[w].path = worker[w].path
          /\ worker'[w].gen = worker[w].gen
      BY <2>1
    <3>. QED  BY <3>2, <3>4, <3>5 DEF AuditsOf
  <2>2. ASSUME NEW w \in Worker, Running(w)'
        PROVE  \A x \in AuditsOf(worker[w].path, worker[w].gen)' : \A c \in x.checks : c.peer # w
    BY <2>1, <2>2
  <2>. QED  BY <2>1, <2>2 DEF Reporting, AuditsOf
<1>4. Leased'
  <2>. SUFFICES ASSUME NEW w \in Worker, Fenced(w)'
                PROVE  Fenced(w) /\ worker'[w] = worker[w]
    BY DEF Leased, AuditsOf
  <2>1. worker'[w] = worker[w] /\ worker[w].path \in Path
    BY DEF Fenced, Types
  <2>2. None \notin Worker
    BY ConstantAssumption
  <2>. QED  BY <2>1, <2>2 DEF Fenced
<1>. QED  BY <1>1, <1>2, <1>3, <1>4

\* A verdict ends an audit.
LEMMA ResolveKeeps ==
  ASSUME Types, NEW x \in Audit, Resolve(x), debited' \subseteq Faulty
  PROVE  /\ audits' \subseteq audits /\ audits' \in SUBSET Audit
         /\ debited' \in SUBSET Worker /\ flagged' \in SUBSET Task
<1>1. audits' \subseteq audits
  BY DEF Resolve
<1>2. flagged' \in SUBSET Task
  <2>1. [path |-> x.path, gen |-> x.gen] \in Task
    BY DEF Audit, Task
  <2>. QED  BY <2>1 DEF Resolve, Types
<1>. QED  BY <1>1, <1>2, ConstantAssumption DEF Types

LEMMA TimeOutStep ==
  ASSUME IInv, NEW p, NEW g, TimeOut(p, g)
  PROVE  IInv'
<1>. USE DEF IInv
<1>1. PICK x \in audits : Resolve(x)
  BY DEF TimeOut, AuditsOf
<1>2. UNCHANGED <<completed, holder, worker, owner, lost>>
  BY DEF TimeOut
<1>3. x \in Audit /\ ReportsOf(x)
  BY DEF Types, Reports
<1>4. debited' \subseteq Faulty
  BY <1>1, <1>3, VerdictIsFair
<1>5. /\ audits' \subseteq audits /\ audits' \in SUBSET Audit
      /\ debited' \in SUBSET Worker /\ flagged' \in SUBSET Task
  BY <1>1, <1>3, <1>4, ResolveKeeps
<1>6. Types'
  BY <1>2, <1>5 DEF Types, owner
<1>8. OneAudit' /\ Opened' /\ Reports' /\ Reporting' /\ Leased'
  BY <1>2, <1>5, FewerAudits DEF Running, Reporting
<1>. QED  BY <1>2, <1>4, <1>6, <1>8 DEF Proposed, PrivateSame, owner

LEMMA ReclaimStep ==
  ASSUME IInv, (\E p \in Path : Reclaim(p)) \/ (\E w \in Worker : Vanish(w))
  PROVE  IInv'
<1>. USE DEF IInv
<1>1. UNCHANGED <<completed, audits, debited, flagged, owner>>
  BY DEF Reclaim, Vanish
<1>2. holder' \in [Path -> Worker \cup {None}] /\ lost' \in 0 .. MaxLost
  <2>1. lost \in 0 .. MaxLost /\ lost < MaxLost /\ lost' = lost + 1
    BY DEF Reclaim, Vanish, Types
  <2>2. MaxLost \in Nat
    BY ConstantAssumption
  <2>3. holder' \in [Path -> Worker \cup {None}]
    BY DEF Reclaim, Vanish, Types
  <2>. QED  BY <2>1, <2>2, <2>3
<1>3. \A v \in Worker : worker'[v] \in {worker[v], Idle}
  BY DEF Reclaim, Vanish, Types
<1>4. worker' \in [Worker -> WorkerState]
  BY IdleType DEF Reclaim, Vanish, Types
<1>5. Types'
  BY <1>1, <1>2, <1>3, <1>4, IdleType DEF Types, owner
<1>6. \A q \in Path : holder'[q] \in {holder[q], None}
  BY DEF Reclaim, Vanish, Types
<1>7. \A v \in Worker : /\ Running(v)' => Running(v) /\ worker'[v].path = worker[v].path
                                          /\ worker'[v].gen = worker[v].gen
                        /\ worker'[v].at = "task" => worker'[v] = worker[v]
                        /\ worker'[v].digest \in {None, Result(v)}
  BY <1>3, IdleType DEF Running, Reporting, Idle
<1>8. OneAudit' /\ Opened' /\ Reports' /\ Reporting' /\ Leased'
  BY <1>1, <1>6, <1>7, FewerAudits
<1>. QED  BY <1>1, <1>5, <1>8 DEF Proposed, PrivateSame, owner

LEMMA RefusedStep ==
  ASSUME IInv, NEW w \in Worker, Refused(w)
  PROVE  IInv'
<1>. USE DEF IInv
<1>1. /\ worker' = [worker EXCEPT ![w] = Idle]
      /\ UNCHANGED <<completed, audits, flagged, owner, lost>>
      /\ holder' \in [Path -> Worker \cup {None}]
      /\ debited' \in SUBSET Worker
      /\ debited' \subseteq Faulty
  BY DEF Refused, Types
<1>2. Types'
  BY <1>1, IdleType DEF Types, owner
<1>3. \A q \in Path : holder'[q] \in {holder[q], None}
  BY DEF Refused, Types
<1>4. \A v \in Worker : /\ Running(v)' => Running(v) /\ worker'[v].path = worker[v].path
                                          /\ worker'[v].gen = worker[v].gen
                        /\ worker'[v].at = "task" => worker'[v] = worker[v]
                        /\ worker'[v].digest \in {None, Result(v)}
  BY <1>1, IdleType DEF Running, Reporting, Types, Idle
<1>5. OneAudit' /\ Opened' /\ Reports' /\ Reporting' /\ Leased'
  BY <1>1, <1>3, <1>4, FewerAudits
<1>. QED  BY <1>1, <1>2, <1>5 DEF Proposed, PrivateSame, owner

LEMMA CommitStep ==
  ASSUME IInv, NEW w \in Worker, Commit(w)
  PROVE  IInv'
<1>. USE DEF IInv
<1>. DEFINE p == worker[w].path
            g == completed[p]
            mine == {x \in AuditsOf(p, g) : x.primary = None}
            report == [peer |-> w, digest |-> Result(w), harm |-> FALSE]
            Told(x) == [x EXCEPT !.primary = w, !.checks = {report}]
            now == [worker[w] EXCEPT !.at = "push"]
<1>1. /\ worker[w].at = "task" /\ holder[p] = w /\ worker[w].gen = g
      /\ holder' = [holder EXCEPT ![p] = None]
      /\ completed' = [completed EXCEPT ![p] = completed[p] + 1]
      /\ audits' = (audits \ mine) \cup (IF worker[w].told THEN {Told(x) : x \in mine} ELSE {})
      /\ worker' = [worker EXCEPT ![w] = now]
      /\ UNCHANGED <<debited, flagged, owner, lost>>
  BY DEF Commit
<1>2. p \in Path /\ g \in Nat
  BY <1>1 DEF Types
<1>3. /\ now \in WorkerState /\ now.at = "push" /\ now.path = p /\ now.digest = worker[w].digest
  BY DEF Types, WorkerState
<1>4. \A x \in mine : x \in audits /\ x \in Audit /\ x.path = p /\ x.gen = g /\ x.primary = None
  BY DEF AuditsOf, Types
<1>5. \A x \in mine : /\ Told(x) \in Audit /\ Told(x).path = p /\ Told(x).gen = g
                      /\ Told(x).primary = w /\ Told(x).members = x.members
                      /\ Told(x).checks = {report}
  <2>1. report \in Check
    BY ResultType DEF Check
  <2>. SUFFICES ASSUME NEW x \in mine
                PROVE  /\ Told(x) \in Audit /\ Told(x).path = p /\ Told(x).gen = g
                       /\ Told(x).primary = w /\ Told(x).members = x.members
                       /\ Told(x).checks = {report}
    OBVIOUS
  <2>2. x \in Audit /\ x.path = p /\ x.gen = g
    BY <1>4
  <2>. HIDE DEF report, mine
  <2>. QED  BY <2>1, <2>2 DEF Audit
<1>6. \A y \in audits' : (y \in audits /\ y \notin mine) \/ (worker[w].told /\ \E x \in mine : y = Told(x))
  BY <1>1
<1>7. report.peer = w /\ report.digest = Result(w) /\ report.harm = FALSE
  OBVIOUS
<1>. HIDE DEF now, Told, report
<1>8. Types'
  <2>1. audits' \in SUBSET Audit
    BY <1>5, <1>6 DEF Types
  <2>2. worker' \in [Worker -> WorkerState]
    BY <1>1, <1>3 DEF Types
  <2>3. \A v \in Worker : worker'[v].at # "idle" => worker'[v].path \in Path
    BY <1>1, <1>2, <1>3 DEF Types
  <2>4. completed' \in [Path -> Nat] /\ holder' \in [Path -> Worker \cup {None}]
    BY <1>1, <1>2 DEF Types
  <2>. QED  BY <1>1, <2>1, <2>2, <2>3, <2>4 DEF Types, owner
<1>9. \A x, y \in mine : x = y
  BY <1>4 DEF OneAudit
<1>10. OneAudit'
  <2>1. ASSUME NEW x \in audits', NEW y \in audits', x.path = y.path, x.gen = y.gen
        PROVE  x = y
    <3>. HIDE DEF mine
    <3>1. CASE x \in audits /\ x \notin mine /\ y \in audits /\ y \notin mine
      BY <2>1, <3>1 DEF OneAudit
    <3>2. CASE \E z \in mine, u \in mine : x = Told(z) /\ y = Told(u)
      BY <1>9, <3>2
    <3>3. ASSUME NEW z \in mine, NEW u \in audits, u \notin mine, u.path = p, u.gen = g
          PROVE  FALSE
      BY <1>4, <3>3 DEF OneAudit
    <3>. QED  BY <1>5, <1>6, <2>1, <3>1, <3>2, <3>3
  <2>2. \A x \in audits' : IsFiniteSet(x.members) /\ Cardinality(x.members) <= Redundancy
    BY <1>4, <1>5, <1>6 DEF OneAudit
  <2>. QED  BY <2>1, <2>2 DEF OneAudit
<1>11. \A q \in Path : completed[q] <= completed'[q] /\ completed'[q] \in Nat
  BY <1>1, <1>2 DEF Types
<1>12. Opened'
  <2>1. ASSUME NEW x \in audits', x.primary # None PROVE x.gen < completed'[x.path]
    <3>1. CASE x \in audits
      <4>1. x \in Audit /\ x.gen < completed[x.path]
        BY <2>1, <3>1 DEF Opened, Types
      <4>. QED  BY <1>11, <4>1 DEF Audit, Types
    <3>2. CASE \E z \in mine : x = Told(z)
      <4>1. x.path = p /\ x.gen = g
        BY <1>5, <3>2
      <4>. QED  BY <1>1, <1>2, <4>1 DEF Types
    <3>. QED  BY <1>6, <3>1, <3>2
  <2>. QED  BY <2>1 DEF Opened
<1>13. Reports'
  <2>1. ASSUME worker[w].told, NEW z \in mine PROVE ReportsOf(Told(z))
    <3>1. w \in z.members
      BY <1>1, <1>4, <2>1 DEF Leased, Fenced, AuditsOf
    <3>. QED  BY <1>5, <1>7, <3>1 DEF ReportsOf
  <2>. QED  BY <1>6, <2>1 DEF Reports
<1>14. Reporting'
  <2>1. ASSUME NEW v \in Worker, Running(v)'
        PROVE  /\ worker'[v].gen < completed'[worker'[v].path]
               /\ \A x \in audits' : x.path = worker'[v].path /\ x.gen = worker'[v].gen =>
                    \A c \in x.checks : c.peer # v
    <3>1. v # w /\ worker'[v] = worker[v] /\ Running(v)
      BY <1>1, <1>3, <2>1 DEF Types, Running
    <3>2. /\ worker[v].gen < completed[worker[v].path] /\ worker[v].path \in Path
          /\ worker[v].gen \in Nat /\ completed[worker[v].path] \in Nat
      BY <3>1 DEF Reporting, Running, Types, WorkerState
    <3>3. ~(worker[v].path = p /\ worker[v].gen = g)
      BY <3>2
    <3>4. worker[v].gen < completed'[worker[v].path]
      BY <1>11, <3>2
    <3>5. \A x \in audits' : x.path = worker[v].path /\ x.gen = worker[v].gen => x \in audits
      BY <1>5, <1>6, <3>3
    <3>6. ASSUME NEW x \in audits', x.path = worker[v].path, x.gen = worker[v].gen, NEW c \in x.checks
          PROVE  c.peer # v
      BY <3>1, <3>5, <3>6 DEF Reporting, AuditsOf
    <3>. QED  BY <3>1, <3>4, <3>6
  <2>2. \A v \in Worker : worker'[v].digest \in {None, Result(v)}
    BY <1>1, <1>3 DEF Types, Reporting
  <2>. QED  BY <2>1, <2>2 DEF Reporting, AuditsOf
<1>15. Leased'
  <2>. SUFFICES ASSUME NEW v \in Worker, Fenced(v)',
                       NEW x \in audits', x.path = worker'[v].path, x.gen = worker'[v].gen
                PROVE  v \in x.members
    BY DEF Leased, AuditsOf
  <2>1. v # w /\ worker'[v] = worker[v]
    BY <1>1, <1>3 DEF Types, Fenced
  <2>2. worker[v].path # p /\ worker[v].path \in Path
    BY <1>1, <1>2, <2>1, ConstantAssumption DEF Types, Fenced
  <2>3. Fenced(v)
    BY <1>1, <1>2, <2>1, <2>2 DEF Types, Fenced
  <2>4. x \in audits
    BY <1>5, <1>6, <2>1, <2>2
  <2>. QED  BY <2>1, <2>3, <2>4 DEF Leased, AuditsOf
<1>. QED  BY <1>1, <1>8, <1>10, <1>12, <1>13, <1>14, <1>15 DEF Proposed, PrivateSame, owner

LEMMA PushStep ==
  ASSUME IInv, NEW w \in Worker, Push(w) \/ Reproduce(w)
  PROVE  IInv'
<1>. USE DEF IInv
<1>1. worker[w].at \in {"push", "check"} /\ worker[w].path \in Path /\ UNCHANGED <<scheduler, lost>>
  BY DEF Push, Reproduce, Types
<1>2. /\ proposals' \in [Path -> Seq(Proposal)]
      /\ private' \in [Path -> [gen : Nat, digest : Digest] \cup {None}]
      /\ Proposed' /\ PrivateSame'
  <2>1. CASE Propose(w)
    BY <1>1, <2>1, ProposeKeeps
  <2>2. CASE UNCHANGED owner
    BY <2>2 DEF owner, Types, Proposed, PrivateSame
  <2>. QED  BY <2>1, <2>2 DEF Push, Reproduce
<1>3. PICK now \in WorkerState :
        /\ worker' = [worker EXCEPT ![w] = now]
        /\ \/ now = Idle
           \/ /\ worker[w].at = "check" /\ now.at = "checked" /\ now.path = worker[w].path
              /\ now.gen = worker[w].gen /\ now.digest \in {None, Result(w)}
  <2>1. CASE Push(w)
    BY <2>1, IdleType DEF Push
  <2>2. CASE Reproduce(w)
    <3>1. worker[w] \in WorkerState /\ Result(w) \in Digest /\ worker[w].digest \in {None, Result(w)}
      BY ResultType DEF Types, Reporting
    <3>2. CASE worker' = [worker EXCEPT ![w].at = "checked", ![w].digest = Result(w)]
      <4>. DEFINE now == [worker[w] EXCEPT !.at = "checked", !.digest = Result(w)]
      <4>1. worker' = [worker EXCEPT ![w] = now]
        BY <3>2 DEF Types
      <4>2. /\ now \in WorkerState /\ now.at = "checked" /\ now.path = worker[w].path
            /\ now.gen = worker[w].gen /\ now.digest = Result(w)
        BY <3>1 DEF WorkerState
      <4>. HIDE DEF now
      <4>. QED  BY <2>2, <4>1, <4>2 DEF Reproduce
    <3>3. CASE worker' = [worker EXCEPT ![w].at = "checked"]
      <4>. DEFINE now == [worker[w] EXCEPT !.at = "checked"]
      <4>1. worker' = [worker EXCEPT ![w] = now]
        BY <3>3 DEF Types
      <4>2. /\ now \in WorkerState /\ now.at = "checked" /\ now.path = worker[w].path
            /\ now.gen = worker[w].gen /\ now.digest = worker[w].digest
        BY <3>1 DEF WorkerState
      <4>. HIDE DEF now
      <4>. QED  BY <2>2, <3>1, <4>1, <4>2 DEF Reproduce
    <3>. QED  BY <2>2, <3>2, <3>3 DEF Reproduce
  <2>. QED  BY <2>1, <2>2
<1>4. \A v \in Worker : v # w => worker'[v] = worker[v]
  BY <1>3 DEF Types
<1>5. worker'[w] = now
  BY <1>3 DEF Types
<1>6. Types'
  <2>1. worker' \in [Worker -> WorkerState]
    BY <1>3 DEF Types
  <2>2. \A v \in Worker : worker'[v].at # "idle" => worker'[v].path \in Path
    BY <1>1, <1>3, <1>4, <1>5, IdleType DEF Types
  <2>. QED  BY <1>1, <1>2, <2>1, <2>2 DEF Types, scheduler
<1>7. \A v \in Worker : /\ Running(v)' => Running(v) /\ worker'[v].path = worker[v].path
                                          /\ worker'[v].gen = worker[v].gen
                        /\ worker'[v].at = "task" => worker'[v] = worker[v]
                        /\ worker'[v].digest \in {None, Result(v)}
  <2>1. /\ now.at \in {"check", "checked"} =>
             /\ worker[w].at = "check" /\ now.path = worker[w].path /\ now.gen = worker[w].gen
        /\ now.at # "task" /\ now.digest \in {None, Result(w)}
    BY <1>3, IdleType DEF Idle
  <2>. QED  BY <1>4, <1>5, <2>1 DEF Running, Reporting
<1>8. OneAudit' /\ Opened' /\ Reports' /\ Reporting' /\ Leased'
  BY <1>1, <1>7, FewerAudits DEF scheduler
<1>. QED  BY <1>1, <1>2, <1>6, <1>8 DEF scheduler

\* A report joins the audit it was reserved for, and is its worker's only one.
LEMMA CommitCheckStep ==
  ASSUME IInv, NEW w \in Worker, CommitCheck(w)
  PROVE  IInv' /\ (FewFaulty /\ FlaggedPoisoned => FlaggedPoisoned')
<1>. USE DEF IInv
<1>. DEFINE p == worker[w].path
            g == worker[w].gen
            poisoned == p \in PoisonedPath
            open == {x \in AuditsOf(p, g) : w \in x.members}
            Joined(x, r) == [x EXCEPT !.checks = x.checks \cup {r}]
            Next2(r) == {Joined(x, r) : x \in open}
<1>1. /\ worker[w].at = "checked" /\ worker' = [worker EXCEPT ![w] = Idle]
      /\ UNCHANGED <<completed, holder, owner, lost>>
  BY DEF CommitCheck
<1>2. PICK harm \in IF worker[w].digest = None THEN {FALSE}
                    ELSE IF w \in Faulty THEN BOOLEAN ELSE {poisoned} :
        LET r == [peer |-> w, digest |-> worker[w].digest, harm |-> harm]
        IN  \/ \E y \in Next2(r) : Resolve(y)
            \/ /\ audits' = (audits \ open) \cup Next2(r)
               /\ UNCHANGED <<debited, flagged>>
  <2>1. \E harm \in IF worker[w].digest = None THEN {FALSE}
                    ELSE IF w \in Faulty THEN BOOLEAN ELSE {poisoned} :
          LET r == [peer |-> w, digest |-> worker[w].digest, harm |-> harm]
          IN  IF \E y \in Next2(r) : Complete(y)
              THEN \E y \in Next2(r) : Resolve(y)
              ELSE /\ audits' = (audits \ open) \cup Next2(r)
                   /\ UNCHANGED <<debited, flagged>>
    BY DEF CommitCheck
  <2>. QED  BY <2>1
<1>. DEFINE r == [peer |-> w, digest |-> worker[w].digest, harm |-> harm]
<1>3. /\ r \in Check /\ r.peer = w /\ r.digest \in {None, Result(w)}
      /\ r.harm => w \in Faulty \/ p \in PoisonedPath
  <2>1. worker[w].digest \in {None, Result(w)} /\ Result(w) \in Digest
    BY ResultType DEF Reporting
  <2>2. harm \in BOOLEAN /\ (harm => w \in Faulty \/ poisoned)
    <3>1. harm \in IF worker[w].digest = None THEN {FALSE}
                   ELSE IF w \in Faulty THEN BOOLEAN ELSE {poisoned}
      BY <1>2
    <3>2. CASE worker[w].digest = None
      BY <3>1, <3>2
    <3>3. CASE worker[w].digest # None /\ w \in Faulty
      BY <3>1, <3>3
    <3>4. CASE worker[w].digest # None /\ w \notin Faulty
      <4>1. harm = poisoned /\ poisoned \in BOOLEAN
        BY <3>1, <3>4
      <4>. HIDE DEF poisoned
      <4>. QED  BY <4>1
    <3>. QED  BY <3>2, <3>3, <3>4
  <2>. QED  BY <2>1, <2>2 DEF Check
<1>4. ASSUME NEW x \in open
      PROVE  /\ x \in audits /\ x \in Audit /\ x.path = p /\ x.gen = g /\ w \in x.members
             /\ \A c \in x.checks : c.peer # w
  <2>1. Running(w)
    BY <1>1 DEF Running
  <2>. QED  BY <2>1 DEF Reporting, AuditsOf, Types
<1>. HIDE DEF r
<1>5. ASSUME NEW x \in open
      PROVE  /\ Joined(x, r) \in Audit /\ Joined(x, r).path = p /\ Joined(x, r).gen = g
             /\ Joined(x, r).primary = x.primary /\ Joined(x, r).members = x.members
             /\ Joined(x, r).checks = x.checks \cup {r}
  <2>1. x \in Audit /\ x.path = p /\ x.gen = g
    BY <1>4
  <2>. HIDE DEF open
  <2>. QED  BY <1>3, <2>1 DEF Audit
<1>6. ASSUME NEW x \in open
      PROVE  ReportsOf(Joined(x, r))
  <2>1. ReportsOf(x)
    BY <1>4 DEF Reports
  <2>. DEFINE y == Joined(x, r)
  <2>2. y.path = p /\ x.path = p /\ y.members = x.members /\ y.checks = x.checks \cup {r}
    BY <1>4, <1>5
  <2>. HIDE DEF y
  <2>3. ASSUME NEW c \in y.checks
        PROVE  /\ c.peer \in y.members
               /\ c.digest \in {None, Result(c.peer)}
               /\ c.harm => c.peer \in Faulty \/ y.path \in PoisonedPath
               /\ \A d \in y.checks : d.peer = c.peer => d = c
    BY <1>3, <1>4, <2>1, <2>2 DEF ReportsOf
  <2>. QED  BY <2>3 DEF ReportsOf, y
<1>7. \A x, y \in open : x = y
  BY <1>4 DEF OneAudit
<1>. HIDE DEF Joined, open
<1>8. worker' \in [Worker -> WorkerState] /\ \A v \in Worker : worker'[v].at # "idle" => worker'[v].path \in Path
  BY <1>1, IdleType DEF Types
<1>9. \A v \in Worker : /\ Running(v)' => Running(v) /\ worker'[v].path = worker[v].path
                                          /\ worker'[v].gen = worker[v].gen
                        /\ worker'[v].at = "task" => worker'[v] = worker[v]
                        /\ worker'[v].digest \in {None, Result(v)}
  BY <1>1, IdleType DEF Running, Reporting, Types, Idle
<1>10. CASE \E x \in open : Resolve(Joined(x, r))
  <2>1. PICK x \in open : Resolve(Joined(x, r))
    BY <1>10
  <2>2. Joined(x, r) \in Audit /\ ReportsOf(Joined(x, r))
    BY <1>5, <1>6
  <2>3. debited' \subseteq Faulty
    BY <2>1, <2>2, VerdictIsFair
  <2>4. /\ audits' \subseteq audits /\ audits' \in SUBSET Audit
        /\ debited' \in SUBSET Worker /\ flagged' \in SUBSET Task
    BY <2>1, <2>2, <2>3, ResolveKeeps
  <2>5. Types'
    BY <1>1, <1>8, <2>4 DEF Types, owner
  <2>6. OneAudit' /\ Opened' /\ Reports' /\ Reporting' /\ Leased'
    BY <1>1, <1>9, <2>4, FewerAudits
  <2>7. FewFaulty /\ FlaggedPoisoned => FlaggedPoisoned'
    BY <2>1, <2>2, VerdictIsClean
  <2>. QED  BY <1>1, <2>3, <2>5, <2>6, <2>7 DEF Proposed, PrivateSame, owner
<1>11. CASE audits' = (audits \ open) \cup {Joined(x, r) : x \in open} /\ UNCHANGED <<debited, flagged>>
  <2>1. \A y \in audits' : (y \in audits /\ y \notin open) \/ \E x \in open : y = Joined(x, r)
    BY <1>11
  <2>2. Types'
    <3>1. audits' \in SUBSET Audit
      BY <1>5, <2>1 DEF Types
    <3>. QED  BY <1>1, <1>8, <1>11, <3>1 DEF Types, owner
  <2>3. OneAudit'
    <3>1. ASSUME NEW x \in audits', NEW y \in audits', x.path = y.path, x.gen = y.gen
          PROVE  x = y
      <4>1. CASE x \in audits /\ x \notin open /\ y \in audits /\ y \notin open
        BY <3>1, <4>1 DEF OneAudit
      <4>2. CASE \E z \in open, u \in open : x = Joined(z, r) /\ y = Joined(u, r)
        BY <1>7, <4>2
      <4>3. ASSUME NEW z \in open, NEW u \in audits, u \notin open, u.path = p, u.gen = g
            PROVE  FALSE
        BY <1>4, <4>3 DEF OneAudit
      <4>. QED  BY <1>5, <2>1, <3>1, <4>1, <4>2, <4>3
    <3>2. \A x \in audits' : IsFiniteSet(x.members) /\ Cardinality(x.members) <= Redundancy
      BY <1>4, <1>5, <2>1 DEF OneAudit
    <3>. QED  BY <3>1, <3>2 DEF OneAudit
  <2>4. Opened'
    BY <1>1, <1>4, <1>5, <2>1 DEF Opened
  <2>5. Reports'
    BY <1>6, <2>1 DEF Reports
  <2>6. Reporting'
    <3>1. ASSUME NEW v \in Worker, Running(v)', NEW y \in audits',
                 y.path = worker'[v].path, y.gen = worker'[v].gen, NEW c \in y.checks
          PROVE  c.peer # v
      <4>1. v # w /\ worker'[v] = worker[v] /\ Running(v)
        BY <1>1, <3>1, IdleType DEF Types, Running, Idle
      <4>2. CASE y \in audits
        BY <3>1, <4>1, <4>2 DEF Reporting, AuditsOf
      <4>3. ASSUME NEW x \in open, y = Joined(x, r) PROVE c.peer # v
        <5>1. x \in audits /\ x.path = worker[v].path /\ x.gen = worker[v].gen
          BY <1>4, <1>5, <3>1, <4>1, <4>3
        <5>2. c \in x.checks \/ c = r
          BY <1>5, <3>1, <4>3
        <5>. QED  BY <1>3, <4>1, <5>1, <5>2 DEF Reporting, AuditsOf
      <4>. QED  BY <2>1, <4>2, <4>3
    <3>2. \A v \in Worker : Running(v)' => worker'[v].gen < completed'[worker'[v].path]
      BY <1>1, <1>9 DEF Reporting
    <3>. QED  BY <1>9, <3>1, <3>2 DEF Reporting, AuditsOf
  <2>7. Leased'
    <3>. SUFFICES ASSUME NEW v \in Worker, Fenced(v)',
                         NEW y \in audits', y.path = worker'[v].path, y.gen = worker'[v].gen
                  PROVE  v \in y.members
      BY DEF Leased, AuditsOf
    <3>1. worker'[v] = worker[v] /\ Fenced(v)
      BY <1>1, <1>9 DEF Fenced
    <3>2. CASE y \in audits
      BY <3>1, <3>2 DEF Leased, AuditsOf
    <3>3. ASSUME NEW x \in open, y = Joined(x, r) PROVE v \in y.members
      BY <1>4, <1>5, <3>1, <3>3 DEF Leased, AuditsOf
    <3>. QED  BY <2>1, <3>2, <3>3
  <2>. QED  BY <1>1, <1>11, <2>2, <2>3, <2>4, <2>5, <2>6, <2>7 DEF Proposed, PrivateSame, owner, FlaggedPoisoned
<1>. QED  BY <1>2, <1>10, <1>11 DEF r

-----------------------------------------------------------------------------
\* The invariant holds.

LEMMA InitInv == Init => IInv /\ FlaggedPoisoned
<1>. SUFFICES ASSUME Init PROVE IInv /\ FlaggedPoisoned
  OBVIOUS
<1>1. \A p \in Path : proposals[p] = <<>> /\ private[p] = None
  BY DEF Init
<1>2. \A w \in Worker : worker[w] = Idle
  BY DEF Init
<1>3. Types
  BY <1>2, IdleType, ConstantAssumption DEF Init, Types
<1>4. OneAudit /\ Opened /\ Reports
  BY DEF Init, OneAudit, Opened, Reports
<1>5. Reporting /\ Leased
  BY <1>2, IdleType DEF Reporting, Leased, Fenced, Running, Idle
<1>6. DOMAIN <<>> = {} /\ Len(<<>>) = 0
  OBVIOUS
<1>7. Proposed /\ PrivateSame
  BY <1>1, <1>6, ConstantAssumption DEF Proposed, PrivateSame
<1>. QED  BY <1>3, <1>4, <1>5, <1>7 DEF Init, IInv, FlaggedPoisoned

LEMMA NextInv == IInv /\ [Next]_vars => IInv'
<1>. SUFFICES ASSUME IInv, [Next]_vars PROVE IInv'
  OBVIOUS
<1>1. ASSUME NEW w \in Worker, WorkerStep(w) PROVE IInv'
  BY <1>1, LeaseStep, LeaseCheckStep, CommitStep, RefusedStep, PushStep, CommitCheckStep DEF WorkerStep
<1>2. CASE UNCHANGED vars
  BY <1>2
  DEF vars, IInv, Types, OneAudit, Opened, Reports, ReportsOf, Reporting, Running, Leased, Fenced,
      AuditsOf, Proposed, PrivateSame
<1>. QED  BY <1>1, <1>2, ReclaimStep, TimeOutStep DEF Next

LEMMA FlaggedStep == FewFaulty /\ IInv /\ FlaggedPoisoned /\ [Next]_vars => FlaggedPoisoned'
<1>. SUFFICES ASSUME FewFaulty, IInv, FlaggedPoisoned, [Next]_vars PROVE FlaggedPoisoned'
  OBVIOUS
<1>1. ASSUME NEW w \in Worker, CommitCheck(w) PROVE FlaggedPoisoned'
  BY <1>1, CommitCheckStep
<1>2. ASSUME NEW p, NEW g, TimeOut(p, g) PROVE FlaggedPoisoned'
  <2>1. PICK x \in audits : Resolve(x)
    BY <1>2 DEF TimeOut, AuditsOf
  <2>2. x \in Audit /\ ReportsOf(x)
    BY DEF IInv, Types, Reports
  <2>. QED  BY <2>1, <2>2, VerdictIsClean
<1>3. CASE flagged' = flagged
  BY <1>3 DEF FlaggedPoisoned
<1>. QED
  BY <1>1, <1>2, <1>3
  DEF Next, WorkerStep, Lease, LeaseCheck, Commit, Refused, Push, Reproduce, Vanish, Reclaim, vars, scheduler

LEMMA AlwaysInv == Spec => []IInv
BY InitInv, NextInv, PTL DEF Spec

\* Every variable of the audits has its type; a task has one audit, with no
\* more members than runs and no more reports than members.
THEOREM TypeCorrect == Spec => []TypeOK
<1>1. IInv => TypeOK
  <2>. SUFFICES ASSUME IInv PROVE TypeOK
    OBVIOUS
  <2>. USE DEF IInv
  <2>1. ASSUME NEW x \in audits
        PROVE  /\ x \in Audit /\ AuditsOf(x.path, x.gen) = {x}
               /\ Cardinality(x.members) <= Redundancy
               /\ {c.peer : c \in x.checks} \subseteq x.members
               /\ Cardinality({c.peer : c \in x.checks}) = Cardinality(x.checks)
    <3>. DEFINE S == x.checks
                P == {c.peer : c \in S}
                peer == [c \in S |-> c.peer]
    <3>1. x \in Audit /\ IsFiniteSet(x.members) /\ Cardinality(x.members) <= Redundancy
      BY DEF Types, OneAudit
    <3>2. P \subseteq x.members /\ \A c, d \in S : c.peer = d.peer => c = d
      BY DEF Reports, ReportsOf
    <3>3. AuditsOf(x.path, x.gen) = {x}
      BY DEF OneAudit, AuditsOf
    <3>4. peer \in Bijection(S, P)
      <4>1. peer \in [S -> P]
        OBVIOUS
      <4>2. \A q \in P : \E c \in S : peer[c] = q
        OBVIOUS
      <4>3. \A c, d \in S : peer[c] = peer[d] => c = d
        BY <3>2
      <4>. HIDE DEF S, P, peer
      <4>. QED  BY <4>1, <4>2, <4>3 DEF Bijection, Injection, Surjection, IsInjective
    <3>5. IsFiniteSet(P)
      <4>. HIDE DEF P
      <4>. QED  BY <3>1, <3>2, FS_Subset
    <3>6. Cardinality(P) = Cardinality(S)
      <4>. HIDE DEF S, P, peer
      <4>1. ExistsBijection(S, P)
        BY <3>4 DEF ExistsBijection
      <4>2. ExistsBijection(P, S)
        BY <4>1, Fun_ExistsBijSymmetric
      <4>. QED  BY <3>5, <4>2, FS_Bijection
    <3>. QED  BY <3>1, <3>2, <3>3, <3>6
  <2>2. \A p \in Path : private[p] # None => private[p].digest \in Digest
    BY DEF Types
  <2>. QED  BY <2>1, <2>2 DEF TypeOK, Types, Proposed
<1>. QED  BY <1>1, AlwaysInv, PTL

\* No correct worker ever loses reputation, however many faulty ones there are:
\* these would have to agree on a result.
CreditKept == debited \subseteq Faulty

\* A verdict debits faulty workers only: no tie, missing report, abstention or
\* audit that a lost lease left behind makes it debit another
\* (_resolve_audit_locked).
THEOREM HonestKeepCredit == Spec => []CreditKept
<1>1. IInv => CreditKept
  BY DEF IInv, CreditKept
<1>. QED  BY <1>1, AlwaysInv, PTL

\* With fewer faulty workers than the quorum of the probe screen, no task on
\* clean data is flagged, either.
THEOREM HonestStand ==
  ASSUME FewFaulty
  PROVE  Spec => []HonestKeepStanding
<1>1. IInv /\ FlaggedPoisoned => HonestKeepStanding
  BY DEF IInv, FlaggedPoisoned, HonestKeepStanding
<1>2. IInv /\ FlaggedPoisoned /\ [Next]_vars => (IInv /\ FlaggedPoisoned)'
  BY NextInv, FlaggedStep
<1>. QED  BY <1>1, <1>2, InitInv, PTL DEF Spec

\* A private module only ever holds what a correct worker computed
\* (_record_private_proposal_locked), however many faulty workers propose
\* different states.
THEOREM PrivateIsSafe == Spec => []NeverOverwrittenAlone
<1>1. IInv => NeverOverwrittenAlone
  BY DEF IInv, PrivateSame, NeverOverwrittenAlone
<1>. QED  BY <1>1, AlwaysInv, PTL

=============================================================================
