---------------------------- MODULE Replication ----------------------------
(***************************************************************************)
(* Dynamic ownership of one module key (schedule/sharded.py,               *)
(* ParameterServer; schedule/ownership.py), in central schedule mode with  *)
(* robust aggregation off.                                                 *)
(*                                                                         *)
(* The scheduler publishes epochs: sets of live owners.  The first K of an *)
(* epoch's owners in the key's rank order hold the key, the first of all   *)
(* is its primary.  Each owner learns of epochs by polling, so that owners *)
(* act under different epochs.  The primary applies the pushes that carry  *)
(* a grant; the others pull its state, version-gated.  A worker that gets  *)
(* no answer, or is told that it went to the wrong owner, presents its     *)
(* grant once more, to the current primary.  Owners crash, leave (handing  *)
(* over to the next rank) and come back, with what their checkpoint file   *)
(* holds.                                                                  *)
(*                                                                         *)
(* An owner is the number of its rank for the key.  The bytes of a module  *)
(* are abstracted to the sequence of grants applied to the seeded bank.    *)
(* A request between owners and its answer are one step, which may not     *)
(* happen; a push and its answer may part.  Private proposals, version     *)
(* history, downlink compression and the workers' reads are left out, and  *)
(* so are restarts of the scheduler.                                       *)
(***************************************************************************)
EXTENDS Integers, FiniteSets, Sequences, Functions

CONSTANTS
  NumOwners,   \* owners are 1 .. NumOwners, by their rank for the key
  LiveSets,    \* the sets of owners the tracker may come to list
  K,           \* the epoch record's k: replicas per key
  MaxEpochs,   \* bound on the number of epochs published
  MaxGrant,    \* bound on the number of grants issued
  MaxSaves,    \* bound on the number of checkpoint files written
  MaxDown      \* bound on the number of crashes and departures

Owner == 1 .. NumOwners
Grant == 1 .. MaxGrant

ASSUME ConstantAssumption ==
  /\ NumOwners \in Nat \ {0}
  /\ LiveSets \subseteq (SUBSET Owner) \ {{}}
  /\ K \in Nat \ {0}
  /\ MaxEpochs \in Nat
  /\ MaxGrant \in Nat
  /\ MaxSaves \in Nat
  /\ MaxDown \in Nat

VARIABLES
  (* The scheduler. *)
  published,  \* the owner sets of the epochs 0, 1, ...
  (* The owner processes. *)
  proc,       \* owner -> "up", "leaving" (_draining) or "down"
  view,       \* owner -> _epoch_num, -1 while it has no epoch
  prev,       \* owner -> the number of _prev_epoch, or -1
  held,       \* owner -> is the key in its bank
  active,     \* owner -> is the key in _active
  version,    \* owner -> its _versions entry: <<epoch, counter>>
  bytes,      \* owner -> its bank entry
  seen,       \* owner -> _seen_grants
  pass,       \* owner -> the rest of its replication pass, or NoPass
  file,       \* owner -> its checkpoint file of the key, or NoFile
  (* The workers and their pushes. *)
  stage,      \* grant -> where its worker is: "none", "first", "failed", "second",
              \* "applied" (it was told so), "over" (it was not, and lets it go)
  wire,       \* the pushes an owner may still read
  (* History. *)
  servers,    \* grant -> the servers that applied it: <<owner, downs[owner]>>
  tainted,    \* the epochs in which the primary went down
  saves,      \* the number of checkpoint files written
  downs       \* owner -> the number of times it went down

replica == <<view, prev, held, active, version, bytes>>
owners == <<proc, replica, seen, pass, file>>
clients == <<stage, wire>>
history == <<servers, tainted, saves, downs>>
vars == <<published, owners, clients, history>>

-----------------------------------------------------------------------------
\* Epochs and placement.

Latest == Len(published) - 1
Members(e) == published[e + 1]

\* owners_for: the K best ranks of an epoch, best first.
OwnersOf(e) == {o \in Members(e) : Cardinality({q \in Members(e) : q < o}) < K}
Primary(e) == CHOOSE o \in Members(e) : \A q \in Members(e) : o <= q

Ranked(S) ==
  [i \in 1 .. Cardinality(S) |-> CHOOSE o \in S : Cardinality({q \in S : q < o}) = i - 1]

Owns(o) == view[o] >= 0 /\ o \in OwnersOf(view[o])
IsPrimary(o) == view[o] >= 0 /\ o = Primary(view[o])

\* The order of versions.
Newer(v, w) == v[1] > w[1] \/ (v[1] = w[1] /\ v[2] > w[2])

Fresh == <<0, 0>>   \* the version of the seeded bank
NoPass == [left |-> <<>>, served |-> FALSE]
NoFile == [version |-> <<-1, 0>>, bytes |-> <<>>]

Version == (Nat \cup {-1}) \X Nat
Push == [grant : Grant, to : Owner, nth : {"first", "second"}]
Pass == [left : Seq(Owner), served : BOOLEAN]

-----------------------------------------------------------------------------
Init ==
  /\ published = <<>>
  /\ proc = [o \in Owner |-> "up"]
  /\ view = [o \in Owner |-> -1]
  /\ prev = [o \in Owner |-> -1]
  /\ held = [o \in Owner |-> FALSE]
  /\ active = [o \in Owner |-> FALSE]
  /\ version = [o \in Owner |-> Fresh]
  /\ bytes = [o \in Owner |-> <<>>]
  /\ seen = [o \in Owner |-> {}]
  /\ pass = [o \in Owner |-> NoPass]
  /\ file = [o \in Owner |-> NoFile]
  /\ stage = [t \in Grant |-> "none"]
  /\ wire = {}
  /\ servers = [t \in Grant |-> {}]
  /\ tainted = {}
  /\ saves = 0
  /\ downs = [o \in Owner |-> 0]

-----------------------------------------------------------------------------
\* The scheduler publishes the next epoch (publish_epoch).
PublishEpoch ==
  /\ Len(published) < MaxEpochs
  /\ \E S \in LiveSets : published' = Append(published, S)
  /\ UNCHANGED <<owners, clients, history>>

\* epoch_newer; an owner without an epoch adopts any.
EpochNewer(e, o) == e > view[o]

\* An owner polls and adopts the current epoch (apply_epoch).  A gained key is
\* built fresh, or loaded from the checkpoint file; a lost one is kept for one
\* epoch more.  The first epoch of a run is flagged bootstrap.
AdoptEpoch(o) ==
  LET e == Latest
      owned == o \in OwnersOf(e)
      gained == owned /\ ~held[o]
      loads == gained /\ file[o] # NoFile
  IN  /\ proc[o] # "down" /\ pass[o] = NoPass
      /\ EpochNewer(e, o)
      /\ held' = [held EXCEPT ![o] = owned \/ (@ /\ Owns(o))]
      /\ version' = [version EXCEPT
           ![o] = IF loads THEN file[o].version
                  ELSE IF held'[o] /\ ~gained THEN @ ELSE Fresh]
      /\ bytes' = [bytes EXCEPT
           ![o] = IF loads THEN file[o].bytes
                  ELSE IF held'[o] /\ ~gained THEN @ ELSE <<>>]
      /\ active' = [active EXCEPT
           ![o] = \/ @ /\ held'[o]
                  \/ e = 0 /\ owned /\ version'[o] = Fresh]
      /\ prev' = [prev EXCEPT ![o] = view[o]]
      /\ view' = [view EXCEPT ![o] = e]
      /\ UNCHANGED <<published, proc, seen, pass, file, clients, history>>

-----------------------------------------------------------------------------
\* Pull replication (_replicate_once): one request after the other, each of
\* which may fail, while pushes and drains go on.  The replication thread also
\* polls, so that no epoch is adopted in the middle of a pass.

\* Every other owner of the epoch, then the owners of the epoch before.
Sources(o) ==
  LET now == OwnersOf(view[o]) \ {o}
      before == IF prev[o] >= 0 THEN OwnersOf(prev[o]) \ (now \cup {o}) ELSE {}
  IN  Ranked(now) \o Ranked(before)

\* The sources the pass has yet to ask.
ToAsk(o) == IF pass[o] = NoPass THEN Sources(o) ELSE pass[o].left

\* An active primary has nothing to pull.
Pulls(o) ==
  /\ proc[o] # "down"
  /\ Owns(o) /\ ~(IsPrimary(o) /\ active[o])

\* A sole owner that has nobody to ask is authoritative.
SoleOwner(o) ==
  /\ Pulls(o) /\ ~active[o]
  /\ Sources(o) = <<>>
  /\ active' = [active EXCEPT ![o] = TRUE]
  /\ UNCHANGED <<published, proc, view, prev, held, version, bytes, seen, pass, file,
                 clients, history>>

\* Mutant of Answers: a source that is still syncing refuses.
AnswersIfActive(s, o) ==
  /\ proc[s] # "down" /\ held[s] /\ active[s]
  /\ o \in OwnersOf(view[s])

\* A source hands its exact state to an owner of the key in its own epoch,
\* also while it is syncing itself (_fetch with include_state).
Answers(s, o) ==
  /\ proc[s] # "down" /\ held[s]
  /\ o \in OwnersOf(view[s])

\* Mutant of Adopt: the version gate is left out.
AdoptAnything(o, s) ==
  /\ version' = [version EXCEPT ![o] = version[s]]
  /\ bytes' = [bytes EXCEPT ![o] = bytes[s]]

\* The version gate of pulls and drains.
Adopt(o, s) ==
  /\ version' = [version EXCEPT ![o] = IF Newer(version[s], @) THEN version[s] ELSE @]
  /\ bytes' = [bytes EXCEPT ![o] = IF Newer(version[s], version[o]) THEN bytes[s] ELSE @]

\* An active key is done at the first answer; a syncing one asks all sources
\* and becomes active if one of them answered.
AfterSource(o, answered) ==
  LET served == pass[o].served \/ answered
      last == Len(ToAsk(o)) = 1 \/ (active[o] /\ answered)
  IN  /\ pass' = [pass EXCEPT
           ![o] = IF last THEN NoPass ELSE [left |-> Tail(ToAsk(o)), served |-> served]]
      /\ active' = [active EXCEPT ![o] = @ \/ (last /\ served)]

Pull(o) ==
  /\ Pulls(o) /\ ToAsk(o) # <<>>
  /\ Answers(Head(ToAsk(o)), o)
  /\ Adopt(o, Head(ToAsk(o)))
  /\ AfterSource(o, TRUE)
  /\ UNCHANGED <<published, proc, view, prev, held, seen, file, clients, history>>

\* The source is away, has not the key, or does not hand it to this owner.
PullNothing(o) ==
  /\ Pulls(o) /\ ToAsk(o) # <<>>
  /\ AfterSource(o, FALSE)
  /\ UNCHANGED <<published, proc, view, prev, held, version, bytes, seen, file, clients, history>>

-----------------------------------------------------------------------------
\* Pushes.

\* A push is on its way to an owner that is up; another one cannot be reached.
Sent(t, o, nth) ==
  {m \in {[grant |-> t, to |-> o, nth |-> nth]} : proc[o] # "down"}

\* The scheduler granted a commit; the worker pushes to the primary of the
\* epoch its task was routed by.
PushFirst(t) ==
  /\ stage[t] = "none"
  /\ \A u \in Grant : u < t => stage[u] # "none"
  /\ \E e \in 0 .. Latest :
       wire' = wire \cup Sent(t, Primary(e), "first")
  /\ stage' = [stage EXCEPT ![t] = "first"]
  /\ UNCHANGED <<published, owners, history>>

\* Refused as not_primary, or unanswered, it asks the scheduler for the current
\* routing and presents the grant once more.
PushAgain(t) ==
  /\ stage[t] = "failed"
  /\ wire' = wire \cup Sent(t, Primary(Latest), "second")
  /\ stage' = [stage EXCEPT ![t] = "second"]
  /\ UNCHANGED <<published, owners, history>>

\* What the worker does about a push that did not land.
Failed(nth) == IF nth = "first" THEN "failed" ELSE "over"

\* Its connection cannot be opened, or breaks before an answer comes.  The push may still be read,
\* now or later, or never.
GiveUp(t) ==
  /\ stage[t] \in {"first", "second"}
  /\ stage' = [stage EXCEPT ![t] = Failed(stage[t])]
  /\ UNCHANGED <<published, owners, wire, history>>

\* _may_write_locked in central mode: only the active primary, and not while
\* it leaves.
MayWrite(o) == proc[o] = "up" /\ active[o] /\ IsPrimary(o)

\* Mutant of NextVersion: the counter runs on across epochs.
NextVersionPlain(o) == <<version[o][1], version[o][2] + 1>>

\* _bump_version_locked.
NextVersion(o) ==
  IF version[o][1] = view[o] THEN <<view[o], version[o][2] + 1>> ELSE <<view[o], 1>>

\* The owner's answer.  A consumed grant is refused for good.  Without an
\* epoch the key is in no bank, none of it is skipped, and the push is
\* acknowledged as applied.
Reply(m) ==
  IF m.grant \in seen[m.to] THEN "replay"
  ELSE IF MayWrite(m.to) \/ view[m.to] = -1 THEN "applied"
  ELSE "not_primary"

\* Mutant of Consumes: a grant is not used up.
ConsumesNothing(m) == seen[m.to]

\* The grants used up at the owner that handles m.
Consumes(m) == seen[m.to] \cup {m.grant}

\* An owner handles a push (_push).  Its answer reaches the worker if that
\* still waits for it.
HandlePush(m) ==
  LET o == m.to
      t == m.grant
      applies == Reply(m) = "applied" /\ MayWrite(o)
  IN  /\ proc[o] # "down"
      /\ wire' = wire \ {m}
      /\ seen' = [seen EXCEPT ![o] = Consumes(m)]
      /\ version' = [version EXCEPT ![o] = IF applies THEN NextVersion(o) ELSE @]
      /\ bytes' = [bytes EXCEPT ![o] = IF applies THEN Append(@, t) ELSE @]
      /\ servers' = [servers EXCEPT ![t] = IF applies THEN @ \cup {<<o, downs[o]>>} ELSE @]
      /\ stage' = [stage EXCEPT
           ![t] = CASE @ # m.nth -> @
                    [] @ = m.nth /\ Reply(m) = "applied" -> "applied"
                    [] @ = m.nth /\ Reply(m) = "not_primary" -> Failed(m.nth)
                    [] @ = m.nth /\ Reply(m) = "replay" -> "over"]
      /\ UNCHANGED <<published, proc, view, prev, held, active, pass, file, tainted, saves, downs>>

-----------------------------------------------------------------------------
\* Checkpoints, crashes, departures.

\* save_modules, on the scheduler's checkpoint request.
Checkpoint(o) ==
  /\ proc[o] # "down" /\ held[o]
  /\ saves < MaxSaves
  /\ saves' = saves + 1
  /\ file' = [file EXCEPT ![o] = [version |-> version[o], bytes |-> bytes[o]]]
  /\ UNCHANGED <<published, proc, replica, seen, pass, clients, servers, tainted, downs>>

Downs == FoldFunction(+, 0, downs)

\* The process is gone, with its memory and the pushes it had not read.
\* (Its variables take their initial values.)
GoDown(o) ==
  /\ Downs < MaxDown
  /\ downs' = [downs EXCEPT ![o] = @ + 1]
  /\ proc' = [proc EXCEPT ![o] = "down"]
  /\ view' = [view EXCEPT ![o] = -1]
  /\ prev' = [prev EXCEPT ![o] = -1]
  /\ held' = [held EXCEPT ![o] = FALSE]
  /\ active' = [active EXCEPT ![o] = FALSE]
  /\ seen' = [seen EXCEPT ![o] = {}]
  /\ pass' = [pass EXCEPT ![o] = NoPass]
  /\ wire' = {m \in wire : m.to # o}
  /\ tainted' = IF IsPrimary(o) THEN tainted \cup {view[o]} ELSE tainted
  /\ UNCHANGED <<published, file, stage, servers, saves>>

Crash(o) ==
  /\ proc[o] # "down"
  /\ GoDown(o)
  /\ version' = [version EXCEPT ![o] = Fresh]
  /\ bytes' = [bytes EXCEPT ![o] = <<>>]

\* A graceful shutdown begins: no more writes are accepted.  A round of the
\* replication thread that is under way may still poll and pull; here there may
\* be several.
Leave(o) ==
  /\ proc[o] = "up"
  /\ Downs < MaxDown
  /\ proc' = [proc EXCEPT ![o] = "leaving"]
  /\ UNCHANGED <<published, replica, seen, pass, file, clients, history>>

\* The second rank of the leaving primary's epoch takes a drain
\* (_drain_to_backups, _drain_recv).
Drains(o, r) ==
  /\ active[o] /\ IsPrimary(o)
  /\ r \in OwnersOf(view[o]) \ {o}
  /\ \A q \in OwnersOf(view[o]) \ {o} : r <= q
  /\ proc[r] # "down" /\ held[r]
  /\ o \in OwnersOf(view[r])

\* It ends: the last state goes to the second rank, if that can be reached.
Depart(o) ==
  /\ proc[o] = "leaving"
  /\ GoDown(o)
  /\ LET Handed(r, f, g) == [f EXCEPT ![o] = g, ![r] = IF Newer(version[o], version[r])
                                                       THEN f[o] ELSE @]
     IN  \/ \E r \in Owner :
              /\ Drains(o, r)
              /\ version' = Handed(r, version, Fresh)
              /\ bytes' = Handed(r, bytes, <<>>)
         \/ /\ version' = [version EXCEPT ![o] = Fresh]
            /\ bytes' = [bytes EXCEPT ![o] = <<>>]

\* The owner process is started again, with --resume.
Restart(o) ==
  /\ proc[o] = "down"
  /\ proc' = [proc EXCEPT ![o] = "up"]
  /\ UNCHANGED <<published, replica, seen, pass, file, clients, history>>

-----------------------------------------------------------------------------
OwnerStep(o) ==
  \/ AdoptEpoch(o)
  \/ SoleOwner(o)
  \/ Pull(o)
  \/ PullNothing(o)
  \/ Checkpoint(o)
  \/ Crash(o)
  \/ Leave(o)
  \/ Depart(o)
  \/ Restart(o)

Next ==
  \/ PublishEpoch
  \/ \E o \in Owner : OwnerStep(o)
  \/ \E t \in Grant : PushFirst(t) \/ PushAgain(t) \/ GiveUp(t)
  \/ \E m \in wire : HandlePush(m)

Spec == Init /\ [][Next]_vars

\* Each round of the replication thread of a process that is up polls before it
\* pulls, and neither request fails for ever.  Nobody has to start a process
\* again.
Fairness ==
  \A o \in Owner :
    /\ SF_vars(AdoptEpoch(o))
    /\ WF_vars(SoleOwner(o))
    /\ WF_vars(Pull(o) \/ PullNothing(o))
    /\ SF_vars(Pull(o))

FairSpec == Spec /\ Fairness

-----------------------------------------------------------------------------
\* The types; and a key is active only where it is in the bank.
TypeOK ==
  /\ published \in Seq(LiveSets)
  /\ proc \in [Owner -> {"up", "leaving", "down"}]
  /\ view \in [Owner -> Nat \cup {-1}]
  /\ prev \in [Owner -> Nat \cup {-1}]
  /\ \A o \in Owner : view[o] <= Latest /\ (prev[o] < view[o] \/ view[o] = -1)
  /\ held \in [Owner -> BOOLEAN]
  /\ active \in [Owner -> BOOLEAN]
  /\ \A o \in Owner : active[o] => held[o]
  /\ version \in [Owner -> Version]
  /\ bytes \in [Owner -> Seq(Grant)]
  /\ seen \in [Owner -> SUBSET Grant]
  /\ pass \in [Owner -> Pass]
  /\ file \in [Owner -> [version : Version, bytes : Seq(Grant)]]
  /\ stage \in [Grant -> {"none", "first", "failed", "second", "applied", "over"}]
  /\ wire \subseteq Push
  /\ servers \in [Grant -> SUBSET (Owner \X Nat)]
  /\ tainted \subseteq Nat
  /\ saves \in 0 .. MaxSaves
  /\ downs \in [Owner -> Nat]

IsPrefixOf(s, u) == Len(s) <= Len(u) /\ SubSeq(u, 1, Len(s)) = s

\* Versions tell the truth about bytes: of two copies of the key whose
\* versions are of one epoch the older is a prefix of the newer, and equal
\* versions are equal bytes, wherever they were pulled, drained or loaded from
\* and however many primaries act at once; except for the versions of an
\* epoch in which the primary went down.
VersionsIdentifyBytes ==
  \A o, q \in Owner :
    /\ held[o] /\ held[q]
    /\ version[o][1] = version[q][1] /\ version[o][1] \notin tainted
    /\ version[o][2] <= version[q][2]
    => IsPrefixOf(bytes[o], bytes[q])

\* The copy an owner holds never goes back to an older version while it stays
\* in its bank, unless it came from an epoch ahead of the owner's own.
VersionsGoForward ==
  [][\A o \in Owner :
       held[o] /\ held'[o] /\ version[o][1] <= view[o] => ~Newer(version[o], version'[o])]_vars

Times(t, s) == Cardinality({i \in DOMAIN s : s[i] = t})

\* Grants are single-use per server, and what a copy is pulled, drained or
\* loaded from does not change that: no copy has a grant more often than there
\* are servers that applied it, a restarted process being another server.
AppliedOncePerServer ==
  \A o \in Owner, t \in Grant : Times(t, bytes[o]) <= Cardinality(servers[t])

\* When epochs stop changing and the last one's owners are up, every one of
\* them comes to serve the key, if there are several: owners that all have to
\* sync do not wait for each other.
Settled ==
  /\ Len(published) = MaxEpochs
  /\ Cardinality(OwnersOf(Latest)) > 1
  /\ \A o \in OwnersOf(Latest) : proc[o] = "up"

OwnersComeToServe ==
  <>[](Latest >= 0 /\ Settled) => <>[](Latest >= 0 /\ \A o \in OwnersOf(Latest) : active[o])

-----------------------------------------------------------------------------
=============================================================================
