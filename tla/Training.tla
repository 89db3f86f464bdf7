------------------------------ MODULE Training ------------------------------
(***************************************************************************)
(* The synchronous engine over torch.distributed (train/loop.py,            *)
(* backend/torch_dist.py, distributed.py, checkpoint.py).  Each rank owns a *)
(* block of paths and the modules they use; in a round it trains its paths, *)
(* sums each shared module's pseudo-gradient with the ranks that share it,   *)
(* one all-reduce after the other, steps its copies and redistributes them.  *)
(* The driver saves a directory per round; the job may be killed anywhere    *)
(* and launched again, from scratch or from a directory.                     *)
(*                                                                           *)
(* The content of a module is how much of each path's training it holds.     *)
(* What an inner phase of path p adds of p depends on the states of the      *)
(* rank's generator and of p's optimizer; the outer step adds the summed     *)
(* pseudo-gradients, each path's by its weight, with Nesterov momentum (rate *)
(* and momentum are 1, the weighted sum is not divided).                     *)
(***************************************************************************)
EXTENDS Topology

CONSTANTS
  World,         \* number of ranks, dividing the number of paths
  Weighting,     \* "shard_size", "mean" or "sharing"
  Tokens,        \* path -> tokens of its shard; 0 for an empty one
  ValLoss,       \* path -> round -> its shard-validation loss after that round
  Rounds,        \* rounds the driver trains
  MaxLaunches    \* BOUND: launches of the job

ASSUME TrainingAssumption ==
  /\ World \in Nat \ {0}
  /\ NumPaths % World = 0
  /\ Weighting \in {"shard_size", "mean", "sharing"}
  /\ Tokens \in [GridPath -> Nat]
  /\ ValLoss \in [GridPath -> [1..Rounds -> Nat]]
  /\ Rounds \in Nat \ {0}
  /\ MaxLaunches \in Nat \ {0}

VARIABLES
  launches,   \* launches so far
  source,     \* the directory this launch loads, 0 to start from scratch
  mode,       \* engine.materialize, "eager" or "serial"
  pc,         \* rank -> where its program is; all "down" between launches
  at,         \* rank -> its place in the walk over the keys
  groups,     \* rank -> keys whose process group it has built
  bank,       \* rank -> engine.bank: key it owns -> content
  outer,      \* rank -> state of engine.outer_opt: shared key -> momentum
  work,       \* rank -> engine.path_models: path -> key -> content (eager)
  inner,      \* rank -> inner optimizer state: path -> inner phases it has seen
  draws,      \* rank -> state of engine._gen: shards it has shuffled
  best,       \* rank -> best_val_loss, best_path_state: path -> [loss, state]
  round,      \* rank -> engine._global_round
  acc,        \* rank -> (acc_sum, acc_w): shared key -> [sum, weight]
  full,       \* rank -> the bank gather_full_bank has assembled so far
  dirs        \* round -> [files : rank -> what rank{r}.pt holds, meta : BOOLEAN]

engine == <<bank, outer, work, inner, draws, best, round>>
jobVars == <<launches, source, mode, pc, at, groups, acc, full, dirs, engine>>

-----------------------------------------------------------------------------
Rank == 0..(World - 1)

GroupSize == NumPaths \div World

RankOf(path) == PathIndex(path) \div GroupSize

OwnedPaths == [r \in Rank |-> SubSeq(Paths, r * GroupSize + 1, (r + 1) * GroupSize)]

\* The ranks of a module's process group: those that own a path through it.
Members == [key \in Key |-> {r \in Rank : \E p \in PathsThrough(key) : RankOf(p) = r}]

Owns(r, key) == key \in groups[r] /\ r \in Members[key]

OwnedKeys == [r \in Rank |-> Among(ModuleKeys, {key \in Key : r \in Members[key]})]

\* Mutant: walk the shared modules in an order of the rank's own.
SharedKeysOwnOrder ==
  [r \in Rank |-> LET keys == Among(OwnedKeys[r], {key \in Key : ~IsPrivate(key)})
                  IN IF 2 * r < World THEN keys ELSE Reverse(keys)]

SharedKeys == [r \in Rank |-> Among(OwnedKeys[r], {key \in Key : ~IsPrivate(key)})]

KeysOf == [path \in GridPath |-> ToSet(PathModuleKeys[path])]

Zero == [p \in GridPath |-> 0]

Plus(c, d) == [p \in GridPath |-> c[p] + d[p]]

Minus(c, d) == [p \in GridPath |-> c[p] - d[p]]

Times(w, c) == [p \in GridPath |-> w * c[p]]

\* Weight of a path's pseudo-gradient in a module, in whole units.
OuterWeight(key, path) ==
  CASE Weighting = "shard_size" -> Tokens[path]
    [] Weighting = "mean"       -> 1
    [] OTHER                    -> NumPaths \div SharingCount(key)

\* A path's model built from a bank.
PathModel(b, path) == [key \in KeysOf[path] |-> b[key]]

FreshBank(r) == [key \in ToSet(OwnedKeys[r]) |-> Zero]

WorkOf(r, b) ==
  IF mode = "eager" THEN [p \in ToSet(OwnedPaths[r]) |-> PathModel(b, p)] ELSE <<>>

\* The inner phases a path's optimizer has seen; without a state it is a new one.
Seen(phases, path) == IF path \in DOMAIN phases THEN phases[path] ELSE 0

NoFiles == [files |-> <<>>, meta |-> FALSE]

-----------------------------------------------------------------------------
(* The ranks' programs.  "build" and "gather" walk all keys, "reduce" the     *)
(* shared keys the rank owns; a rank waits there for the others of the group. *)

JobInit ==
  /\ launches = 0
  /\ source = 0
  /\ mode = "eager"
  /\ pc = [r \in Rank |-> "down"]
  /\ at = [r \in Rank |-> 1]
  /\ groups = [r \in Rank |-> {}]
  /\ bank = [r \in Rank |-> <<>>]
  /\ outer = [r \in Rank |-> <<>>]
  /\ work = [r \in Rank |-> <<>>]
  /\ inner = [r \in Rank |-> <<>>]
  /\ draws = [r \in Rank |-> 0]
  /\ best = [r \in Rank |-> <<>>]
  /\ round = [r \in Rank |-> 0]
  /\ acc = [r \in Rank |-> <<>>]
  /\ full = [r \in Rank |-> <<>>]
  /\ dirs = [g \in 1..Rounds |-> NoFiles]

Up == \E r \in Rank : pc[r] /= "down"

Wiped ==
  /\ at' = [r \in Rank |-> 1]
  /\ groups' = [r \in Rank |-> {}]
  /\ bank' = [r \in Rank |-> <<>>]
  /\ outer' = [r \in Rank |-> <<>>]
  /\ work' = [r \in Rank |-> <<>>]
  /\ inner' = [r \in Rank |-> <<>>]
  /\ draws' = [r \in Rank |-> 0]
  /\ best' = [r \in Rank |-> <<>>]
  /\ round' = [r \in Rank |-> 0]
  /\ acc' = [r \in Rank |-> <<>>]
  /\ full' = [r \in Rank |-> <<>>]

\* latest_checkpoint: the highest-round directory that has a meta.json.
LatestCheckpoint ==
  LET found == {g \in 1..Rounds : dirs[g].meta} IN IF found = {} THEN 0 ELSE Max(found)

\* The operator launches the job: on the latest checkpoint or, when that one
\* does not load, on an older directory or from scratch.
Launch(g, m) ==
  /\ ~Up
  /\ launches < MaxLaunches
  /\ g <= LatestCheckpoint
  /\ launches' = launches + 1
  /\ source' = g
  /\ mode' = m
  /\ pc' = [r \in Rank |-> "build"]
  /\ UNCHANGED <<at, groups, acc, full, dirs, engine>>

\* The launcher kills every rank, whatever each is doing.
Kill ==
  /\ Up
  /\ launches < MaxLaunches
  /\ pc' = [r \in Rank |-> "down"]
  /\ Wiped
  /\ UNCHANGED <<launches, source, mode, dirs>>

\* The key a rank in a walk waits on.
Awaits(r) ==
  CASE pc[r] \in {"build", "gather"} -> ModuleKeys[at[r]]
    [] pc[r] = "reduce"              -> SharedKeys[r][at[r]]

Meet(ranks, where, key) == \A r \in ranks : pc[r] = where /\ Awaits(r) = key

\* dist.new_group is entered by all ranks, members of the group or not.
BuildGroup(key) ==
  /\ Meet(Rank, "build", key)
  /\ groups' = [r \in Rank |-> groups[r] \cup {key}]
  /\ LET last == at[0] = Len(ModuleKeys)
     IN /\ at' = [r \in Rank |-> IF last THEN 1 ELSE at[r] + 1]
        /\ pc' = [r \in Rank |-> IF last THEN "make" ELSE "build"]
  /\ UNCHANGED <<launches, source, mode, acc, full, dirs, engine>>

\* What follows a round, or the loading of a checkpoint.
AfterRound(g) == IF g < Rounds THEN "train" ELSE "gather"

\* DiPaCoEngine.__init__: the same seeded weights on every rank, of the modules
\* the rank owns.  Then load_checkpoint, if the launch names a directory.
MakeEngine(r) ==
  /\ pc[r] = "make"
  /\ LET b == FreshBank(r)
     IN /\ bank' = [bank EXCEPT ![r] = b]
        /\ outer' = [outer EXCEPT ![r] = [key \in ToSet(SharedKeys[r]) |-> Zero]]
        /\ work' = [work EXCEPT ![r] = WorkOf(r, b)]
        /\ inner' = [inner EXCEPT ![r] =
                       IF mode = "eager" THEN [p \in ToSet(OwnedPaths[r]) |-> 0] ELSE <<>>]
  /\ pc' = [pc EXCEPT ![r] = IF source = 0 THEN "train" ELSE "load"]
  /\ UNCHANGED <<launches, source, mode, at, groups, draws, best, round, acc, full, dirs>>

\* load_state_dict; the eager engine rebuilds its path models from the bank and
\* hangs the saved optimizer state on them, where there is one.
LoadCheckpoint(r) ==
  /\ pc[r] = "load"
  /\ r \in DOMAIN dirs[source].files
  /\ LET state == dirs[source].files[r]
     IN /\ bank' = [bank EXCEPT ![r] = state.bank]
        /\ outer' = [outer EXCEPT ![r] = state.outer]
        /\ work' = [work EXCEPT ![r] = WorkOf(r, state.bank)]
        /\ inner' = [inner EXCEPT ![r] =
                       IF mode = "serial" THEN state.inner
                       ELSE [p \in ToSet(OwnedPaths[r]) |-> Seen(state.inner, p)]]
        /\ draws' = [draws EXCEPT ![r] = state.draws]
        /\ best' = [best EXCEPT ![r] = state.best]
        /\ round' = [round EXCEPT ![r] = state.round]
        /\ pc' = [pc EXCEPT ![r] = AfterRound(state.round)]
  /\ UNCHANGED <<launches, source, mode, at, groups, acc, full, dirs>>

\* Mutant: a rank without a file starts from its fresh engine.
LoadFailsSoftly(r) ==
  /\ pc[r] = "load"
  /\ r \notin DOMAIN dirs[source].files
  /\ pc' = [pc EXCEPT ![r] = "train"]
  /\ UNCHANGED <<launches, source, mode, at, groups, acc, full, dirs, engine>>

\* The rank finds no file of its own and raises; the launcher kills the others.
LoadFails(r) ==
  /\ pc[r] = "load"
  /\ r \notin DOMAIN dirs[source].files
  /\ pc' = [q \in Rank |-> "down"]
  /\ Wiped
  /\ UNCHANGED <<launches, source, mode, dirs>>

\* Paths of the rank with data, in the order it trains them.
Trained == [r \in Rank |-> Among(OwnedPaths[r], {p \in GridPath : Tokens[p] > 0})]

\* Those of them that use a module.
Through(r, key) == Among(Trained[r], {p \in GridPath : key \in KeysOf[p]})

\* How many paths its rank trains before a path.
Before ==
  [path \in GridPath |->
     Cardinality({q \in ToSet(Trained[RankOf(path)]) : PathIndex(q) < PathIndex(path)})]

\* What an inner phase adds, after so many shuffles of the rank's generator and
\* so many phases of the path's optimizer.
Gain(shuffles, phases) == shuffles + phases + 1

\* A path's model after its inner phase: _acquire's, trained.
Local(r, path) ==
  LET acquired == IF mode = "eager" THEN work[r][path] ELSE PathModel(bank[r], path)
      gain == Gain(draws[r] + Before[path], Seen(inner[r], path))
  IN [key \in KeysOf[path] |-> [acquired[key] EXCEPT ![path] = @ + gain]]

\* A rank's part of a shared module's update: the sums of the weighted
\* pseudo-gradients (global - local, here with the sign of the outer step) of its
\* paths and of their weights.
LocalSum(r, key) ==
  LET weighted(p) == Times(OuterWeight(key, p), Minus(Local(r, p)[key], bank[r][key]))
  IN [sum    |-> FoldLeft(LAMBDA c, p : Plus(c, weighted(p)), Zero, Through(r, key)),
      weight |-> FoldLeft(LAMBDA w, p : w + OuterWeight(key, p), 0, Through(r, key))]

\* The first half of run_round: train every owned path that has data, keep the
\* private modules, and sum up the shared ones' pseudo-gradients.
TrainPaths(r) ==
  /\ pc[r] = "train"
  /\ LET mine == Trained[r]
     IN /\ acc' = [acc EXCEPT ![r] = [key \in ToSet(SharedKeys[r]) |-> LocalSum(r, key)]]
        /\ bank' = [bank EXCEPT ![r] =
             [key \in DOMAIN @ |->
                IF IsPrivate(key) /\ Owns(r, key) /\ Through(r, key) /= <<>>
                THEN Local(r, Last(Through(r, key)))[key] ELSE @[key]]]
        /\ work' = [work EXCEPT ![r] =
             [p \in DOMAIN @ |-> IF p \in ToSet(mine) THEN Local(r, p) ELSE @[p]]]
        /\ inner' = [inner EXCEPT ![r] =
             [p \in DOMAIN @ \cup ToSet(mine) |->
                Seen(@, p) + (IF p \in ToSet(mine) THEN 1 ELSE 0)]]
        /\ draws' = [draws EXCEPT ![r] = @ + Len(mine)]
  /\ pc' = [pc EXCEPT ![r] = IF SharedKeys[r] = <<>> THEN "outer" ELSE "reduce"]
  /\ UNCHANGED <<launches, source, mode, at, groups, outer, best, round, full, dirs>>

\* What the group of a module has together.
GroupSum(key) ==
  LET group == Members[key]
  IN [sum    |-> FoldFunctionOnSet(Plus, Zero, [r \in group |-> acc[r][key].sum], group),
      weight |-> FoldFunctionOnSet(+, 0, [r \in group |-> acc[r][key].weight], group)]

\* global_reduce: the group's all-reduces of one module's sum and weight.
Reduce(key) ==
  LET group == Members[key]
      last(r) == at[r] = Len(SharedKeys[r])
  IN /\ Meet(group, "reduce", key)
     /\ acc' = [r \in Rank |-> IF r \in group THEN [acc[r] EXCEPT ![key] = GroupSum(key)] ELSE acc[r]]
     /\ at' = [r \in Rank |-> IF r \notin group THEN at[r] ELSE IF last(r) THEN 1 ELSE at[r] + 1]
     /\ pc' = [r \in Rank |-> IF r \in group /\ last(r) THEN "outer" ELSE pc[r]]
     /\ UNCHANGED <<launches, source, mode, groups, full, dirs, engine>>

\* An earlier round's best snapshot is kept unless this one's loss is lower.
TrackBest(r, b, g) ==
  [p \in ToSet(OwnedPaths[r]) |->
     IF p \in DOMAIN best[r] /\ best[r][p].loss <= ValLoss[p][g] THEN best[r][p]
     ELSE [loss |-> ValLoss[p][g],
           state |-> IF mode = "eager" THEN work'[r][p] ELSE PathModel(b, p)]]

\* The second half of run_round: the outer step on every shared module, the
\* refreshed weights copied into the eager path models, the best snapshots.
OuterStep(r) ==
  /\ pc[r] = "outer"
  /\ LET m == [key \in DOMAIN outer[r] |-> Plus(outer[r][key], acc[r][key].sum)]
         b == [key \in DOMAIN bank[r] |->
                 IF IsPrivate(key) THEN bank[r][key]
                 ELSE Plus(Plus(bank[r][key], acc[r][key].sum), m[key])]
     IN /\ outer' = [outer EXCEPT ![r] = m]
        /\ bank' = [bank EXCEPT ![r] = b]
        /\ work' = [work EXCEPT ![r] =
             [p \in DOMAIN @ |->
                [key \in DOMAIN @[p] |->
                   IF Owns(r, key) /\ ~IsPrivate(key) THEN b[key] ELSE @[p][key]]]]
        /\ best' = [best EXCEPT ![r] = TrackBest(r, b, round[r] + 1)]
  /\ round' = [round EXCEPT ![r] = @ + 1]
  /\ acc' = [acc EXCEPT ![r] = <<>>]
  /\ pc' = [pc EXCEPT ![r] = "save"]
  /\ UNCHANGED <<launches, source, mode, at, groups, inner, draws, full, dirs>>

\* Mutant of StateDict: the outer optimizer's state is not saved.
StateDictNoOuter(r) ==
  [bank |-> bank[r], outer |-> [key \in DOMAIN outer[r] |-> Zero], inner |-> inner[r],
   draws |-> draws[r], best |-> best[r], round |-> round[r]]

\* state_dict: what a rank needs to resume.
StateDict(r) ==
  [bank |-> bank[r], outer |-> outer[r], inner |-> inner[r],
   draws |-> draws[r], best |-> best[r], round |-> round[r]]

\* save_checkpoint: this rank's file is renamed into the round's directory.
SaveRank(r) ==
  /\ pc[r] = "save"
  /\ dirs' = [dirs EXCEPT ![round[r]].files =
                [q \in DOMAIN @ \cup {r} |-> IF q = r THEN StateDict(r) ELSE @[q]]]
  /\ pc' = [pc EXCEPT ![r] = IF r = 0 THEN "meta" ELSE "barrier"]
  /\ UNCHANGED <<launches, source, mode, at, groups, acc, full, engine>>

\* Rank 0 also writes meta.json, without waiting for the other ranks' files.
WriteMeta ==
  /\ pc[0] = "meta"
  /\ dirs' = [dirs EXCEPT ![round[0]].meta = TRUE]
  /\ pc' = [pc EXCEPT ![0] = "barrier"]
  /\ UNCHANGED <<launches, source, mode, at, groups, acc, full, engine>>

\* The barrier at the end of a save: every rank's file is in place.
Barrier ==
  /\ \A r \in Rank : pc[r] = "barrier"
  /\ pc' = [r \in Rank |-> AfterRound(round[r])]
  /\ UNCHANGED <<launches, source, mode, at, groups, acc, full, dirs, engine>>

\* gather_full_bank: each module is broadcast from the rank of its first path.
GatherSource ==
  [key \in Key |-> RankOf(CHOOSE p \in PathsThrough(key) :
                            \A q \in PathsThrough(key) : PathIndex(p) <= PathIndex(q))]

Gather(key) ==
  /\ Meet(Rank, "gather", key)
  /\ LET last == at[0] = Len(ModuleKeys)
     IN /\ at' = [r \in Rank |-> IF last THEN 1 ELSE at[r] + 1]
        /\ pc' = [r \in Rank |-> IF last THEN "done" ELSE "gather"]
  /\ full' = [r \in Rank |-> [k \in DOMAIN full[r] \cup {key} |->
                IF k = key THEN bank[GatherSource[key]][key] ELSE full[r][k]]]
  /\ UNCHANGED <<launches, source, mode, groups, acc, dirs, engine>>

RankStep(r) ==
  \/ MakeEngine(r)
  \/ LoadCheckpoint(r)
  \/ LoadFails(r)
  \/ SaveRank(r)
  \/ r = 0 /\ WriteMeta

\* What a rank does in a round without the others.
RoundStep(r) == TrainPaths(r) \/ OuterStep(r)

Collective ==
  \/ \E key \in Key : BuildGroup(key) \/ Reduce(key) \/ Gather(key)
  \/ Barrier

\* A step of the running job: of a rank, or a collective all its ranks have entered.
JobStep == (\E r \in Rank : RankStep(r)) \/ Collective \/ (\E r \in Rank : RoundStep(r))

JobNext ==
  \/ \E g \in 0..Rounds, m \in {"eager", "serial"} : Launch(g, m)
  \/ Kill
  \/ JobStep

JobSpec == JobInit /\ [][JobNext]_jobVars

\* A running job goes on while any of its ranks or collectives can (its steps are
\* finitely many, so none is starved).
FairJobSpec == JobSpec /\ WF_jobVars(JobStep)

-----------------------------------------------------------------------------
(* What the same ranks hold after g rounds of a job that is never interrupted. *)

\* The weight with which a path's training enters a module.
Share(key, p) == IF IsPrivate(key) THEN 1 ELSE OuterWeight(key, p)

\* What the paths' training adds to a module in the round after g others.
Update ==
  [key \in Key |-> [g \in 0..Rounds |-> [p \in GridPath |->
     IF key \in KeysOf[p] /\ Tokens[p] > 0
     THEN Share(key, p) * Gain(g * Len(Trained[RankOf(p)]) + Before[p], g) ELSE 0]]]

Expected[g \in 0..Rounds] ==
  IF g = 0 THEN [bank |-> [key \in Key |-> Zero], outer |-> [key \in Key |-> Zero]]
  ELSE LET m == [key \in Key |-> IF IsPrivate(key) THEN Zero
                                 ELSE Plus(Expected[g - 1].outer[key], Update[key][g - 1])]
       IN [outer |-> m,
           bank  |-> [key \in Key |->
                        Plus(Plus(Expected[g - 1].bank[key], Update[key][g - 1]), m[key])]]

ExpectedModel(path, g) == PathModel(Expected[g].bank, path)

BestRound(path, g) ==
  CHOOSE i \in 1..g :
    \A j \in 1..g : \/ ValLoss[path][i] < ValLoss[path][j]
                    \/ ValLoss[path][i] = ValLoss[path][j] /\ i <= j

\* Between two run_round calls of rank r.
Boundary(r) == pc[r] \in {"train", "save", "meta", "barrier", "gather", "done"}

\* Whatever was killed, launched again, loaded, and in whichever mode each launch
\* ran, at a round boundary a rank is where it would be had the same ranks run
\* without an interruption (each shuffles with a generator of its own, so another
\* number of ranks would train otherwise): each replica of a module holds the same
\* work of every sharing path, the outer optimizer has the same momentum and the
\* inner ones have seen each round once, the shuffling has moved as far, the
\* snapshot of a path is that of its best round, and the modules gathered at the
\* end are the final ones, on every rank all of them.
RunsAreExact ==
  \A r \in Rank : Boundary(r) =>
    LET g == round[r]
    IN /\ \A key \in DOMAIN bank[r] : bank[r][key] = Expected[g].bank[key]
       /\ outer[r] = [key \in ToSet(SharedKeys[r]) |-> Expected[g].outer[key]]
       /\ \A p \in DOMAIN work[r] : work[r][p] = ExpectedModel(p, g)
       /\ \A p \in ToSet(Trained[r]) : g > 0 => p \in DOMAIN inner[r] /\ inner[r][p] = g
       /\ draws[r] = g * Len(Trained[r])
       /\ g > 0 => \A p \in ToSet(OwnedPaths[r]) :
            LET i == BestRound(p, g)
            IN best[r][p] = [loss |-> ValLoss[p][i], state |-> ExpectedModel(p, i)]
       /\ \A key \in DOMAIN full[r] : full[r][key] = Expected[Rounds].bank[key]
       /\ pc[r] = "done" => DOMAIN full[r] = Key

\* Ranks never add up pseudo-gradients of different rounds: a directory that a
\* kill left without some rank's file stops the launch, and is not trained on
\* by the ranks that found theirs.
SumsOneRound ==
  \A key \in Key : Meet(Members[key], "reduce", key) =>
    \A q, r \in Members[key] : round[q] = round[r]

\* A job that is not killed, and whose directory is whole, trains to the end:
\* ranks that share modules never wait for each other in a circle.
JobsEnd == <>[](\A r \in Rank : pc[r] \in {"down", "done"})

=============================================================================
