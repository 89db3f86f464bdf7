------------------------------- MODULE Hosts -------------------------------
(***************************************************************************)
(* What a host that trains is launched as: a rank of the synchronous trainer *)
(* (Training), or a host of the data pipeline (Shards).                       *)
(***************************************************************************)
EXTENDS Training

CONSTANTS
  Rows, AddEos, MaxDocTokens, MinDocTokens, DataPaths, SeqLen, Router, HostRouter,
  DataWorker, Configs, CacheSize, Verify, NumShards, ShardId, Targets, FlushEvery, MaxRuns,
  MaxLeases, MaxStops

VARIABLES
  job, role, cfg, corpus, runs, leases, stops, wpc, wtask, cache, seen, inodes, tmp, file,
  disk, ingest

Sh == INSTANCE Shards WITH NumPaths <- DataPaths, Worker <- DataWorker, pc <- wpc, task <- wtask

ASSUME DataAssumption == Sh!ShardsAssumption

data == <<role, cfg, corpus, runs, leases, stops, wpc, wtask, cache, seen, inodes, tmp, file,
          disk, ingest>>
all == <<job, jobVars, data>>

EitherInit == job \in {"train", "data"} /\ JobInit /\ Sh!Init

Train(A) == job = "train" /\ A /\ UNCHANGED <<job, data>>
Data(A) == job = "data" /\ A /\ UNCHANGED <<job, jobVars>>

EitherNext == Train(JobNext) \/ Data(Sh!Next)

EitherSpec == EitherInit /\ [][EitherNext]_all

EitherFairness == WF_all(Train(JobStep))

\* Workers train on exactly their run's documents of their paths (Shards).
ShardsAreTheRuns == Sh!ShardsAreTheRuns

\* An ingested shard is exact, however often it was killed (Shards).
IngestIsExact == Sh!IngestIsExact

\* The shard of a path in a run: streamed from the run's recipe, or packed by
\* the server.
ShardOf(c, p) ==
  IF c.ship = "spec" THEN Sh!Materialize(Sh!Build(c).spec, p) ELSE Sh!Build(c).sequences[p]

\* The corpus of every configuration holds, path by path, what its documents say
\* (a property of the corpus functions; the module of the run evaluates it).
SourceAgrees ==
  \A c \in Configs : \A p \in Sh!PathIdx :
    /\ ShardOf(c, p) = Sh!ToSequences(c.pack, Sh!Routed(c, p))
    /\ Sh!Build(c).tokenCounts[p] = Sh!NumTokens(Sh!Routed(c, p))
=============================================================================
