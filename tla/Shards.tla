------------------------------- MODULE Shards -------------------------------
(***************************************************************************)
(* How shards reach the workers of one host, and how a host ingests its part *)
(* of the source (data/spec.py, data/streaming.py, the shard caches of        *)
(* schedule/distributed.py, roles.run_ingest).  The workers share a directory  *)
(* of materialized shards; each keeps a bounded cache in memory.  Workers and   *)
(* servers crash and start again, runs with other data configurations follow.   *)
(***************************************************************************)
EXTENDS Corpus

CONSTANTS
  Worker,
  Configs,       \* data configurations a run can have
  CacheSize,     \* max_shards of a worker
  Verify,        \* whether workers verify routings
  NumShards,     \* hosts that ingest, and this host's number
  ShardId,
  Targets,       \* target_docs an ingestion is launched with
  FlushEvery,
  MaxRuns,       \* BOUND: runs of the system
  MaxLeases,     \* BOUND: tasks leased
  MaxStops       \* BOUND: crashes

\* What the constants satisfy; the module of the run assumes it.
ShardsAssumption ==
  /\ CorpusAssumption
  /\ CacheSize \in Nat \ {0}
  /\ Verify \in BOOLEAN
  /\ NumShards \in Nat \ {0}
  /\ ShardId \in 0..(NumShards - 1)
  /\ Targets \subseteq Nat \ {0}
  /\ FlushEvery \in Nat \ {0}

VARIABLES
  role,     \* what is launched on this host: "worker" or "ingest"
  cfg,      \* the run's data configuration
  corpus,   \* the server's corpus of it
  runs, leases, stops,   \* counters for the bounds
  pc,       \* worker -> where it is
  task,     \* worker -> the task it was leased
  cache,    \* worker -> _ShardCache: [path, shard] from least to most recently used
  seen,     \* worker -> specs it has verified
  inodes,   \* cache files ever opened: [shard, whole, by]
  tmp,      \* names of files being written: cache key -> inode
  file,     \* names of finished files: cache key -> inode
  disk,     \* the ingested shard's file: [docs, next]
  ingest    \* the ingestion under way: [on, docs, next, since, target]

workers == <<pc, task, cache, seen>>
files == <<inodes, tmp, file>>
vars == <<role, cfg, corpus, runs, leases, stops, workers, files, disk, ingest>>

-----------------------------------------------------------------------------
NoTask == [path |-> -1, shard |-> <<>>, ships |-> "nothing"]

\* A corpus as the server holds it: a recipe or the packed shards.
Build(c) ==
  IF c.ship = "spec" THEN BuildSpecCorpus(c) ELSE BuildInHand(c)

NoIngest == [on |-> FALSE, docs |-> <<>>, next |-> 0, since |-> 0, target |-> 0]

Init ==
  /\ role \in {"worker", "ingest"}
  /\ cfg \in Configs
  /\ corpus = Build(cfg)
  /\ runs = 1
  /\ leases = 0
  /\ stops = 0
  /\ pc = [w \in Worker |-> "idle"]
  /\ task = [w \in Worker |-> NoTask]
  /\ cache = [w \in Worker |-> <<>>]
  /\ seen = [w \in Worker |-> {}]
  /\ inodes = <<>>
  /\ tmp = <<>>
  /\ file = <<>>
  /\ disk = [docs |-> <<>>, next |-> 0]
  /\ ingest = NoIngest

-----------------------------------------------------------------------------
(* The worker's cache in memory. *)

CachedPaths(w) == {cache[w][i].path : i \in DOMAIN cache[w]}

\* Where the entry of a path stands in the cache.
At(w, p) == CHOOSE i \in DOMAIN cache[w] : cache[w][i].path = p

Held(w, p) == cache[w][At(w, p)].shard

Without(w, p) == IF p \in CachedPaths(w) THEN RemoveAt(cache[w], At(w, p)) ELSE cache[w]

\* shard_cache[path] = shard: the newest, and the oldest goes when it is full.
Put(w, p, shard) ==
  LET all == Append(Without(w, p), [path |-> p, shard |-> shard])
  IN SubSeq(all, Len(all) - Least(CacheSize, Len(all)) + 1, Len(all))

\* shard_cache[path]: the entry becomes the newest.
Touch(w, p) == Append(Without(w, p), [path |-> p, shard |-> Held(w, p)])

-----------------------------------------------------------------------------
(* Tasks. *)

\* A lease: the shard is shipped, as bytes or as the recipe, unless the worker
\* says it holds the path; a check (an audit's replica) always gets it.
Lease(w, p, checkOnly) ==
  /\ role = "worker"
  /\ pc[w] = "idle"
  /\ leases < MaxLeases
  /\ leases' = leases + 1
  /\ task' = [task EXCEPT ![w] =
       IF ~checkOnly /\ p \in CachedPaths(w) THEN [path |-> p, shard |-> <<>>, ships |-> "nothing"]
       ELSE IF corpus.spec /= <<>> THEN [path |-> p, shard |-> <<>>, ships |-> "spec"]
       ELSE [path |-> p, shard |-> corpus.sequences[p], ships |-> "bytes"]]
  /\ pc' = [pc EXCEPT ![w] = "apply"]
  /\ UNCHANGED <<role, cfg, corpus, runs, stops, cache, seen, files, disk, ingest>>

\* Mutant of CacheKey: files are named by their path alone.
CacheKeyOfPath(spec, p) == <<p>>

\* spec_fingerprint and path name the file of a materialized shard.
CacheKey(spec, p) == <<spec, p>>

NeedsMaterializing(w) == task[w].ships = "spec" /\ task[w].path \notin CachedPaths(w)

\* The task carries the shard, or the worker holds it (or fails to find it).
ApplyTask(w) ==
  /\ pc[w] = "apply"
  /\ ~NeedsMaterializing(w)
  /\ LET p == task[w].path
         missing == task[w].ships /= "bytes" /\ p \notin CachedPaths(w)
     IN /\ cache' = [cache EXCEPT ![w] =
             IF task[w].ships = "bytes" THEN Put(w, p, task[w].shard)
             ELSE IF missing THEN @
             ELSE Touch(w, p)]
        /\ pc' = [pc EXCEPT ![w] = IF missing THEN "missing" ELSE "train"]
  /\ UNCHANGED <<role, cfg, corpus, runs, leases, stops, task, seen, files, disk, ingest>>

\* _materialize_from_spec, up to the file on disk.  A router that does not
\* reproduce, and a torn file that makes torch.load raise, end the process: no
\* loop of the worker catches them.
Materializing(w) ==
  /\ pc[w] = "apply"
  /\ NeedsMaterializing(w)
  /\ LET p == task[w].path
         key == CacheKey(corpus.spec, p)
         refused == Verify /\ corpus.spec \notin seen[w] /\ ~RoutingVerified(corpus.spec)
         torn == key \in DOMAIN file /\ ~inodes[file[key]].whole
     IN \/ /\ refused \/ torn
           /\ pc' = [pc EXCEPT ![w] = "down"]
           /\ UNCHANGED <<cache, seen>>
        \/ /\ ~refused /\ ~torn
           /\ seen' = [seen EXCEPT ![w] = IF Verify THEN @ \cup {corpus.spec} ELSE @]
           /\ cache' = [cache EXCEPT ![w] =
                IF key \in DOMAIN file THEN Put(w, p, inodes[file[key]].shard) ELSE @]
           /\ pc' = [pc EXCEPT ![w] = IF key \in DOMAIN file THEN "loaded" ELSE "stream"]
  /\ UNCHANGED <<role, cfg, corpus, runs, leases, stops, task, files, disk, ingest>>

\* The shard is streamed, and the temporary file opened: a new one, or the one
\* another worker is writing, which is emptied.
OpenTmp(w) ==
  /\ pc[w] = "stream"
  /\ LET key == CacheKey(corpus.spec, task[w].path)
         entry == [shard |-> Materialize(corpus.spec, task[w].path), whole |-> FALSE, by |-> w]
     IN IF key \in DOMAIN tmp
        THEN /\ inodes' = [inodes EXCEPT ![tmp[key]] = entry]
             /\ task' = [task EXCEPT ![w].shard = <<tmp[key]>>]
             /\ UNCHANGED tmp
        ELSE /\ inodes' = Append(inodes, entry)
             /\ task' = [task EXCEPT ![w].shard = <<Len(inodes) + 1>>]
             /\ tmp' = [k \in DOMAIN tmp \cup {key} |-> IF k = key THEN Len(inodes) + 1 ELSE tmp[k]]
  /\ pc' = [pc EXCEPT ![w] = "write"]
  /\ UNCHANGED <<role, cfg, corpus, runs, leases, stops, cache, seen, file, disk, ingest>>

\* The last worker to have emptied the file has written all of it.
WriteTmp(w) ==
  /\ pc[w] = "write"
  /\ inodes' = [inodes EXCEPT ![task[w].shard[1]].whole = @ \/ inodes[task[w].shard[1]].by = w]
  /\ pc' = [pc EXCEPT ![w] = "rename"]
  /\ UNCHANGED <<role, cfg, corpus, runs, leases, stops, task, cache, seen, tmp, file, disk, ingest>>

\* os.replace; without the temporary file it raises an OSError, and the worker
\* drops its connection and the task.
Rename(w) ==
  /\ pc[w] = "rename"
  /\ LET p == task[w].path
         key == CacheKey(corpus.spec, p)
     IN IF key \in DOMAIN tmp
        THEN /\ file' = [k \in DOMAIN file \cup {key} |-> IF k = key THEN tmp[key] ELSE file[k]]
             /\ tmp' = [k \in DOMAIN tmp \ {key} |-> tmp[k]]
             /\ cache' = [cache EXCEPT ![w] = Put(w, p, Materialize(corpus.spec, p))]
             /\ pc' = [pc EXCEPT ![w] = "loaded"]
             /\ UNCHANGED task
        ELSE /\ pc' = [pc EXCEPT ![w] = "idle"]
             /\ task' = [task EXCEPT ![w] = NoTask]
             /\ UNCHANGED <<cache, tmp, file>>
  /\ UNCHANGED <<role, cfg, corpus, runs, leases, stops, seen, inodes, disk, ingest>>

\* `return shard_cache[path]` after the assignment.
Loaded(w) ==
  /\ pc[w] = "loaded"
  /\ LET missing == task[w].path \notin CachedPaths(w)
     IN /\ cache' = [cache EXCEPT ![w] = IF missing THEN @ ELSE Touch(w, task[w].path)]
        /\ pc' = [pc EXCEPT ![w] = IF missing THEN "missing" ELSE "train"]
  /\ UNCHANGED <<role, cfg, corpus, runs, leases, stops, task, seen, files, disk, ingest>>

EndTask(w) ==
  /\ pc[w] = "train"
  /\ pc' = [pc EXCEPT ![w] = "idle"]
  /\ task' = [task EXCEPT ![w] = NoTask]
  /\ UNCHANGED <<role, cfg, corpus, runs, leases, stops, cache, seen, files, disk, ingest>>

\* A worker process dies, in the middle of a write too; a stopped one is started.
Crash(w) ==
  /\ role = "worker"
  /\ pc[w] \notin {"down", "idle"}
  /\ stops < MaxStops
  /\ stops' = stops + 1
  /\ pc' = [pc EXCEPT ![w] = "down"]
  /\ UNCHANGED <<role, cfg, corpus, runs, leases, task, cache, seen, files, disk, ingest>>

Start(w) ==
  /\ pc[w] = "down"
  /\ pc' = [pc EXCEPT ![w] = "idle"]
  /\ task' = [task EXCEPT ![w] = NoTask]
  /\ cache' = [cache EXCEPT ![w] = <<>>]
  /\ seen' = [seen EXCEPT ![w] = {}]
  /\ UNCHANGED <<role, cfg, corpus, runs, leases, stops, files, disk, ingest>>

\* The system is stopped and started, perhaps on another data configuration; the
\* directory stays.
NewRun(c) ==
  /\ role = "worker"
  /\ runs < MaxRuns
  /\ runs' = runs + 1
  /\ cfg' = c
  /\ corpus' = Build(c)
  /\ pc' = [w \in Worker |-> "idle"]
  /\ task' = [w \in Worker |-> NoTask]
  /\ cache' = [w \in Worker |-> <<>>]
  /\ seen' = [w \in Worker |-> {}]
  /\ UNCHANGED <<role, leases, stops, files, disk, ingest>>

-----------------------------------------------------------------------------
(* Ingestion of this host's part of the source; stream positions count from 0. *)

\* shard_stream: the next position of this shard with a document that is kept.
ShardStream(start) ==
  {gi \in start..(Len(Rows) - 1) : gi % NumShards = ShardId /\ Kept(gi + 1)}

\* ingest_c4_shard: what is cached, unless it is enough.
IngestLaunch(target) ==
  /\ role = "ingest"
  /\ ~ingest.on
  /\ Len(disk.docs) < target
  /\ ingest' = [on |-> TRUE, docs |-> disk.docs, next |-> disk.next, since |-> 0, target |-> target]
  /\ UNCHANGED <<role, cfg, corpus, runs, leases, stops, workers, files, disk>>

\* Mutant of ResumeAt: the last accepted document is the resume point.
ResumeAtLast(gi) == gi

\* Where to resume after the document at position gi.
ResumeAt(gi) == gi + 1

\* The next document, flushed when enough have come; the last flush ends it.
IngestDoc ==
  /\ ingest.on
  /\ Len(ingest.docs) < ingest.target
  /\ ShardStream(ingest.next) /= {}
  /\ LET gi == CHOOSE i \in ShardStream(ingest.next) : \A j \in ShardStream(ingest.next) : i <= j
         docs == Append(ingest.docs, gi + 1)
         flush == ingest.since + 1 >= FlushEvery
     IN /\ ingest' = [ingest EXCEPT !.docs = docs, !.next = ResumeAt(gi),
                        !.since = IF flush THEN 0 ELSE @ + 1]
        /\ disk' = IF flush THEN [docs |-> docs, next |-> ResumeAt(gi)] ELSE disk
  /\ UNCHANGED <<role, cfg, corpus, runs, leases, stops, workers, files>>

IngestEnd ==
  /\ ingest.on
  /\ Len(ingest.docs) >= ingest.target \/ ShardStream(ingest.next) = {}
  /\ disk' = [docs |-> ingest.docs, next |-> ingest.next]
  /\ ingest' = NoIngest
  /\ UNCHANGED <<role, cfg, corpus, runs, leases, stops, workers, files>>

IngestCrash ==
  /\ ingest.on
  /\ stops < MaxStops
  /\ stops' = stops + 1
  /\ ingest' = NoIngest
  /\ UNCHANGED <<role, cfg, corpus, runs, leases, workers, files, disk>>

-----------------------------------------------------------------------------
Next ==
  \/ \E w \in Worker :
       \/ \E p \in PathIdx, checkOnly \in BOOLEAN : Lease(w, p, checkOnly)
       \/ ApplyTask(w)
       \/ Materializing(w)
       \/ OpenTmp(w)
       \/ WriteTmp(w)
       \/ Rename(w)
       \/ Loaded(w)
       \/ EndTask(w)
       \/ Crash(w)
       \/ Start(w)
  \/ \E c \in Configs : NewRun(c)
  \/ \E target \in Targets : IngestLaunch(target)
  \/ IngestDoc
  \/ IngestEnd
  \/ IngestCrash

Spec == Init /\ [][Next]_vars

-----------------------------------------------------------------------------
\* The documents the run routes to path p: those of its configuration's corpus.
Routed(c, p) ==
  LET docs == Documents(c.budget)
      n == IF c.ship = "spec" /\ c.sample > 0 THEN Least(c.sample, Len(docs)) ELSE Len(docs)
      robin == c.routing = "round_robin" \/ n < NumPaths
      mine == {i \in DOMAIN docs :
                 p = IF robin THEN (i - 1) % NumPaths ELSE Router[n][docs[i]]}
  IN SelectSeq(docs, LAMBDA row : \E i \in mine : docs[i] = row)

\* Whichever way the shard reached it (bytes, a fresh stream, the directory, its
\* own memory), whoever else was writing the same file, and whatever earlier
\* runs left there, a worker trains on exactly the run's documents of the path,
\* and the server weighs the path by exactly their tokens.
ShardsAreTheRuns ==
  \A w \in Worker : pc[w] = "train" =>
    LET p == task[w].path
    IN /\ Held(w, p) = ToSequences(cfg.pack, Routed(cfg, p))
       /\ corpus.tokenCounts[p] = NumTokens(Routed(cfg, p))

\* However often an ingestion was killed and resumed, and whatever its targets,
\* the file holds each kept document of this shard before its resume point once
\* and in order, and nothing was skipped.
IngestIsExact ==
  /\ ToSet(disk.docs) = {row \in 1..disk.next : (row - 1) % NumShards = ShardId /\ Kept(row)}
  /\ \A i, j \in DOMAIN disk.docs : i < j => disk.docs[i] < disk.docs[j]
=============================================================================
