------------------------------- MODULE Corpus -------------------------------
(***************************************************************************)
(* Documents, routing and shards (data/text.py, c4.py, sharding.py, spec.py  *)
(* and the corpus builders of launch/roles.py), as functions of the data     *)
(* source.  A row of the source is the number of tokens of its text; a token  *)
(* is the row it comes from and its place in it, 0 for the end-of-sequence    *)
(* token.  The k-means fit is external: Router[n] is the router fitted on the *)
(* first n documents, as the path it sends each row to.                       *)
(***************************************************************************)
EXTENDS Integers, Sequences, FiniteSets, SequencesExt

CONSTANTS
  Rows,           \* the source: tokens of each row's text
  AddEos,         \* whether the tokenizer has an end-of-sequence token
  MaxDocTokens,   \* cap on a document's tokens, 0 for none
  MinDocTokens,   \* shorter documents are dropped
  NumPaths,
  SeqLen,
  Router,         \* n -> router fitted on n documents: row -> path index
  HostRouter      \* the same fit in a worker's environment

\* What the constants satisfy; the module of the run assumes it.
CorpusAssumption ==
  /\ Rows \in Seq(Nat)
  /\ AddEos \in BOOLEAN
  /\ MaxDocTokens \in Nat
  /\ MinDocTokens \in Nat \ {0}
  /\ NumPaths \in Nat \ {0}
  /\ SeqLen \in Nat \ {0}
  /\ Router \in [0..Len(Rows) -> [DOMAIN Rows -> 0..(NumPaths - 1)]]
  /\ HostRouter \in [0..Len(Rows) -> [DOMAIN Rows -> 0..(NumPaths - 1)]]

PathIdx == 0..(NumPaths - 1)

Least(a, b) == IF a < b THEN a ELSE b

\* tokenize_one: truncated with room for the end token, which every document
\* gets, also the one that just fills the cap.
TokenizeOne(row) ==
  LET long == MaxDocTokens > 0 /\ Rows[row] > MaxDocTokens
      kept == IF ~long THEN Rows[row] ELSE IF AddEos THEN MaxDocTokens - 1 ELSE MaxDocTokens
  IN [i \in 1..kept |-> <<row, i>>] \o (IF AddEos THEN <<<<row, 0>>>> ELSE <<>>)

Kept(row) == Len(TokenizeOne(row)) >= MinDocTokens

\* The documents of the first `budget` rows, as the rows they come from: the
\* budget counts rows, kept or not.
Documents(budget) ==
  SelectSeq([i \in 1..Least(budget, Len(Rows)) |-> i], Kept)

NumTokens(docs) == FoldLeft(LAMBDA n, row : n + Len(TokenizeOne(row)), 0, docs)

-----------------------------------------------------------------------------
(* Packing. *)

Windows(tokens) ==
  [i \in 1..(Len(tokens) \div SeqLen) |-> SubSeq(tokens, (i - 1) * SeqLen + 1, i * SeqLen)]

PackSequences(docs) == Windows(FlattenSeq([i \in DOMAIN docs |-> TokenizeOne(docs[i])]))

ChunkDocuments(docs) == FlattenSeq([i \in DOMAIN docs |-> Windows(TokenizeOne(docs[i]))])

ToSequences(packMode, docs) ==
  IF packMode = "pack" THEN PackSequences(docs) ELSE ChunkDocuments(docs)

-----------------------------------------------------------------------------
(* Routing.  A routing is round robin, or a fitted router: the number of       *)
(* documents it was fitted on, and the sample it can be refitted from, 0 when  *)
(* it was fitted on documents in hand.                                         *)

RoundRobin == [kind |-> "round_robin", fit |-> 0, sample |-> 0]

KMeans(n, sample) == [kind |-> "kmeans", fit |-> n, sample |-> sample]

FitInHand(docs) == IF Len(docs) < NumPaths THEN RoundRobin ELSE KMeans(Len(docs), 0)

FitFromSource(budget, sample) ==
  LET n == Least(sample, Len(Documents(budget)))
  IN IF n < NumPaths THEN RoundRobin ELSE KMeans(n, sample)

\* Each document of a spec with the path it is routed to.
IterAssignments(spec) ==
  LET docs == Documents(spec.budget)
  IN [i \in DOMAIN docs |->
       <<docs[i], IF spec.routing.kind = "round_robin" THEN (i - 1) % NumPaths
                  ELSE Router[spec.routing.fit][docs[i]]>>]

\* Refit the spec's router from its own source, in the worker's environment:
\* TRUE if the router is reproduced, or if there is nothing to verify it by (the
\* worker then warns and goes on).
RoutingVerified(spec) ==
  \/ spec.routing.kind = "round_robin"
  \/ spec.routing.sample = 0
  \/ LET again == FitFromSource(spec.budget, spec.routing.sample)
     IN again.kind = "kmeans" => HostRouter[again.fit] = Router[spec.routing.fit]

-----------------------------------------------------------------------------
(* The corpus a server builds.  cfg is the data section: rows to read, routing  *)
(* mode, what is shipped, and the router's sample, 0 for a fit on everything.   *)

MakeShardSpec(cfg, routing) == [budget |-> cfg.budget, routing |-> routing, pack |-> cfg.pack]

\* ShardedCorpus.from_assignments: documents in buckets by path, each packed.
FromAssignments(docs, paths, packMode) ==
  LET bucket(p) == [k \in 1..Cardinality({i \in DOMAIN docs : paths[i] = p}) |->
        docs[CHOOSE i \in DOMAIN docs :
               /\ paths[i] = p
               /\ Cardinality({j \in 1..i : paths[j] = p}) = k]]
  IN [spec        |-> <<>>,
      sequences   |-> [p \in PathIdx |-> ToSequences(packMode, bucket(p))],
      tokenCounts |-> [p \in PathIdx |-> NumTokens(bucket(p))]]

\* build_corpus when shards are shipped as bytes.
BuildInHand(cfg) ==
  LET docs == Documents(cfg.budget)
  IN FromAssignments(docs,
       [i \in DOMAIN docs |->
          IF cfg.routing = "round_robin" \/ Len(docs) < NumPaths THEN (i - 1) % NumPaths
          ELSE Router[Len(docs)][docs[i]]],
       cfg.pack)

\* build_spec_corpus and build_spec_corpus_streaming: the recipe, and the token
\* counts of one pass over the documents.
RoutingOf(cfg) ==
  IF cfg.routing = "round_robin" THEN RoundRobin
  ELSE IF cfg.sample > 0 THEN FitFromSource(cfg.budget, cfg.sample)
  ELSE FitInHand(Documents(cfg.budget))

BuildSpecCorpus(cfg) ==
  LET spec == MakeShardSpec(cfg, RoutingOf(cfg))
      counts(p) == FoldLeft(LAMBDA n, x : IF x[2] = p THEN n + Len(TokenizeOne(x[1])) ELSE n,
                            0, IterAssignments(spec))
  IN [spec |-> spec, sequences |-> <<>>, tokenCounts |-> [p \in PathIdx |-> counts(p)]]

\* materialize_shard: stream, route, keep the path's documents, pack them.
Materialize(spec, p) ==
  LET mine == SelectSeq(IterAssignments(spec), LAMBDA x : x[2] = p)
  IN ToSequences(spec.pack, [i \in DOMAIN mine |-> mine[i][1]])

=============================================================================
