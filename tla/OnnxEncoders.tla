---------------------------- MODULE OnnxEncoders ----------------------------
(***************************************************************************)
(* The text encoders of the local ONNX provider: a batch is tokenized, cut *)
(* and padded, one forward pass is made, and the chosen output becomes     *)
(* dense, sparse or per-token vectors; the hybrid encoder takes all three  *)
(* from one pass.                                                          *)
(*                                                                         *)
(* An encoding is a sequence of [id, mask].  The graph is external: its    *)
(* outputs for a batch are [name, float, rank, dim, rows], rows[b] a        *)
(* vector (rank 2) or a vector per position (rank 3).  Numbers are whole;  *)
(* log(1 + x) is left out: it grows with x and is 0 at 0.  A mean is its   *)
(* sum and count, `unit` says that the vector is scaled to length one.     *)
(***************************************************************************)
EXTENDS Integers, Sequences, SequencesExt, SequenceFilter, FiniteSets, FiniteSetsExt, Functions

Answer(value) == [error |-> "none", value |-> value]
Refusal(why) == [error |-> why, value |-> <<>>]

Padding == [id |-> 0, mask |-> 0]

\* tokenize_batch: cut to the limit, padded to the longest.
TokenizeBatch(encodings, maxSeqLen) ==
  LET length(i) == Min({Len(encodings[i]), maxSeqLen})
      padded == Max({0} \cup {length(i) : i \in DOMAIN encodings})
  IN  [i \in DOMAIN encodings |->
         [j \in 1..padded |-> IF j <= length(i) THEN encodings[i][j] ELSE Padding]]

Live(row) == {s \in DOMAIN row : row[s].mask # 0}

\* EncoderModel::run keeps the float outputs, in graph order.
RunEncoder(outputs) ==
  LET floats == SelectSeq(outputs, LAMBDA o : o.float)
  IN  IF floats = <<>> THEN Refusal("no float output") ELSE Answer(floats)

\* By name, or by index among the float outputs.
Select(outputs, name, index) ==
  LET named == SelectSeq(outputs, LAMBDA o : o.name = name)
  IN  CASE name # "" /\ named # <<>> -> Answer(named[1])
        [] name = "" /\ index < Len(outputs) -> Answer(outputs[index + 1])
        [] OTHER -> Refusal("missing output")

(***************************************************************************)
(* Dense vectors.                                                          *)
(***************************************************************************)
Zeros(dim) == [d \in 1..dim |-> 0]
Vector(of, count) == [of |-> of, count |-> count]

\* An empty row gives zeros; a row without a live token ends at its last
\* position.
Pool(row, hidden, dim, kind) ==
  LET live == Live(row)
      last == IF live = {} THEN Len(row) ELSE Max(live)
  IN  IF row = <<>> THEN Vector(Zeros(dim), 1)
      ELSE CASE kind = "cls" -> Vector(hidden[1], 1)
             [] kind = "last-token" -> Vector(hidden[last], 1)
             [] kind = "max" ->
                  Vector([d \in 1..dim |-> IF live = {} THEN 0 ELSE Max({hidden[s][d] : s \in live})], 1)
             [] kind = "mean" ->
                  Vector([d \in 1..dim |-> SumFunction([s \in live |-> hidden[s][d]])],
                         IF live = {} THEN 1 ELSE Cardinality(live))

\* Rows of length zero stay as they are.
Normalized(vector, normalize) ==
  [of |-> vector.of, count |-> vector.count,
   unit |-> normalize /\ \E d \in DOMAIN vector.of : vector.of[d] # 0]

FinalizeDense(output, batch, head) ==
  IF output.rank \notin {2, 3} THEN Refusal("rank")
  ELSE IF output.dim # head.dimensions THEN Refusal("dimension")
  ELSE Answer([b \in DOMAIN batch |->
         Normalized(IF output.rank = 2 THEN Vector(output.rows[b], 1)
                    ELSE Pool(batch[b], output.rows[b], output.dim, head.pooling),
                    head.normalize)])

(***************************************************************************)
(* Sparse vectors: sets of [term, weight].                                 *)
(***************************************************************************)
ReLU(x) == IF x > 0 THEN x ELSE 0

\* The k heaviest terms, all for 0.  The order in which equal weights come
\* decides between them.
ApplyTopK(v, k, order) ==
  IF k = 0 THEN v
  ELSE LET ahead(x) == {y \in v : \/ y.weight > x.weight
                                  \/ y.weight = x.weight /\ order[y.term] < order[x.term]}
       IN  {x \in v : Cardinality(ahead(x)) < k}

\* Terms in order; the sort keeps equal weights in it.
PostProcessMlm(row, logits, vocab, k) ==
  LET weight(v) == Max({0} \cup {ReLU(logits[s][v]) : s \in Live(row)})
      terms == {v \in 1..vocab : weight(v) > 0}
  IN  ApplyTopK({[term |-> v, weight |-> weight(v)] : v \in terms}, k,
                [v \in 1..vocab |-> v])

\* Terms come out of a hash map in any order: `order` is one.
PostProcessLexical(row, weights, k, order) ==
  LET heavy == {s \in Live(row) : weights[s] > 0}
      terms == {row[s].id : s \in heavy}
      weight(t) == Max({weights[s] : s \in {x \in heavy : row[x].id = t}})
  IN  ApplyTopK({[term |-> t, weight |-> weight(t)] : t \in terms}, k, order)

SparseOf(output, batch, head, k, order) ==
  IF head.method = "mlm"
  THEN IF output.rank # 3 THEN Refusal("rank")
       ELSE Answer([b \in DOMAIN batch |-> PostProcessMlm(batch[b], output.rows[b], output.dim, k)])
  ELSE LET weights(b) == [s \in DOMAIN batch[b] |->
             IF output.rank = 2 THEN output.rows[b][s] ELSE output.rows[b][s][1]]
       IN  IF output.rank = 2 \/ (output.rank = 3 /\ output.dim = 1)
           THEN Answer([b \in DOMAIN batch |-> PostProcessLexical(batch[b], weights(b), k, order)])
           ELSE Refusal("rank")

(***************************************************************************)
(* One vector per token.                                                   *)
(***************************************************************************)
IsSpecialToken(id) == id \in {0, 1, 2, 100, 101, 102, 103}

TokenVectors(row, hidden, head) ==
  LET kept == Filter([s \in DOMAIN row |-> s],
                     {s \in Live(row) : ~(head.drop /\ IsSpecialToken(row[s].id))})
  IN  [t \in DOMAIN kept |-> Normalized(Vector(hidden[kept[t]], 1), head.normalize)]

CollectTokenVectors(output, batch, head) ==
  IF output.rank # 3 THEN Refusal("rank")
  ELSE IF output.dim # head.dimensions THEN Refusal("dimension")
  ELSE Answer([b \in DOMAIN batch |-> TokenVectors(batch[b], output.rows[b], head)])

(***************************************************************************)
(* The encoders.  A preset maps the heads of its graph to their recipes.   *)
(***************************************************************************)
HeadOf(head, preset, outputs, batch, k, order) ==
  LET recipe == preset[head]
      output == Select(outputs, recipe.name, recipe.index)
  IN  IF output.error # "none" THEN output
      ELSE CASE head = "dense" -> FinalizeDense(output.value, batch, recipe)
             [] head = "sparse" -> SparseOf(output.value, batch, recipe, k, order)
             [] head = "multi_vector" -> CollectTokenVectors(output.value, batch, recipe)

HeadOrder == <<"dense", "sparse", "multi_vector">>

HeadWidth(preset, heads) ==
  IF Cardinality(heads) = 1 /\ heads \subseteq DOMAIN preset
  THEN preset[CHOOSE h \in heads : TRUE].dimensions ELSE 0

\* The heads that are asked for and there, from one pass.
EmbedHeads(preset, requested, encodings, maxSeqLen, graph, k, order) ==
  LET heads == requested \cap DOMAIN preset
      batch == TokenizeBatch(encodings, maxSeqLen)
  IN  IF encodings = <<>> THEN Answer([h \in heads |-> <<>>])
      ELSE IF heads = {} THEN Answer(<<>>)
      ELSE LET run == RunEncoder(graph[batch])
               results == [h \in heads |-> HeadOf(h, preset, run.value, batch, k, order)]
               failing == SelectSeq(HeadOrder, LAMBDA h : h \in heads /\ results[h].error # "none")
           IN  IF run.error # "none" THEN run
               ELSE IF failing # <<>> THEN results[failing[1]]
               ELSE Answer([h \in heads |-> results[h].value])

\* The dense embedder takes the named output, or the graph's first one,
\* which must then hold floats.
EmbedDense(recipe, encodings, maxSeqLen, graph) ==
  LET batch == TokenizeBatch(encodings, maxSeqLen)
      outputs == graph[batch]
      chosen == IF recipe.name = "" THEN SubSeq(outputs, 1, 1)
                ELSE SelectSeq(outputs, LAMBDA o : o.name = recipe.name)
  IN  IF encodings = <<>> THEN Answer(<<>>)
      ELSE IF chosen = <<>> THEN Refusal("missing output")
      ELSE IF ~chosen[1].float THEN Refusal("extract")
      ELSE FinalizeDense(chosen[1], batch, recipe)

\* The sparse and the per-token encoder: one head of one pass.
EmbedHead(head, recipe, encodings, maxSeqLen, graph, k, order) ==
  LET batch == TokenizeBatch(encodings, maxSeqLen)
      run == RunEncoder(graph[batch])
  IN  IF encodings = <<>> THEN Answer(<<>>)
      ELSE IF run.error # "none" THEN run
      ELSE HeadOf(head, [h \in {head} |-> recipe], run.value, batch, k, order)

(***************************************************************************)
(* Rerankers.                                                              *)
(***************************************************************************)
\* The documents in the order of their scores; of equal ones the first
\* comes first.
Ranked(scores) ==
  SetToSortSeq(DOMAIN scores, LAMBDA i, j : \/ scores[i] > scores[j]
                                           \/ (scores[i] = scores[j] /\ i < j))

\* A cross-encoder scores each pair of query and document in the first
\* column of its first output, or in all of it when the rank is not 2.
RerankPairs(pairs, maxSeqLen, graph) ==
  LET output == graph[TokenizeBatch(pairs, maxSeqLen)]
      scores == IF output.rank = 2 THEN [b \in DOMAIN output.rows |-> output.rows[b][1]]
                ELSE FlattenSeq(output.rows)
  IN  IF pairs = <<>> THEN Answer(<<>>)
      ELSE IF ~output.float THEN Refusal("extract") ELSE Answer(Ranked(scores))

\* Variant: the answer is read at the end of the row.
ScoreYesNoAtEnd(row, logits, yes, no) == logits[Len(row)][yes] - logits[Len(row)][no]

\* score_yes_no grows with the difference of the two logits, at the last
\* live position.
ScoreYesNo(row, logits, yes, no) ==
  LET last == IF Live(row) = {} THEN Len(row) ELSE Max(Live(row))
  IN  logits[last][yes] - logits[last][no]

\* A prompt puts the document before the text that asks for the answer.
RerankPrompts(prompts, schema, maxSeqLen, graph, yes, no) ==
  LET batch == TokenizeBatch(prompts, maxSeqLen)
      output == graph[batch]
  IN  CASE prompts = <<>> -> Answer(<<>>)
        [] prompts # <<>> /\ "token_type_ids" \in schema -> Refusal("schema")
        [] prompts # <<>> /\ "token_type_ids" \notin schema /\ ~output.float -> Refusal("extract")
        [] prompts # <<>> /\ "token_type_ids" \notin schema /\ output.float /\ output.rank # 3 -> Refusal("rank")
        [] OTHER -> Answer(Ranked([b \in DOMAIN batch |-> ScoreYesNo(batch[b], output.rows[b], yes, no)]))

=============================================================================
