------------------------------- MODULE MCLocal -------------------------------
(***************************************************************************)
(* The local providers on small inputs: MCNlp's parts, the options of the  *)
(* ONNX provider, its execution providers, raw tensors, encoders,          *)
(* rerankers and OCR, the audio of whisper.cpp, and the threads that share *)
(* a Candle model or the sessions of an NLP release.                       *)
(***************************************************************************)
EXTENDS MCNlp, OptionsValidation, LocalLoading

CONSTANTS t1, t2, t3

localVars == <<mcvars, loadingVars>>

MCCalls == {t1, t2, t3}
MCJobs == {[graph |-> "label", schema |-> s] : s \in {"s1", "s2"}} \cup {[graph |-> "plain", schema |-> Nil]}
MCShardOf == [g \in {"label", "plain"} |-> 1]
MCRequested ==
  {<<>>, <<"cpu">>, <<"cuda">>, <<"cuda", "cpu">>, <<"coreml", "cuda">>, <<"cuda", "rocm">>, <<"rocm">>}
MCBuilds == SUBSET {"cuda", "coreml", "rocm"}
Wav == INSTANCE WhisperAudio
Raw == INSTANCE RawTensors
Enc == INSTANCE OnnxEncoders
Vision == INSTANCE LocalVision

(***************************************************************************)
(* Options.                                                                *)
(***************************************************************************)
Value(kind, text, num, items) == [kind |-> kind, text |-> text, num |-> num, items |-> items]
MCValues ==
  {Value("string", t, 0, <<>>) : t \in
     {"", "file", "http://host", "cls", "mlm", "siglip", "mean", "generative", "olmocr", "v7", "v1", "cpu", "disable"}}
  \cup {Value("int", "", n, <<>>) : n \in {-1, 0, 1, 3, 9}}
  \cup {Value("real", "", n, <<>>) : n \in {-1, 5, 15}}
  \cup {Value("bool", "", 1, <<>>)}
  \cup {Value("array", "", 0, i) : i \in {<<>>, <<"cpu">>, <<"cuda", "cpu">>, <<"cuda">>, <<"rocm">>, <<"tpu">>}}
File == Value("string", "file", 0, <<>>)
One == Value("int", "", 1, <<>>)

Filled(task) ==
  [k \in Needs(task, FALSE) |-> CASE k \in {"image_size", "dimensions"} -> One
                                  [] k = "pooling" -> Value("string", "cls", 0, <<>>)
                                  [] k = "sparse_method" -> Value("string", "mlm", 0, <<>>)
                                  [] OTHER -> File]
Generations(v) == [k \in {"generation", "variant"} |-> IF k = "generation" THEN v ELSE File]
OptionsOf(task) ==
  LET keys == DOMAIN OnnxChecks(task, <<>>) \cup {"surplus"}
      one == {k :> v : k \in keys, v \in MCValues}
      det == IF task = "ocr" THEN {("det_onnx_path" :> File) @@ o : o \in one} ELSE {}
      nlp == IF task = "nlp" THEN {(k :> File) @@ ("generation" :> v) :
                                     k \in {"variant", "onnx_path"}, v \in OneOf({"v1", "v7", "file"})} ELSE {}
  IN  {<<>>} \cup one \cup det \cup nlp \cup {Filled(task)} \cup {o @@ Filled(task) : o \in one}
EntriesOf(task) ==
  UNION {[provider : {"local/onnx"}, task : {task}, preset : BOOLEAN, options : {o},
          holds : IF task = "nlp" THEN {"v1", "v7"} ELSE {"v1"},
          built : IF "execution_providers" \in DOMAIN o THEN {{}, {"cuda"}} ELSE {{}}] : o \in OptionsOf(task)}
MCEntries == UNION {EntriesOf(task) : task \in OnnxTasks \cup PlainTasks}

(***************************************************************************)
(* Audio.                                                                  *)
(***************************************************************************)
Format(channels) == [format |-> 1, bits |-> 16, rate |-> 16000, channels |-> channels]
Piece(id, size, says) == [id |-> id, size |-> size, says |-> says]
Fmts == {Piece("fmt", n, <<Format(k)>>) : n \in {14, 16, 18}, k \in {1, 2, 3}}
Foreign == {Piece("LIST", n, <<>>) : n \in {1, 2, 3}}
Datas == {Piece("data", n, <<>>) : n \in {8, 9, 12}}
FilesOf(length(_)) ==
  {[riff |-> TRUE, chunks |-> cs, length |-> length(cs)] :
     cs \in {<<f, d>> : f \in Fmts, d \in Datas}
            \cup UNION {{<<x, f, d>>, <<f, x, d>>, <<f, d, x>>} : f \in Fmts, x \in Foreign, d \in Datas}}
WholeLength(cs) == FoldLeft(LAMBDA n, k : n + 8 + k.size + (k.size % 2), 12, cs)
MCFiles == FilesOf(WholeLength) \cup FilesOf(LAMBDA cs : WholeLength(cs) - 3)

(***************************************************************************)
(* Raw tensors.  The graph gives one output of row i of every input.       *)
(***************************************************************************)
Spec(name, shape) == [name |-> name, dtype |-> "f32", shape |-> shape]
Signature2 == {<<Spec("x", <<d, 2>>), Spec("y", <<e>>)>> : d \in {-1, 0, 2, 3}, e \in {-1, 2}}
RawModels ==
  {Raw!LoadRaw(<<>>, "raw", Raw!Ok("local"), Raw!Signatures(ins, <<Spec("u", <<-1>>), Spec("v", <<-1>>)>>, {"f32"}), 3).value :
     ins \in Signature2 \cup {<<Spec("x", <<2>>)>>}}
Sample(x, y, batched) ==
  ("x" :> [dtype |-> "f32", shape |-> IF x = "long" THEN <<3>> ELSE <<2>>, rows |-> x])
  @@ (IF batched THEN "y" :> [dtype |-> "f32", shape |-> <<>>, rows |-> y] ELSE <<>>)
RowsFor(ins, n) == [i \in 1..n |-> [k \in DOMAIN ins |-> ins[k].rows[i]]]
Output(shape, rows) == [dtype |-> "f32", shape |-> shape, rows |-> rows]
\* What the second output's leading dimension is off by.
RawGraph(raw, items, off) ==
  LET stacked == Raw!StackBatches(items, raw.inputs).value
      n == Len(items)
  IN  IF raw.support.kind = "none"
      THEN [i \in ToSet(items) |-> Raw!Ok("u" :> Output(<<>>, <<i["x"].rows>>) @@ "v" :> Output(<<>>, <<i["x"].rows>>))]
      ELSE [s \in {stacked} |->
              Raw!Ok("u" :> Output(<<n>>, RowsFor(s, n)) @@ "v" :> Output(<<n + off>>, RowsFor(s, n + off)))]

(***************************************************************************)
(* Encoders.  A token's vector tells the token and the live tokens of its  *)
(* row; at padding the graph gives anything.                               *)
(***************************************************************************)
Encoded(ids) == [i \in DOMAIN ids |-> [id |-> ids[i], mask |-> 1]]
Encodings == UNION {[1..n -> {5, 6, 102}] : n \in 1..2} \cup {<<5, 6, 5>>, <<102, 5, 6>>}
EncoderRows(batch, noise) ==
  [i \in DOMAIN batch |-> LET live == Enc!Live(batch[i]) IN
     [s \in DOMAIN batch[i] |->
        IF s \notin live THEN <<noise, 2 * noise>>
        ELSE <<batch[i][s].id, batch[i][s].id - FoldSet(LAMBDA x, m : m + batch[i][x].id, 0, live \ {s})>>]]
EncoderGraph(batch, noise) ==
  <<[name |-> "ids", float |-> FALSE, rank |-> 2, dim |-> 2, rows |-> <<>>],
    [name |-> "hidden", float |-> TRUE, rank |-> 3, dim |-> 2, rows |-> EncoderRows(batch, noise)],
    [name |-> "weights", float |-> TRUE, rank |-> 2, dim |-> 2,
     rows |-> [i \in DOMAIN batch |-> [s \in DOMAIN batch[i] |-> EncoderRows(batch, noise)[i][s][2]]]]>>
DenseHead(pooling) == [name |-> "hidden", index |-> 0, pooling |-> pooling, normalize |-> TRUE, dimensions |-> 2]
Preset(pooling, method) ==
  [dense |-> DenseHead(pooling),
   sparse |-> [name |-> "", index |-> IF method = "mlm" THEN 0 ELSE 1, method |-> method, dimensions |-> 200],
   multi_vector |-> [name |-> "hidden", index |-> 0, normalize |-> FALSE, drop |-> TRUE, dimensions |-> 2]]
AllHeads == {"dense", "sparse", "multi_vector"}
MaxTokens == 2
Order == [t \in {0, 5, 6, 102} |-> t]
\* The hybrid encoder's vectors and those of an encoder for each head.
EmbedAll(texts, i) ==
  LET graph == [batch \in {Enc!TokenizeBatch(texts, MaxTokens)} |-> EncoderGraph(batch, i.noise)]
      preset == Preset(i.pooling, i.method)
      single(h) == IF h = "dense" THEN Enc!EmbedDense(preset[h], texts, MaxTokens, graph)
                   ELSE Enc!EmbedHead(h, preset[h], texts, MaxTokens, graph, i.top, Order)
  IN  [hybrid |-> Enc!EmbedHeads(preset, AllHeads, texts, MaxTokens, graph, i.top, Order).value,
       single |-> [h \in AllHeads |-> single(h).value]]

(***************************************************************************)
(* Pages for OCR: a map of four columns and the size of its image.         *)
(***************************************************************************)
Maps == [1..3 -> {<<0, 0, 0, 0>>, <<9, 0, 0, 9>>, <<9, 9, 0, 0>>, <<0, 9, 4, 9>>, <<0, 4, 9, 0>>}]
Params(side) == [bin |-> 3, score |-> 6, unclip |-> 15, side |-> side]
OcrModel(detects, blank, side) ==
  [detects |-> detects, blank |-> blank, chars |-> <<"p", "q", "r">>, limit |-> 4, multiple |-> 1,
   params |-> Params(side)]
Page(width, height, source) ==
  [source |-> source, decodes |-> TRUE, width |-> width, height |-> height, says |-> <<1, 0, 1, 1>>]
Images == [source : {"bytes"}, decodes : {TRUE}, width : Nat, height : Nat, says : Seq(Nat)]
Strips == UNION {[1..n -> 0..3] : n \in 1..5}
\* One page, whose map the detector gives; the recognizer gives the strip for each crop.
ReadPage(i) ==
  LET page == Page(i.size[1], i.size[2], "bytes")
      detect == [image \in {page} |-> Vision!Success(i.map)]
      read == [images \in Seq(Images) |->
                [error |-> "none", rank |-> 3, classes |-> 4, rows |-> [k \in DOMAIN images |-> i.strip]]]
  IN  Vision!Recognize(<<page>>, detect, read, OcrModel(i.detects, i.blank, i.side))

(***************************************************************************)
(* The parts.                                                              *)
(***************************************************************************)
CandleIdle == arch = "bert" /\ want = [c \in Calls |-> "embed"] /\ CInit
SessionsIdle == job = [t \in Threads |-> CHOOSE j \in Jobs : TRUE] /\ GInit
ProvidersIdle == loader = "plain" /\ configured = <<>> /\ built = {} /\ PInit

LocalInit ==
  \/ MCInit /\ CandleIdle /\ SessionsIdle /\ ProvidersIdle
  \/ part = "candle" /\ input = <<>> /\ result = <<>> /\ Idle /\ CInit /\ SessionsIdle /\ ProvidersIdle
  \/ part = "sessions" /\ input = <<>> /\ result = <<>> /\ Idle /\ CandleIdle /\ GInit /\ ProvidersIdle
  \/ part = "providers" /\ input = <<>> /\ result = <<>> /\ Idle /\ CandleIdle /\ SessionsIdle /\ PInit
  \/ /\ result = <<>> /\ Idle /\ CandleIdle /\ SessionsIdle /\ ProvidersIdle
     /\ \/ part = "options" /\ input \in MCEntries
        \/ part = "audio" /\ input \in MCFiles
        \/ part = "raw" /\ input \in [model : RawModels, off : {-1, 0},
             items : UNION {[1..n -> [x : {"p", "q", "long"}, y : {"r", "s"}]] : n \in 1..4}]
        \/ part = "encoders" /\ input \in [texts : UNION {[1..n -> Encodings] : n \in 1..2}, noise : {-9, 300},
             pooling : {"cls", "mean", "max", "last-token"}, method : {"mlm", "lexical"}, top : {0, 1}]
        \/ part = "rerank" /\ input \in [texts : UNION {[1..n -> Encodings] : n \in 1..2}, noise : {-9, 300}]
        \/ part = "pages" /\ input \in [map : Maps, size : {<<4, 3>>, <<7, 5>>, <<8, 6>>}, side : {1, 2},
                                        detects : {TRUE}, strip : {<<1, 0, 1>>}, blank : {0}]
        \/ part = "pages" /\ input \in [map : {<<>>}, size : {<<4, 3>>}, side : {1},
                                        detects : {FALSE}, strip : Strips, blank : {0, 1}]

Answers(f) == Compute(f) /\ UNCHANGED loadingVars

Options == part = "options" /\ Answers(IF Accepted(input) THEN Resolve(input.task, input.preset, input.options, input.holds, input.built)
                                     ELSE <<>>)
Audio == part = "audio" /\ Answers(Wav!Transcribe(<<[form |-> "bytes", media |-> "audio/wav", file |-> input]>>, <<TRUE>>))
Items == [i \in DOMAIN input.items |->
            Sample(input.items[i].x, input.items[i].y, input.model.support.kind # "none")]
Tensors == part = "raw" /\ Answers(Raw!RunBatch(input.model, Items, RawGraph(input.model, Items, input.off)))
Encoders ==
  /\ part = "encoders"
  /\ Answers([together |-> EmbedAll([i \in DOMAIN input.texts |-> Encoded(input.texts[i])], input),
              alone |-> [i \in DOMAIN input.texts |-> EmbedAll(<<Encoded(input.texts[i])>>, input)]])
Rerankers ==
  /\ part = "rerank"
  /\ LET texts == [i \in DOMAIN input.texts |-> Encoded(input.texts[i])]
         batch == Enc!TokenizeBatch(texts, MaxTokens)
         logits == EncoderRows(batch, input.noise)
         score(i) == LET last == logits[i][Max(Enc!Live(batch[i]))] IN <<last[1] - last[2]>>
         generative == [x \in {batch} |-> [float |-> TRUE, rank |-> 3, rows |-> logits]]
         cross == [x \in {batch} |-> [float |-> TRUE, rank |-> 2, rows |-> [i \in DOMAIN x |-> score(i)]]]
     IN  Answers([prompts |-> Enc!RerankPrompts(texts, {}, MaxTokens, generative, 1, 2),
                  pairs |-> Enc!RerankPairs(texts, MaxTokens, cross)])
Pages == part = "pages" /\ Answers(ReadPage(input))

LocalNext ==
  \/ MCNext /\ UNCHANGED loadingVars
  \/ part = "candle" /\ CandleStep /\ UNCHANGED mcvars
  \/ part = "sessions" /\ SessionStep /\ UNCHANGED mcvars
  \/ part = "providers" /\ ProviderStep /\ UNCHANGED mcvars
  \/ Options \/ Audio \/ Tensors \/ Encoders \/ Rerankers \/ Pages

LocalSpec == LocalInit /\ [][LocalNext]_localVars

(***************************************************************************)
(* Properties                                                              *)
(***************************************************************************)
\* Of the options that the validator accepts a loader refuses two, and no
\* other: an option of v1 when `generation` is not given and the repository
\* turns out to hold v7, and a list of EPs of which the crate is built with
\* none.  (options_validation.rs:3 says that unknown or malformed options are
\* rejected before any model is loaded: these two are only at the load,
\* nlp_v7.rs:273 and onnx_ep.rs:445.)  And every value that the validator
\* looked at reaches the configuration as it was given, within the width of
\* u32 (options_validation.rs and the loaders' resolve).
AcceptedOptionsLoad ==
  Done("options") /\ Outcome # <<>> =>
    LET o == input.options
        checks == OnnxChecks(input.task, o)
        surprise == input.task = "nlp" /\ input.holds = "v7" /\ "generation" \notin DOMAIN o
        listed == ToSet(o["execution_providers"].items)
        unbuilt == input.task # "document_extract" /\ listed # {} /\ listed \cap (input.built \cup {"cpu"}) = {}
    IN  /\ Outcome.refused =
             {k \in DOMAIN o : (k \in V1Only /\ surprise) \/ (k = "execution_providers" /\ unbuilt)}
        /\ \A k \in DOMAIN Outcome.config \cap DOMAIN o :
             checks[k] # Unchecked /\ o[k].num < Width /\ k \notin Outcome.refused => Outcome.config[k] = o[k]

\* A WAV file with one fmt and one data chunk is decoded whatever foreign
\* chunks lie around them: as many frames as its data has, in order, from
\* its data's bytes (local_whisper_cpp.rs, decode_wav_to_16khz_mono).
ForeignChunksAreSkipped ==
  Done("audio") =>
    LET fmt == CHOOSE c \in ToSet(input.chunks) : c.id = "fmt"
        channels == fmt.says[1].channels
        n == CHOOSE i \in DOMAIN input.chunks : input.chunks[i].id = "data"
        size == input.chunks[n].size
        start == WholeLength(SubSeq(input.chunks, 1, n - 1)) + 8
        held == IF start + size <= input.length THEN size ELSE input.length - start
        frames == Outcome.results[1]
    IN  IF fmt.size < 16 \/ channels = 3 THEN Outcome.error \notin {"none", "panic"}
        ELSE /\ Outcome.error = "none" /\ Len(frames) = held \div (2 * channels)
             /\ \A k \in DOMAIN frames :
                  frames[k] = <<start + 2 * channels * (k - 1), start + 2 * channels * k>>

\* A batch of raw tensors that succeeds gives each item one result, with
\* every output, made of that item's tensors; and it succeeds when the items
\* have one shape, the shape and the count the graph takes, and every output
\* has a row for each (raw.rs, run_batch).
RowsStayTheirs ==
  Done("raw") =>
    LET n == Len(input.items)
        support == input.model.support
        fits == /\ \A i \in 1..n : input.items[i].x # "long"
                /\ support.kind = "none" \/ input.off = 0
                /\ support.kind = "static" => n = support.size
                /\ support.kind = "dynamic" => n <= support.size
    IN  /\ fits => Outcome.error = "none"
        /\ Outcome.error = "none" =>
             /\ Len(Outcome.value) = n
             /\ \A i \in 1..n :
                  /\ DOMAIN Outcome.value[i] = {"u", "v"}
                  /\ \A o \in {"u", "v"} : Outcome.value[i][o].rows =
                       IF support.kind = "none" THEN <<input.items[i].x>>
                       ELSE [k \in DOMAIN Items[i] |-> Items[i][k].rows]
             /\ support.kind # "none" =>
                  Raw!BatchKeepsRows(input.model, Items, RawGraph(input.model, Items, input.off))

\* What a text's vectors are does not depend on the texts it shares a batch
\* with, whatever the graph gives at the padding, nor on whether one head is
\* asked for or all; and a reranker orders its documents by scores read at
\* the end of their own prompts (embedding.rs, pool; embed_sparse.rs;
\* embed_multi_vector.rs; embed_hybrid.rs; rerank_generative.rs).
PaddingIsInert ==
  LET cut(t) == SubSeq(t, 1, MaxTokens)
      score(t) == IF Len(t) = 1 THEN 0 ELSE cut(t)[1]
  IN  /\ Done("encoders") =>
           /\ Outcome.together.hybrid = Outcome.together.single
           /\ \A h \in AllHeads : \A i \in DOMAIN input.texts :
                Outcome.together.hybrid[h][i] = Outcome.alone[i].hybrid[h][1]
      /\ Done("rerank") => \A kind \in {"prompts", "pairs"} :
           LET order == Outcome[kind].value
               scores == [i \in DOMAIN input.texts |-> score(input.texts[i])]
           IN  /\ ToSet(order) = DOMAIN input.texts /\ Len(order) = Len(input.texts)
               /\ \A i, j \in DOMAIN order : i < j => scores[order[i]] >= scores[order[j]]

\* Pixels that the map connects to those of S.
RECURSIVE Connected(_)
Connected(S) ==
  LET lit == {p \in (1..3) \X (1..4) : input.map[p[1]][p[2]] >= 3}
      more == S \cup {<<p[1] + d[1], p[2] + d[2]>> : p \in S, d \in {<<0, 1>>, <<1, 0>>, <<0, -1>>, <<-1, 0>>}}
  IN  IF more \cap lit = S THEN S ELSE Connected(more \cap lit)
LitRegions ==
  LET size(lit) == <<Cardinality({p[1] : p \in lit}), Cardinality({p[2] : p \in lit})>>
      mean(lit) == FoldSet(LAMBDA p, m : input.map[p[1]][p[2]] + m, 0, lit) \div Cardinality(lit)
      all == {Connected({p}) : p \in {q \in (1..3) \X (1..4) : input.map[q[1]][q[2]] >= 3}}
  IN  {lit \in all : size(lit)[1] >= input.side /\ size(lit)[2] >= input.side /\ mean(lit) >= 6}

\* Each text that the detector lit up is read once, from a crop that lies in
\* the image and holds all of it; crops are read line by line; and a strip of
\* classes reads as its runs without the blanks (det.rs; ocr.rs, decode_ctc).
\* A class below the blank one, which reads as the first character whatever it
\* is (ocr.rs:463), is excepted.
PagesAreRead ==
  Done("pages") =>
    LET blocks == Outcome.value[1]
        wide == input.size[1]
        high == input.size[2]
        runs == SelectSeq([t \in DOMAIN input.strip |-> t],
                  LAMBDA t : input.strip[t] # input.blank /\ (t = 1 \/ input.strip[t] # input.strip[t - 1]))
        holds(box, p) == /\ 4 * box.x0 <= (p[2] - 1) * wide /\ p[2] * wide <= 4 * box.x1
                         /\ 3 * box.y0 <= (p[1] - 1) * high /\ p[1] * high <= 3 * box.y1
    IN  IF ~input.detects
        THEN (\A t \in DOMAIN input.strip : input.strip[t] >= input.blank) =>
               blocks[1].text = [t \in DOMAIN runs |-> <<"p", "q", "r">>[input.strip[runs[t]] - input.blank]]
        ELSE /\ Len(blocks) = Cardinality(LitRegions)
             /\ \A n \in DOMAIN blocks : LET box == blocks[n].box IN
                  /\ 0 <= box.x0 /\ box.x0 < box.x1 /\ box.x1 <= wide
                  /\ 0 <= box.y0 /\ box.y0 < box.y1 /\ box.y1 <= high
             /\ \A lit \in LitRegions : \E n \in DOMAIN blocks : \A p \in lit : holds(blocks[n].box, p)
             /\ \A m, n \in DOMAIN blocks :
                  m < n => blocks[m].box.y0 <= blocks[n].box.y0 \/ blocks[m].box.x0 <= blocks[n].box.x0

=============================================================================
