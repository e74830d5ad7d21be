# uni-xervo: TLA+ models, model checking and proofs

uni-xervo is an asynchronous Rust runtime for machine-learning models: a catalog
maps aliases to model specifications, a registry loads each model once however
many tasks ask for it, and typed handles wrap models with timeouts, retries and
metrics; remote models sit behind circuit breakers, local ones run in ONNX Runtime, Candle or
whisper.cpp. A second crate, uni-xervo-pdf, extracts documents page by page through tiers
of increasing cost.

This directory holds TLA+ modules of the parts of that system where order,
concurrency, failure or index arithmetic decide, TLC configurations that check them on small
instances, and proofs, checked by the TLA+ proof system, of their main
properties for every value of the constants. `PROJECT.json` lists the components,
the runs, the lines of source each definition models, the findings, the hazards
and the theorems. Paths below are relative to `src/crates/` unless they start at the
repository's root.

    tlc -config breaker.cfg MCCircuitBreaker       # a run: configuration and module
    tlapm ReliabilityProofs.tla                    # the proofs of a module


## The system

| Part | State | Operations | Talks to |
|---|---|---|---|
| Circuit breaker (`uni-xervo/src/reliability.rs` 13-142) | state, consecutive failures, time of the last failure, probe flag, behind a mutex | `call` | remote models, through a clone for each loaded model |
| Registry (`uni-xervo/src/runtime.rs` 80-95, 853-982) | `instances`, `loader_locks` (two RwLocks), a mutex per key being loaded | `resolve_and_load_internal` | providers (`load`), models (`warmup`) |
| Model runtime and builder (`runtime.rs`) | catalog, handle cache | `build`, `register`, `prefetch`, 14 accessors, detached warmups | registry |
| Instrumented handles (`reliability.rs` 147-1154) | locals of one request: attempts, deadline, last error | every method of every model trait | the model, its breaker |
| llama.cpp embedding (`provider/llamacpp/embed.rs`) | locals of one call: planned inputs, answer | `embed` | llama-server `/tokenize`, `/v1/embeddings` |
| Remote provider base (`provider/remote_common.rs`) | breakers by runtime key with their last access, time of the last sweep | `circuit_breaker_for`, decoders, HTTP status map | all remote providers |
| Remote providers (OpenAI, Azure, Mistral, Voyage, Cohere, Anthropic, Gemini, Vertex) | none beyond the breaker | one request for each method | HTTP services |
| Option validation (`options_validation.rs`) | none | `validate_provider_options` when a runtime is built or a spec registered | the builder; the loaders read the same options later |
| Candle embedding (`provider/candle.rs`) | the loaded model, behind a mutex | `ensure_loaded`, `embed`, `warmup` | hf-hub |
| whisper.cpp (`provider/local_whisper_cpp.rs`) | a context behind a mutex | decoding of WAV files, `transcribe` | whisper.cpp |
| ONNX execution providers (`provider/onnx_ep.rs`) | a process-wide environment | selection, strict registration, probe, fall back to the CPU | ONNX Runtime |
| NLP models (`provider/local_onnx/nlp.rs`, `nlp_v7/`) | sessions by graph, label cache | text to windows, a graph for each task, decoding, entities, relations | ONNX Runtime |
| Raw tensors, encoders, rerankers, images, OCR (`provider/local_onnx/`) | a session | `run`, `embed`, `rerank`, `recognize` | ONNX Runtime |
| PDF pipeline and router (`uni-xervo-pdf/src`) | VLM pages used; for the page at work its tier and audit trail | `extract` | OCR and VLM models, rasterizer, text layer |

What is hard about them, and what makes each correct:

* **Breaker.** The operation runs with the breaker unlocked, so a result may
  arrive in any later state, and a caller may drop the future in between.
  Correct: one probe at a time; only the probe decides a half-open breaker; it opens
  on consecutive failures exactly; it never stays open or half open for ever.
* **Registry.** Tasks race on the fast path, the lock map and the second look;
  loads fail, time out or are dropped at every await. Correct: one load at
  a time for each key, one shared instance, nothing half-warm is published, the
  lock map does not grow, nobody waits for ever.
* **Runtime.** First-callers of an alias race with each other, with the builder,
  with detached warmups and with registration. Correct: startup means the required
  models are there; an alias has one handle; a cached handle fits its alias; everything ends.
* **Handles.** Timeouts drop calls that the breaker has admitted, retries meet the
  breaker's own rejections. Correct: attempts within the budget and all of it
  used; requests end; outages are noticed and recovery too.
* **Remote providers.** Loads of one key race on its breaker while idle entries are swept by a
  clock read before the lock; services answer in any order, with or without indices, and report failures
  by status codes that say little; each API wants its prompt in another shape. Correct: a breaker for each
  key in use; a vector for each text in order; no input beyond the budget; configuration
  errors do not open the breaker; no part of a prompt is lost.
* **Options.** The validator and the loaders are different code. Correct: what one accepts the other can use.
* **Local models with lazy parts.** Callers meet at mutexes and at the shards of a map, and give up.
  Correct: built once.
* **Execution providers.** ONNX Runtime passes over what it cannot register, loaders differ in whether they probe
  and report. Correct: nothing falls back to the CPU in silence.
* **NLP.** Characters, words, subwords, sentences, windows, speakers and markers are numbered in
  half-open ranges that must fit; graphs return only what was asked for; scores may decode to illegal
  structures. Correct: every word has its own subwords and its own text, decoders find the best legal
  structure, mentions are grouped and not lost, indices of a window become indices of the request.
* **Batches.** Rows are padded, cut and stacked. Correct: what a row gives does not depend on
  the rows beside it, and every item gets its own.
* **OCR.** Boxes go through dilation, two scales and a sort. Correct: each lit text is read once, whole.
* **PDF.** Signals, policy, models, budget and failures all move a page's tier.
  Correct: budget and ceiling hold on every path, and the trail explains the outcome.


## Modules

    BreakerProtocol                 LoadOnce               (what is promised)
          ^ implemented by             ^ implemented by
    CircuitBreaker                  ModelRegistry
          ^ extended by                ^ extended by
    InstrumentedCall                ModelRuntime

    MCRemote:  LlamaCppEmbed   RemoteProviders   RemoteRequests   PdfPipeline
    MCNlp:     NlpWords   NlpAnalysis (NlpAlign, NlpEntities)   NlpCascade (NlpDecoding: NlpTags)
    MCLocal:   MCNlp   LocalLoading (CandleModel, GraphSessions, OnnxProviders)
               OptionsValidation   WhisperAudio   RawTensors   OnnxEncoders   LocalVision

An `MC...` module gives the small sets TLC uses; MCRemote and MCLocal also choose one of
the parts they hold, which share nothing, for each behaviour. A `...Proofs` module has the theorems of
its module; ReliabilityProofs those of the breaker and the instrumented calls, RemoteProofs those of the three remote modules,
LocalProofs those of LocalLoading and its parts, of RawTensors, OnnxEncoders and WhisperAudio, NlpProofs those of NlpAnalysis, NlpAlign,
NlpEntities and NlpTags, SequenceProofs the lemmas on sequences and folds that they use. `SequenceFilter` is
Rust's filter over a sequence, written as a function so that it can be reasoned about. Operators that are functions of their input (the NLP stages, encoders, OCR, options, audio,
raw tensors) are computed by an action for every input of a bound, and the properties
compare the result with a definition of what it should be. A definition that is preceded
by a comment "Variant" is a plausible slip of the definition after it. No specification
uses it; substituting it breaks the property that `PROJECT.json` names beside it, which
shows that the property depends on the code.

**CircuitBreaker** (`CircuitBreakerWrapper::call`). `call` takes the mutex twice,
and each critical section is one action: `Admit`, `Probe` or `Reject` before the operation,
`Succeed` or `Fail` after it. `Cancel` is the drop of the future in between, after which
the second section never runs; it belongs to `DropSpec` only. `lastFailure` is an age
in ticks up to `OpenWait`, as the code only compares `elapsed()` with the wait; the count
stops at the threshold for the same reason. `results` is a history variable
for the word "consecutive".

**BreakerProtocol** states the promise without counters, clock or flag:
nothing starts while open but the one probe, and its result alone decides what follows.

**InstrumentedCall** (`run_instrumented` and the wrappers that spell the loop
out) extends CircuitBreaker: every action joins an action of the breaker with what
the wrapper does in the same poll. The network service is `up`, `down` or `hung`
and switches at will. A timeout is the breaker's `Cancel`.
Sleeping is the phase "backoff"; its length is left out.

**ModelRegistry** (`resolve_and_load_internal`). One action for the code
between two awaits; `pc` names the await. `Check` keeps the read guard of
`instances` while it waits for `loader_locks` ("evict"), which is why `Publish` waits for
tasks that are there. The timeout drops the timed block wherever it is; a caller may
drop the whole future wherever it is (`CanCancel`). Locks and instances are
identities of `Arc`s: an identity that nothing refers to is free again, so the
model is finite without a bound on the length of behaviours.

Which keys can fail to load, fail to warm up or time out is a constant (`Faulty`): what the
registry promises of the others (`Reliable`) must hold whatever happens to these.

**LoadOnce** states the promise of the registry: every key is a cell that
is filled once, and whoever asks is served what it holds. The cells that ModelRegistry
implements are its reliable keys: a key whose load failed can be loaded twice (finding 2).

**ModelRuntime** extends ModelRegistry by the catalog, the accessors with their
handle cache, `register`, `prefetch`, and the builder, which awaits eager warmups one by
one and spawns a task for each background alias. An accessor's look at the cache, its
look at the catalog and its last step are actions of their own, because awaits lie
in between. The wrapper an accessor makes is its spec and the inner model; instances
that a wrapper still holds are not free (`Pinned`).

**LlamaCppEmbed** is one call of `LlamaCppEmbeddingModel::embed` inside the breaker's
operation. Tokenization ends in any order (`Tokenized(i)`) and its first error
ends the call; the post fails in every way `map_llamacpp_status` and `map_reqwest_error`
tell apart, or is answered by any sequence of items. The server's limit is the smaller
of its batch and context sizes; that it rejects an input only if it exceeds the limit is the
meaning of the two error kinds. Texts are opaque: what matters are their tokens and
their length in characters, under the assumption the code states, that a token
takes at least one character (`WordPiece`).

**RemoteProviders** is `circuit_breaker_for` and `ModelProvider::load` of the eight remote
providers. A load reads the clock, takes the mutex of the last sweep, and takes the map's mutex once to
sweep and once for its own entry; each is an action. Providers differ in when they ask for the breaker
and in what they refuse before and after. Times are ages in ticks.

**RemoteRequests** is one request: a call of `generate`, of `embed` or of `rerank` makes of its input
what the provider's method sends, or is refused before or inside the breaker's operation; the post
fails in every way `check_http_status` tells apart, or is answered by any body, of which the method makes what
the code does, its errors included. A message is its role and its blocks, a vector the text it belongs to.

**NlpWords** (`nlp_v7/text.rs`), **NlpAlign** (`align.rs`), **NlpTags** (Viterbi in `decode.rs`), **NlpDecoding** (the rest of `decode.rs`, and the decoders of
`nlp.rs`) and **NlpEntities** (`decode.rs`, `entities.rs`) are functions: paragraphs,
sentences, words and windows; the subwords of a window's words and its speakers; greedy and Viterbi tagging, the dependency tree
(Chu-Liu/Edmonds), the v1 decoders; spans, links, chains, merging and typing of entities.
**NlpAnalysis** (`nlp_v7.rs`, `pipeline.rs`) runs a release's graphs on a window in the code's
order, asks for the outputs each task needs and reads those each stage reads, and numbers speakers and
markers; whatever refuses a release besides a missing output (options of v1, providers, files, inputs) is one choice of its load. **NlpCascade** (`nlp.rs`) is the v1 model: chunks, a pass for each verb, indices shifted into the request.

**GraphSessions** (`graphs.rs`, the label cache of `pipeline.rs`): a thread looks for its
graph's session, builds it in the map's entry with the shard locked, runs under the session's
mutex, and keeps label embeddings in a cache of bounded size. **CandleModel** (`candle.rs`):
`ensure_loaded` with the mutex held across three downloads and the build, failures at each and callers that
give up at each await; an empty batch and a warmup are calls of their own. **LocalLoading** is the process that
loads these two and an ONNX model side by side.

**OnnxProviders** (`onnx_ep.rs` and its callers): the list the option names or the build's default, the provider registered
strictly, the session's build, the probe and the fall back, for four kinds of loader: the dense embedder and the rerankers probe and
report; the sparse, multi-vector and hybrid embedders probe and drop the list; raw tensors report without a probe; OCR, images and NLP
do neither. **OptionsValidation**
(`options_validation.rs` and the `resolve` functions of `local_onnx/`): which keys and values are accepted for every provider and
task, and what the loaders make of the same values, for either generation that an NLP repository may hold and any build. **WhisperAudio** (`local_whisper_cpp.rs`): the chunk scan of a
WAV file with its byte positions, the check of PCM, the loop over a batch.

**RawTensors** (`raw.rs`): the file, whether the graph takes batches, validation, stacking and splitting.
**OnnxEncoders** (`embedding.rs`, `embed_sparse.rs`, `embed_multi_vector.rs`, `embed_hybrid.rs`, `rerank.rs`,
`rerank_generative.rs`): cut, pad, pool, top-k, selection of outputs, scores.
**LocalVision** (`image.rs`, `image_embed.rs`, `det.rs`, `ocr.rs`): preprocessing, regions of a
probability map, boxes, reading order, crops, CTC. Graphs are functions the configurations give; numbers are whole.

**PdfPipeline** (`PdfExtractor::extract`, `router.rs`). The configuration, the policy,
the budget and every page's text layer are chosen by the environment, and each rendering of a page may fail; a page goes
through `Plan`, a run of its tier, at most one climb and a second run, `Close`. Only the
page at work is kept, with counters of finished pages. Confidence scores and the
agreement of numbers are left out.

## Runs

| Run | Instance | Shows | States |
|---|---|---|---|
| `breaker` | 3 callers, threshold 2, wait of 2 ticks | all the breaker's properties, and that it implements BreakerProtocol, when callers do not drop their calls | 2 250 |
| `instrumented` | 2 callers, no timeout, 1 and 2 attempts | a service that goes down opens the breaker; once it stays up the breaker closes for good | 8 427 |
| `instrumented_timeout` | the same with timeouts | attempts stay in the budget, requests end | 22 890 |
| `instrumented_wedged` | the same | **violated**: traffic does not resume (finding 1) | |
| `registry` | 3 tasks, a reliable and a faulty key, callers drop | single loads of the reliable key, LoadOnce implemented on it | 2 114 231 |
| `registry_duplicate` | 3 tasks, 1 key, loads fail | **violated**: two loads of one key at the same time (finding 2) | |
| `runtime` | builder, 1 background task, 2 users, 3 aliases on 2 keys, loads fail and time out | required models, one wrapper, cache and catalog agree, the lock map is bounded | 168 262 |
| `runtime_answers` | builder, 2 background tasks, 1 user; loads also dropped | only warm models are handed out; calls, build and detached tasks end | 96 884 |
| `pdf_missing_tier` | 1 page | **violated**: a missing tier ends in an error (finding 3) | |
| `remote` | llama.cpp: up to 3 texts, budget 4, limits 3 and 4; loads: 8 providers, 2 loaders, 2 keys; requests: up to 3 messages, texts or items; documents: 2 pages, budgets 0, 1 and none, every configuration, renderings that fail each on their own | order of vectors, bounded inputs, no rejection for length, rejections are final, one breaker for each key in use, whole prompts, aligned vectors; budget, ceiling, trail and verification of documents | 4 003 733 |
| `local` | see below | words and subwords, decoders, cascade, mentions, requested outputs, markers; options; built once; execution providers; WAV chunks; batches; padding; pages | 326 548 |
| `nlp_silent_opening` | three speakers, the first one's turn opens with a word the tokenizer drops | **violated**: a speaker's marker opens another's turn (finding 4) | |

The parts of `local`: every text of up to 5 characters and every conversation of up to 2 turns of 2; words of
0 to 2 subwords under every budget; scores of three words for trees and tags with ties; links, spans and chains of three
words; a cascade of three words cut at every size; every request of an NLP release with one output missing or
none; each option of each task alone, beside the required ones, and with a generation or a detector, for a repository of either
generation and two builds; WAV files of two or three chunks, a foreign one before, between or behind the others, whole and cut off; raw batches of up to 4; two texts of up
to three tokens under a limit of two, at every pooling; maps of 3 by 4 pixels under images of three sizes and CTC
strips of up to five steps with two blank classes; three callers of a Candle model; three threads, two graphs in one shard and two
schemas for a cache of one; every list of execution providers against every build and every kind of loader.

**Why the bounds are enough.** Three callers let a stale call, the probe and a
bystander coexist; a threshold of two tells "consecutive" from "any", and two ticks
make "half of the wait has passed" a state. Three tasks are what a load, a waiter on its lock and
a newcomer after the lock has left the map need. A lock or an instance is referred to
by the map or by one task, so as many identities as tasks and keys (five,
with the wrappers) never run out; with three tasks four do, as a task that needs one holds none. Two users race on one alias while the builder and a background
task race on a key of their own; one alias is registered late. The symmetry of the two
users is used in `runtime`, that of the three tasks in `registry`, which check no liveness; and `registry`
has a VIEW that forgets whether an instance that nothing refers to any more was warm, which no action reads. Callers that drop their calls are left out of `runtime`;
they are in `registry` and `runtime_answers`, and the theorems allow them but for `LockMapBounded`, which they break
(`runtime.rs:976`). In `remote` the three texts are
one that fills the budget unseen, one that is tokenized and fits, and one that is cut; three
items are the least for which a permutation differs from its inverse. Two loaders race on one key or
on two; the time to live is four ticks, the sweep is due every tick and a load, which awaits nothing, lasts at most one: the code has
30 and 5 minutes for the first two. Of a document of two pages, the
first page can spend a budget of one that a second page then meets; the pages of
a document share nothing else. In `local`, three words have a tree with a cycle and one with two roots; a text of five
characters has a terminator inside quotes and a clitic before a space; two texts suffice for one to pad the other; a
region of a 3 by 4 map may touch another at a corner and an edge of the page.
`CHECK_DEADLOCK FALSE` stands where the system stops: a call, a request or a document
ends, and a runtime that aborts its build has no more to do.

**Fairness.** The executor polls whatever is ready (weak fairness of
every step of a task that has begun), and time passes (`Tick`, `Clock`). In
`breaker`, an operation that is not dropped ends and callers keep calling, as nothing else
probes an open breaker: there is no timer in the code. In `runtime_answers` a load ends, if
only by its timeout; `provider.load` itself may hang. It also
assumes strong fairness of `Acquire`: tokio's Mutex is FIFO, and without it a waiter could
be overtaken for ever by callers that take the lock and are dropped. Nobody is obliged
to call an accessor, and the service is never obliged to come back: `TrafficResumes`
says what follows if it does. `registry`, `runtime`, `remote` and `local` check safety only and assume no
fairness: in particular nothing is claimed about whether a lazy model is eventually built.


## Findings

1. **A probe that times out wedges the breaker** (`instrumented_wedged`). The probe
   raises `half_open_probe_in_flight` (`reliability.rs:105`) and lowers it only after the operation; a
   timeout drops the future in between (`reliability.rs:167`). Every later call is rejected, for ever,
   although `docs/first-spec.md:111` promises that traffic resumes. For the same reason
   an attempt that times out is no failure to the breaker: a service that hangs never
   opens it. `DownOpens` and the theorem `DownIsNoticed` therefore speak of aliases without timeouts.
2. **Duplicate loads after a failure** (`registry_duplicate`). A failed load removes its
   lock from the map while waiters hold their clone (`runtime.rs:976-978`); a newcomer makes a
   new lock, and both load side by side, against `docs/ARCHITECTURE.md:18`.
   Dropped callers alone do not cause this: the `registry` run has them.
3. **A missing tier is an error** (`pdf_missing_tier`). `build()` takes the best
   configured model for the ceiling, so with a VLM and no OCR model a page routed to
   OCR returns CapabilityMismatch, where `uni-xervo-pdf/src/pipeline.rs:75-76` promises to degrade.

4. **A silent speaker shifts the others' markers** (`nlp_silent_opening`). A participant none of whose turns
   opens with an analysed word gets no node (`uni-xervo/src/provider/local_onnx/nlp_v7/pipeline.rs:852-854`), but the turns and names given to
   `marker_input` are still counted from the first participant (`:896-905`). The second participant's node then gets the first one's empty
   positions, the third's gets the second's marker, and the third's turn none, against `align.rs:217-219` ("Speakers come
   first, in participant order, and their positions are the markers opening their turns"). `MarkersFollowSpeakers`, which
   the `local` run checks on the same window too, excepts exactly this order.

### Disagreements stated, not run

Of three further statements of the repository the models show that the code does something else. The properties next to them say what
does hold, and their comments quote the statement:

* **Images of a prompt.** `website/docs/guides/multimodal-generation.md:12` lists `remote/gemini` and `remote/cohere` under "Text + images
  in". Both drop the images of a message without an error (`uni-xervo/src/provider/remote_common.rs:377`, `cohere.rs:270`), and so do Vertex
  AI, Mistral and Anthropic; `remote_common.rs:295` calls that loss "the bug this helper exists to fix", of OpenAI's messages.
  `PromptIsWhole` asks for all text of every provider, and for images of OpenAI and Azure only.
* **Options that only a loader refuses.** `options_validation.rs:3-5` says that mistakes in options are caught before a model is loaded. The
  validator accepts `onnx_path`, `label_maps_path` or `max_seq_len` of an NLP alias without a `generation`, and the loader refuses them
  when the repository turns out to hold v7 (`nlp_v7.rs:273-281`); it accepts execution providers that the build
  does not have, and the loader refuses a list of none but such (`onnx_ep.rs:445-450`). `AcceptedOptionsLoad` says that loaders refuse
  just these two.
* **Models that report no provider.** `traits.rs:110-112` has `active_execution_providers` empty "for remote and non-ONNX models", and
  `CHANGELOG.md:43-48` has it report what the model runs on after a fall back, the sparse, multi-vector and hybrid
  embedders included. `EncoderModel::load` drops the list that the probe returns (`common.rs:220-234`), so these three report none,
  whatever they run on; OCR, images and both generations of NLP have the default of the trait, which is empty. Nor do raw
  tensors, OCR, images and NLP probe, which `CHANGELOG.md:46-48` says. `ProvidersAsAsked` is about what runs, for all loaders, and about
  what is reported for those that report.

### Seen while modelling

Without a run of their own (the models do what the code does, and the
properties state the exception where one is needed). Paths of this list are relative to `uni-xervo/src/`:

* *Time and limits.* `RetryConfig::get_backoff` says "saturating
  arithmetic" and computes `2u64.pow` and a product unchecked (`api.rs:137-141`); `load_timeout` starts after
  the loader lock is held (`runtime.rs:878`); `Budget::max_latency` of the PDF crate has no reader (`config.rs:132` there).
* *PDF.* A budget that stops the climb leaves no note in the trail (`config.rs:124`, `pipeline.rs:311` of that crate); the note
  of a capped page leads from Vlm to another tier where `result.rs:85,91` describe equal ones
  (`pipeline.rs:290`); when the second rendering of a page, for the reference of its VLM output, fails, the error is passed over and the page goes
  out unverified (`pipeline.rs:478`): `VlmIsVerified` excepts it; `Fixed(Vlm)` over the budget is not run at that tier (`config.rs:45`, `pipeline.rs:284`); when the
  run after a climb fails, the document fails and the first run's output is lost (`pipeline.rs:315`).
* *Remote.* The lenient decoder, and its like in Azure, Mistral, Voyage and Cohere, skips items without a
  vector where `traits.rs:123-124` promises one for each text: `VectorsStayAligned` excepts that case. A rerank result without an index is taken for document 0. A transport failure is `ApiError`, which is not
  retried, in every remote provider but llama.cpp. All providers but OpenAI make a breaker's entry for a load that
  then fails.
* *Options.* `max_seq_len` of a reranker,
  the keys of `embed_hybrid` and `blank_class` are known by name only and a value of a wrong type is passed over.
  `website/docs/reference/feature-flags.md:88` advises `["rocm","cpu"]`, which the validator refuses. The cross-encoder reads no `artifact`.
* *Execution.* A whisper `fmt` chunk shorter than its fields panics where an error is described. The number of rows of a raw
  batch is read off the first output only. A prompt of the generative reranker that is longer than `max_seq_len` loses its end,
  where the answer is read (`rerank_generative.rs:392`). Equal weights of lexical top-k are ordered by a hash map. With a blank class
  other than 0 all classes below it read as the first character (`ocr.rs:463`): `PagesAreRead` excepts strips that hold one; a page without a detector reports the box `[0,0,1,1]`.
* *NLP.* A request without a word-level task has no analysed words although it has words (`traits/nlp.rs:286-287`); two first
  requests of one schema both run the label pass, which is documented as one for a lifetime; a verb at the first position of a later chunk gets no second pass,
  as position 0 is taken for `[CLS]` (`nlp.rs:358-363`, against 13-15).


## Proofs

All theorems hold for any sets of tasks, callers, keys, texts and pages and for any numbers that satisfy
the named assumptions of the modules. Each invariant is proved from an inductive one:
`Init => Inv`, `Inv /\ [Next]_vars => Inv'`, `Inv =>` the property, a lemma for each action
or family of actions.

* **ReliabilityProofs**, *CircuitBreaker.* `TypeCorrect`, `ProbeIsSingle`, `OpenHasTimeStamp` and
  `StaleResultsAreIgnored` hold even if callers drop their calls (`DropSpec`);
  `FlagIsOwned` and `BreakerKeepsPromise` (every step implements a step of BreakerProtocol)
  only if they do not. The invariant ties the flag to HalfOpen and the probing caller to both.
  `ConsecutiveFailuresOpen` sets the counter of the code against the history of results, for the
  word "consecutive": its invariant `CountsTheRun` says that the count is the length of the run of errors at the end of the history.
  *InstrumentedCall.* `BreakerSafeUnderRetries` carries the breaker's invariant over: each action
  is one of `DropNext` joined with the wrapper's. `BudgetIsKept` needs that a request that is about to
  try or that sleeps has attempts left. `DownIsNoticed` needs that, without timeouts, a Closed
  breaker's count is at least the current streak of failures. `BreakerDecidesUnderRetries` and, for wrappers
  without timeouts, `PromiseKeptUnderRetries` (BreakerProtocol is implemented) follow from the same joining.
* **ModelRegistryProofs.** `RegistryTypeCorrect`, `ModelsAreWarm` and
  `LockMapIsBounded` for any failures (the last one if callers do not drop their calls). Of the reliable keys,
  whatever fails for the others, `LoadsAreSingle`, `InstancesAreShared` and `RegistryLoadsOnce` (the registry
  implements LoadOnce). Their invariant adds `OneQueue`: while such a key is unregistered, all its tasks have the lock that is
  in the map; a task past a successful load or a hit sees the key registered with what it holds.
* **ModelRuntimeProofs.** `RuntimeTypeCorrect`; `RuntimeLoadsAreSingle`, `RuntimeLoadsOnce`, `RuntimeModelsAreWarm`
  and `RuntimeLockMapIsBounded`, because every step of the runtime is a step of the registry or leaves it unchanged; `WrapperIsUnique`, from: a cache entry is never
  overwritten, and what an accessor returned last is the entry for what it wanted; `CacheFollows`,
  from: an alias in the catalog keeps its spec, and a registered instance stays; `RequiredAreLoaded`,
  from: whoever the registry has answered finds the key registered, and nobody but the builder
  touches the builder's call. The last three hold for failing and dropped loads too.
* **RemoteProofs**, *LlamaCppEmbed.* `EmbedTypeCorrect`, `VectorsAreInOrder`,
  `PostedInputsAreBounded`, `BudgetIsRespected`, `DeterministicRejectionsAreFinal`.
  `EverySlotFilled` is the pigeonhole argument behind the decoder's `expect`; `UnseenFits` and
  `PlanIsBounded` are the arithmetic of the budget; the invariant keeps every input
  decided so far within it.
  *RemoteProviders.* `RemoteTypeCorrect`; `BreakersAreShared`: one breaker for all the models handed out for a key. The invariant
  says of each load at each of its steps that the key's entry, if a model holds its breaker, is there, is that
  breaker, and was used at most two loads and the load's own age ago; with `LoadsAreShort` (an idle entry lives longer than three loads, as
  30 minutes to the time of a load, which awaits nothing) no sweep, however old the clock it read, removes it. That identities never
  run out is a count of entries and holders (`EnoughBreakers`).
  *RemoteRequests.* `PromptsAreWhole` and `VectorsAreTheirTexts` for conversations, messages and batches of any length. The invariant
  keeps what was built next to what was asked; the work is in lemmas on filtering, mapping and
  flattening: what a provider filters out of the turns and puts in front is all of the system's text.
* **LocalProofs**, *loading.* `CandleLoadsOnce`: a model is built at most once by any number of callers; the invariant
  ties every step behind the lock to its one holder, and the model to the number of builds. `GraphsAreBuiltOnce`: each graph has
  at most one session, for any number of threads, graphs, shards and schemas; the invariant ties whoever is about to insert
  to the lock of the graph's shard. `RunsOnWhatWasAsked`: of any list on any build, and whichever loader runs, a loaded model has the last entry of
  a list without `cpu` registered, because that entry is the strict one; and of the loaders that report, what is registered
  is reported, the CPU too when nothing else is. `LoadsRunTheirProtocols` (LocalLoading implements each of its
  parts) carries them over as `LoadsBuildOnce` and `LoadsRunOnWhatWasAsked`.
  *RawTensors.* `BatchRowsAreTheirs`: a batch that succeeds gave the graph each item's tensors as its row of every input, and answers with that row
  of every output, for any items, signatures and graph whose outputs have shapes.
  *OnnxEncoders.* `VectorsIgnoreTheirBatch`: the same text in any two batches of texts gives the same dense, sparse and token
  vectors and the same rerank score, if the graph says the same of its own tokens, whatever it says of the padding. Its rows show the text cut to the limit
  (`RowsShowTheirTexts`), and all that is read of a row is its live tokens. A text without any token is excluded: its row has padding only.
  *WhisperAudio.* `WavsAreDecoded`: a file with one fmt and one data chunk gives the frames of its data's bytes, whatever other chunks lie
  before, between and behind them and wherever the last chunk is cut off. Its chunks lie one behind the other, each with its padding (`ChunksAreLaid`), so that
  the scan, a recursion towards the end of the file (`BackwardsExist`), visits exactly their places (`ScanVisitsChunks`), and a foreign
  chunk leaves what was seen as it is (`ChunksAreSeen`). The hypotheses are what makes the file such a file: the header of each chunk fits, fmt is whole and 16 kHz, 16 bit, one or two channels.
* **NlpProofs**, *NlpAnalysis.* `ReadsAreRequested`, from: what is held of the first graph is what the tasks asked for, as far as the release declares
  it, and a stage is entered only for tasks that ask for what it reads. `MarkersAreTheirs`: every marker the relation pass reads opens its own turn or mention, unless a
  participant without an analysed turn comes before one with one (finding 4 is that case). Its invariant `MInv` says that the nodes are those of the speakers who
  are heard, in order, and then entities whose mentions start in analysed words; the rewritten window is a sequence of blocks, one
  per word, so that the place of a marker is a sum of lengths (`FlattenPlaces`).
  *NlpAlign.* `SubwordsAreTheirs`: for any words, any number of subwords each and any budget of at least two, the first subwords of `align` and the ends
  of `word_ends` cut the encoding as they should. It goes by induction over the words (starts grow) and over
  the walk back (`NextFirstIsNext`: the next start is the least one behind).
  *NlpEntities.* `MentionsArePart`: every mention that lies in one sentence is in exactly one entity, and no entity mixes types. Each stage
  (chains, names, sentences) is shown to turn groups that part its items into groups that part the same items, and the theorem composes them.
  `ClustersAreConnected`: the two words of a link share a cluster, and no cluster leaves a set that every link stays in or out of. The union-find has
  no ranks and a `find_root` that is modelled with as many steps as there are words: its invariant (`Grown`) is that the parents form a
  forest whose depth plus number of roots is at most the number of words, so that a walk always ends at the root, and (`Joins`)
  that words have one root just if links lead from one to the other. `SpansAreGreedy`: of the spans looked at so far, the kept ones do not overlap and
  each other positive one overlaps a kept one that comes before it.
  *NlpTags.* `ViterbiIsBest`: no path scores more than the one returned, for any constraints; the table's row `t` holds the best score of any path that ends there at position `t`,
  and the path read back attains it. `ViterbiIsLegal`: the penalties that stand for minus infinity do their work, for BIO constraints of any tags: if the scores of a text differ by
  less than one penalty in sum, and each position keeps a tag that is not an `I`, an illegal path costs at least one penalty and the
  best one none.
* **SequenceProofs.** What filtering, mapping and flattening do to empty, appended and concatenated sequences, proved by induction on
  the length; that folds and recursive functions over positions, forwards and backwards, have one solution.
* **PdfPipelineProofs.** `PdfTypeCorrect`, `VlmBudgetIsKept`, `CeilingIsHonored`,
  `VlmPagesAreVerified` (but for the page that does not render a second time), `TrailIsGapless`, for documents of any length. The invariant adds that a page that is
  about to run the VLM is one the budget still allows, and that the tier at work and every page
  charged are within the policy's levels. `TrailIsGapless`
has an invariant of its own: from the plan on, the trail leads to the tier at work, and only the plan and the
climb after a failure touch either.

The installed provers cannot use the library's induction theorems, which take an operator as a parameter. Where a function is defined by
recursion, the proofs use `NatInductive` and `SeqInductive` of SequenceProofs instead: the inductive claim is a *set* of
numbers or of sequences, and the well-foundedness of `<` closes the argument.

Only model-checked:

* all liveness properties: fairness and ENABLED are beyond the prover;
* of `MentionsAreGrouped` the choice of groups by names and sorts of members (`SetToSortSeq`): that the result parts the mentions, that clusters
  are components and spans greedy is proved (`MentionsArePart`, `ClustersAreConnected`, `SpansAreGreedy`); `TextIsMapped`
  but for its subwords (`SubwordsAreTheirs`);
* of `DecodingIsBest` the trees, and `CascadeIsGlobal`: the maximum over all trees is compared with recursive algorithms, whose modules
  declare RECURSIVE operators. That tags are best and legal is proved (`ViterbiIsBest`, `ViterbiIsLegal`);
* `AcceptedOptionsLoad` and `PagesAreRead`, because the options and maps
  they are about are those of the configuration. `RowsStayTheirs`, `PaddingIsInert` and `ForeignChunksAreSkipped` run on
  graphs and files of the configuration; their general forms are `BatchRowsAreTheirs`, `VectorsIgnoreTheirBatch` and `WavsAreDecoded`.

A theorem without a run of its own (type correctness, stale results, shared instances) was checked by
TLC before it was proved.


## Not modelled

`PROJECT.json` gives a reason for every part. In short: the fields of wire formats beyond roles, blocks, indices and
presence; tensors, graphs, tokenizers and resampling, which are floating point or foreign code; calibration thresholds and the
parsing of meta files; downloads and files; the tables of presets; the autoregressive decoder of document extraction, whose
tokens come from logits and a text generator; llama.cpp's chat, rerank and documents; parsing of markup; PDF confidence; traits,
mocks, examples, benches. Of the modelled parts: metrics, logging, wording
of errors, lengths of time, `head_width` and other constants of models.


## Plan

What is left, in the order of what could go wrong:

1. `Backoff`: `get_backoff` with 64-bit arithmetic against its saturating reading.
2. PDF confidence and number agreement as functions over small alphabets.
3. llama.cpp chat, rerank and document requests through the same post as the embeddings.
4. The autoregressive decoder's stopping rules and repetition guard, with logits as choices.
5. Theorems: the dependency tree (Chu-Liu/Edmonds) as a recursive function over contractions; regions of a map as a closure.
6. Liveness of the lazy models under the executor's fairness.
