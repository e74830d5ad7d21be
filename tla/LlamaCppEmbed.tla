---------------------------- MODULE LlamaCppEmbed ----------------------------
(***************************************************************************)
(* One embed call of the llama.cpp provider: LlamaCppEmbeddingModel::embed *)
(* inside the circuit breaker's operation.  Texts that may exceed the      *)
(* budget are tokenized by the server, all at once and answered in any     *)
(* order; what is too long is cut to the budget; the batch is posted and   *)
(* the answer decoded strictly (remote_common.rs).                         *)
(*                                                                         *)
(* The server is external: it may fail in every way the error classifier   *)
(* tells apart, and its answer may be any sequence of items.               *)
(***************************************************************************)
EXTENDS Integers, Sequences

CONSTANTS
  Texts,           \* what callers embed
  Tokens,          \* token ids
  Chars,           \* `text.chars().count()` of each text
  TokensOf,        \* the server's tokens of each text, special tokens included
  MaxInputTokens,  \* EmbedConfig::max_input_tokens
  Dimensions,      \* EmbedConfig::dimensions
  Widths,          \* widths that vectors may have
  Limits,          \* the lengths of input up to which servers may serve
  MaxTexts,        \* bound on the length of a batch and of an answer
  None,            \* nothing
  NotAnInteger     \* an `index` that is no integer

ASSUME TextType ==
  /\ Chars \in [Texts -> Nat]
  /\ TokensOf \in [Texts -> Seq(Tokens)]
  /\ MaxTexts \in Nat /\ Limits \subseteq Nat
  /\ Dimensions \in Widths
\* MIN_MAX_INPUT_TOKENS: two special tokens and one of content.
ASSUME BudgetAssumption == MaxInputTokens \in Nat /\ MaxInputTokens >= 3
\* "Every WordPiece token consumes at least one character", and two more.
ASSUME WordPiece == \A t \in Texts : Len(TokensOf[t]) \in 2 .. Chars[t] + 2
ASSUME NoneAssumption ==
  /\ None \notin Nat \cup Texts
  /\ NotAnInteger \notin Nat /\ None # NotAnInteger

VARIABLES
  limit,    \* the server's --ubatch-size or --ctx-size, the smaller
  phase,    \* how far the call is
  texts,    \* its batch
  plan,     \* the EmbedInput of each text; None while /tokenize is awaited
  answer,   \* the `data` of the server's answer
  cause,    \* the failure of the server that ended the call
  error,    \* the RuntimeError that embed returns
  vectors,  \* the vectors that embed returns
  verdict   \* what the circuit breaker makes of the call

evars == <<limit, phase, texts, plan, answer, cause, error, vectors, verdict>>

(***************************************************************************)
(* Planning an input.  The text itself is left to the server's tokenizer.  *)
(***************************************************************************)
Text(t) == [text |-> t, ids |-> <<>>]
Ids(s) == [text |-> None, ids |-> s]

\* Variant: one special token forgotten.
MayExceedByOne(t) == Chars[t] > MaxInputTokens - 1
NeedsTokenize(t) == Chars[t] > MaxInputTokens - 2

\* Variant: cut at the budget, the trailing special token is lost.
CutInput(t, ids) ==
  IF Len(ids) <= MaxInputTokens THEN Text(t) ELSE Ids(SubSeq(ids, 1, MaxInputTokens))

PlanInput(t, ids) ==
  IF Len(ids) <= MaxInputTokens THEN Text(t)
  ELSE Ids(Append(SubSeq(ids, 1, MaxInputTokens - 1), ids[Len(ids)]))

\* The sequence that the server embeds for an input.
Received(input) == IF input.text = None THEN input.ids ELSE TokensOf[input.text]

(***************************************************************************)
(* Failures.  "late" and "lost" are the transport's: reqwest times out, or *)
(* breaks, or the body is no JSON of the form that is read.                *)
(***************************************************************************)
Statuses == {"429", "401", "403", "5xx", "other"}
LengthKinds == {"InputTooLarge", "ExceedsContext"}
Deterministic == LengthKinds \cup {"NotSupported"}
Failures ==
  [status : Statuses, kind : Deterministic \cup {"Other"}]
  \cup [status : {"late", "lost"}, kind : {"Other"}]

StatusError(f) ==
  CASE f.status = "429" -> "RateLimited"
    [] f.status \in {"401", "403"} -> "Unauthorized"
    [] f.status = "5xx" -> "Unavailable"
    [] f.status = "late" -> "Timeout"
    [] OTHER -> "ApiError"

\* Variant: the kind is only asked of statuses that name no family.
ErrorByStatus(f) ==
  IF f.kind \in Deterministic /\ f.status = "other" THEN "InferenceError" ELSE StatusError(f)

ErrorOf(f) ==
  IF f.kind \in Deterministic THEN "InferenceError" ELSE StatusError(f)

RuntimeErrors ==
  {"RateLimited", "Unauthorized", "Unavailable", "Timeout", "ApiError", "InferenceError"}
ASSUME NoError == None \notin RuntimeErrors

\* `Ok(Err(..))` of the closure is a success for the breaker.
VerdictOn(e) == IF e \in {None, "InferenceError"} THEN "success" ELSE "failure"

(***************************************************************************)
(* Decoding an answer of n vectors; an item without an array of numbers    *)
(* has no vector.  None stands for a malformed answer.                     *)
(***************************************************************************)
Vectors == [of : 1 .. MaxTexts, width : Widths]
Items ==
  [vector : Vectors \cup {None}, index : 0 .. MaxTexts \cup {None, NotAnInteger}]

Readable(data, n) ==
  /\ Len(data) = n
  /\ \A p \in 1 .. n : data[p].vector # None /\ data[p].index # NotAnInteger

Indexed(data) == \A p \in DOMAIN data : data[p].index # None

\* One slot for each item: with n items, then, one item for each slot.
Placeable(data, n) ==
  /\ \A p \in 1 .. n : data[p].index < n
  /\ \A p, q \in 1 .. n : p # q => data[p].index # data[q].index

\* Variant: the permutation is applied the wrong way round.
PlaceInverse(data, n) == [p \in 1 .. n |-> data[data[p].index + 1].vector]
Place(data, n) ==
  [i \in 1 .. n |-> data[CHOOSE p \in 1 .. n : data[p].index = i - 1].vector]

Decode(data, n) ==
  IF ~Readable(data, n) THEN None
  ELSE IF ~Indexed(data) THEN [p \in 1 .. n |-> data[p].vector]
  ELSE IF Placeable(data, n) THEN Place(data, n)
  ELSE None

WellSized(vs) == \A i \in DOMAIN vs : vs[i].width = Dimensions

(***************************************************************************)
(* The call.                                                               *)
(***************************************************************************)
EInit ==
  /\ limit \in Limits
  /\ phase = "idle"
  /\ texts = <<>> /\ plan = <<>> /\ answer = <<>> /\ vectors = <<>>
  /\ cause = None /\ error = None /\ verdict = None

EmbedNothing ==
  /\ phase = "idle"
  /\ phase' = "done"
  /\ UNCHANGED <<limit, texts, plan, answer, cause, error, vectors, verdict>>

Embed(batch) ==
  /\ phase = "idle"
  /\ texts' = batch
  /\ plan' = [i \in 1 .. Len(batch) |->
                IF NeedsTokenize(batch[i]) THEN None ELSE Text(batch[i])]
  /\ phase' = "planning"
  /\ UNCHANGED <<limit, answer, cause, error, vectors, verdict>>

EndWith(e) ==
  /\ error' = e
  /\ verdict' = VerdictOn(e)
  /\ phase' = "done"

Tokenized(i) ==
  /\ phase = "planning" /\ plan[i] = None
  /\ plan' = [plan EXCEPT ![i] = PlanInput(texts[i], TokensOf[texts[i]])]
  /\ UNCHANGED <<limit, phase, texts, answer, cause, error, vectors, verdict>>

\* The first error ends try_join_all; requests under way are dropped.
TokenizeFails(f) ==
  /\ phase = "planning" /\ \E i \in DOMAIN plan : plan[i] = None
  /\ f.kind \notin LengthKinds
  /\ cause' = f
  /\ EndWith(ErrorOf(f))
  /\ UNCHANGED <<limit, texts, plan, answer, vectors>>

Post ==
  /\ phase = "planning" /\ \A i \in DOMAIN plan : plan[i] # None
  /\ phase' = "posted"
  /\ UNCHANGED <<limit, texts, plan, answer, cause, error, vectors, verdict>>

\* The server rejects a batch for its length only if an input exceeds its limit.
TooLong == \E i \in DOMAIN plan : Len(Received(plan[i])) > limit

EmbedFails(f) ==
  /\ phase = "posted"
  /\ f.kind \in LengthKinds => TooLong
  /\ cause' = f
  /\ EndWith(ErrorOf(f))
  /\ UNCHANGED <<limit, texts, plan, answer, vectors>>

Answered(data) ==
  /\ phase = "posted" /\ ~TooLong
  /\ answer' = data
  /\ LET vs == Decode(data, Len(texts))
         ok == vs # None /\ WellSized(vs)
     IN  /\ vectors' = IF ok THEN vs ELSE <<>>
         /\ EndWith(IF ok THEN None ELSE "ApiError")
  /\ UNCHANGED <<limit, texts, plan, cause>>

ENext ==
  \/ EmbedNothing
  \/ \E n \in 1 .. MaxTexts : \E b \in [1 .. n -> Texts] : Embed(b)
  \/ \E i \in DOMAIN plan : Tokenized(i)
  \/ \E f \in Failures : TokenizeFails(f) \/ EmbedFails(f)
  \/ Post
  \/ phase = "posted" /\ \E n \in 0 .. MaxTexts : \E d \in [1 .. n -> Items] : Answered(d)

ESpec == EInit /\ [][ENext]_evars

-----------------------------------------------------------------------------
(* Properties *)

Inputs == [text : Texts \cup {None}, ids : Seq(Tokens)]

ETypeOK ==
  /\ limit \in Limits
  /\ phase \in {"idle", "planning", "posted", "done"}
  /\ texts \in Seq(Texts)
  /\ plan \in Seq(Inputs \cup {None}) /\ Len(plan) = Len(texts)
  /\ answer \in Seq(Items)
  /\ vectors \in Seq(Vectors)
  /\ cause \in Failures \cup {None}
  /\ error \in RuntimeErrors \cup {None}
  /\ verdict \in {"success", "failure", None}

(* "Batches preserve input order and produce exactly one vector per input":*)
(* whatever order /tokenize and /v1/embeddings answer in.  A server is     *)
(* taken at its word: an index names the input that its vector belongs to, *)
(* and unless every item has one the items stand in the order of inputs.   *)
Honest ==
  /\ \A p \in DOMAIN answer : answer[p].vector # None /\ answer[p].index # None =>
       answer[p].index = answer[p].vector.of - 1
  /\ (\E p \in DOMAIN answer : answer[p].index = None) =>
       \A p \in DOMAIN answer : answer[p].vector # None => answer[p].vector.of = p

OneVectorEach ==
  phase = "done" /\ error = None =>
    /\ Len(vectors) = Len(texts)
    /\ WellSized(vectors)
    /\ Honest => \A i \in DOMAIN vectors : vectors[i].of = i

(* The server embeds all of a text if it fits the budget, and else its     *)
(* first tokens and the special token at its end, as many as the budget    *)
(* allows.                                                                 *)
Bounded(got, all) ==
  IF Len(all) <= MaxInputTokens THEN got = all
  ELSE /\ Len(got) = MaxInputTokens
       /\ \A k \in 1 .. MaxInputTokens - 1 : got[k] = all[k]
       /\ got[MaxInputTokens] = all[Len(all)]

InputsAreBounded ==
  phase = "posted" =>
    \A i \in DOMAIN plan : Bounded(Received(plan[i]), TokensOf[texts[i]])

(* A server whose limits allow the budget never rejects a batch for its    *)
(* length, whether its inputs were tokenized first or not.                 *)
NoLengthRejection ==
  cause # None /\ limit >= MaxInputTokens => cause.kind \notin LengthKinds

(* Rejections that are "deterministic configuration problems" are neither  *)
(* retried nor held against the server, whatever HTTP status they come     *)
(* with; every other failure counts for the breaker.                       *)
RejectionsAreFinal ==
  cause # None =>
    IF cause.kind \in Deterministic
    THEN error = "InferenceError" /\ verdict = "success"
    ELSE verdict = "failure"

=============================================================================
