---------------------------- MODULE RemoteRequests ----------------------------
(***************************************************************************)
(* One request of a model of a remote provider: what the method makes of   *)
(* its input, the post inside the circuit breaker's operation, and what it *)
(* makes of the answer.  The services are external: a post fails in every *)
(* way check_http_status tells apart, and an answer may lack what the      *)
(* method looks for.                                                       *)
(*                                                                         *)
(* A text is its position in the batch, a vector the text it belongs to; a *)
(* message is a role and its blocks.  Token usage and sampling options are *)
(* left out.                                                               *)
(***************************************************************************)
EXTENDS Naturals, Sequences, SequencesExt, SequenceFilter

CONSTANTS
  Prompts,    \* lists of messages that callers send
  Documents,  \* multimodal inputs: sequences of blocks
  MaxBatch,   \* bound on texts, documents and inputs in a request
  Absent      \* nothing

ASSUME BatchType == MaxBatch \in Nat
ASSUME AbsentIsNoError == Absent \notin {"RateLimited", "Unauthorized", "Unavailable", "ApiError"}

\* traits.rs, Message.
Message == [role : {"system", "user", "assistant"}, blocks : Seq({"text", "image"})]
ASSUME PromptType == Prompts \subseteq Seq(Message)

VARIABLES
  method,   \* <<provider, trait method>>
  input,    \* its argument
  stage,    \* how far the request is
  payload,  \* what is posted
  reply,    \* the body that came back
  output,   \* what the method returns
  failure,  \* the RuntimeError that it returns
  counted   \* what the breaker counts

qvars == <<method, input, stage, payload, reply, output, failure, counted>>

(***************************************************************************)
(* Payloads of the chat methods.  A message that goes out is its role and  *)
(* the blocks that are sent; block b of message m is <<m, b>>.             *)
(***************************************************************************)
BlocksOf(p, m, kinds) ==
  Filter([b \in DOMAIN p[m].blocks |-> <<m, b>>],
         {<<m, b>> : b \in {c \in DOMAIN p[m].blocks : p[m].blocks[c] \in kinds}})

Sent(role, blocks) == [role |-> role, blocks |-> blocks]

\* Message::text.
MessageText(p, m) == BlocksOf(p, m, {"text"})

Pictured(p, m) == \E b \in DOMAIN p[m].blocks : p[m].blocks[b] # "text"

\* Variant: every message takes the plain form.
OpenAIMessagesAsText(p) == [m \in DOMAIN p |-> Sent(p[m].role, MessageText(p, m))]

OpenAIMessages(p) ==
  [m \in DOMAIN p |->
     Sent(p[m].role, IF Pictured(p, m) THEN BlocksOf(p, m, {"text", "image"}) ELSE MessageText(p, m))]

\* Mistral and Cohere.
PlainMessages(p) == [m \in DOMAIN p |-> Sent(p[m].role, MessageText(p, m))]
CohereMessages(p) == PlainMessages(p)

InRoles(p, roles) == Filter([m \in DOMAIN p |-> m], {m \in DOMAIN p : p[m].role \in roles})

System(p) ==
  LET ms == InRoles(p, {"system"})
  IN  IF ms = <<>> THEN <<>>
      ELSE <<Sent("system", FlattenSeq([i \in DOMAIN ms |-> MessageText(p, ms[i])]))>>

Turns(p) ==
  LET ms == InRoles(p, {"user", "assistant"})
  IN  [i \in DOMAIN ms |-> Sent(p[ms[i]].role, MessageText(p, ms[i]))]

\* The system instruction is a field of its own, put first here.
GooglePayload(p) == System(p) \o Turns(p)
AnthropicPayload(p) == System(p) \o Turns(p)

ChatPayload(provider, p) ==
  CASE provider \in {"openai", "azure-openai"} -> OpenAIMessages(p)
    [] provider = "mistral" -> PlainMessages(p)
    [] provider = "cohere" -> CohereMessages(p)
    [] provider = "anthropic" -> AnthropicPayload(p)
    [] provider \in {"gemini", "vertexai"} -> GooglePayload(p)

(***************************************************************************)
(* Multimodal inputs, converted before the breaker is asked.               *)
(***************************************************************************)
CohereInput(d) == IF "audio" \in Range(d) THEN Absent ELSE d
GeminiInput(d) == d

(***************************************************************************)
(* Answers.  A body has a list or not; an item of it is its number, 0 for  *)
(* one without the field that is read, or Hollow for one whose field holds *)
(* nothing (an index of a document: one that is not there).  A text that   *)
(* is read is the number of its item, or 0 if empty.                       *)
(***************************************************************************)
Hollow == MaxBatch + 1
Bodies == {Absent} \cup UNION {[1 .. n -> 0 .. Hollow] : n \in 0 .. MaxBatch}

Found(x) == x # 0
Said(x) == IF x = Hollow THEN 0 ELSE x

\* Items without a vector are skipped, and a missing list is an empty one.
WithVectors(body) == Filter(body, {x \in Range(body) : Found(x)})
OpenAIEmbed(body) == IF body = Absent THEN <<>> ELSE WithVectors(body)
AzureEmbed(body) == OpenAIEmbed(body)
MistralEmbed(body) == OpenAIEmbed(body)
VoyageEmbed(body) == OpenAIEmbed(body)

CohereEmbed(body) == IF body = Absent THEN Absent ELSE WithVectors(body)
CohereEmbedInputs(body) == CohereEmbed(body)

\* Variant: an item without values is skipped.
GeminiEmbedSkipping(body) == CohereEmbed(body)

\* Every item must have its values.
GeminiEmbed(body) ==
  IF body = Absent \/ \E i \in DOMAIN body : ~Found(body[i]) THEN Absent ELSE body
GeminiEmbedInputs(body) == GeminiEmbed(body)
VertexEmbed(body) == GeminiEmbed(body)

\* An item without an index is taken for the first document.
Ranked(body) ==
  IF body = Absent THEN Absent
  ELSE [i \in DOMAIN body |-> IF Found(body[i]) THEN body[i] ELSE 1]
CohereRerank(body) == Ranked(body)
VoyageRerank(body) == Ranked(body)

\* The first choice's text, or the empty text.
OpenAIGenerate(body) == IF body \in {Absent, <<>>} THEN 0 ELSE Said(body[1])
AzureGenerate(body) == OpenAIGenerate(body)
MistralGenerate(body) == OpenAIGenerate(body)
CohereGenerate(body) == OpenAIGenerate(body)
AnthropicGenerate(body) == OpenAIGenerate(body)

\* A missing or empty list of candidates is an error, and so is a first one
\* without parts.
GeminiGenerate(body) ==
  IF body \in {Absent, <<>>} THEN Absent ELSE IF ~Found(body[1]) THEN Absent ELSE Said(body[1])
VertexGenerate(body) == GeminiGenerate(body)

Decoded(m, body) ==
  CASE m = <<"openai", "embed">> -> OpenAIEmbed(body)
    [] m = <<"azure-openai", "embed">> -> AzureEmbed(body)
    [] m = <<"mistral", "embed">> -> MistralEmbed(body)
    [] m = <<"voyageai", "embed">> -> VoyageEmbed(body)
    [] m = <<"cohere", "embed">> -> CohereEmbed(body)
    [] m = <<"gemini", "embed">> -> GeminiEmbed(body)
    [] m = <<"vertexai", "embed">> -> VertexEmbed(body)
    [] m = <<"cohere", "embed inputs">> -> CohereEmbedInputs(body)
    [] m = <<"gemini", "embed inputs">> -> GeminiEmbedInputs(body)
    [] m = <<"cohere", "rerank">> -> CohereRerank(body)
    [] m = <<"voyageai", "rerank">> -> VoyageRerank(body)
    [] m = <<"openai", "generate">> -> OpenAIGenerate(body)
    [] m = <<"azure-openai", "generate">> -> AzureGenerate(body)
    [] m = <<"mistral", "generate">> -> MistralGenerate(body)
    [] m = <<"cohere", "generate">> -> CohereGenerate(body)
    [] m = <<"anthropic", "generate">> -> AnthropicGenerate(body)
    [] m = <<"gemini", "generate">> -> GeminiGenerate(body)
    [] m = <<"vertexai", "generate">> -> VertexGenerate(body)

Chatting == {"openai", "azure-openai", "mistral", "cohere", "anthropic", "gemini", "vertexai"}
Embedding == {"openai", "azure-openai", "mistral", "voyageai", "cohere", "gemini", "vertexai"}

-----------------------------------------------------------------------------

QInit ==
  /\ method = Absent /\ input = Absent /\ payload = Absent /\ reply = Absent
  /\ output = Absent /\ failure = Absent /\ counted = Absent
  /\ stage = "idle"

Called(m, in, out) ==
  /\ stage = "idle"
  /\ method' = m /\ input' = in /\ payload' = out
  /\ stage' = "posted"
  /\ UNCHANGED <<reply, output, failure, counted>>

Generate(provider, p) == Called(<<provider, "generate">>, p, ChatPayload(provider, p))
EmbedTexts(provider, n) == Called(<<provider, "embed">>, [i \in 1 .. n |-> i], [i \in 1 .. n |-> i])
Rerank(provider, n) == Called(<<provider, "rerank">>, [i \in 1 .. n |-> i], [i \in 1 .. n |-> i])

Return(out, error, count) ==
  /\ output' = out /\ failure' = error /\ counted' = count
  /\ stage' = "done"

\* The first input that cannot be converted ends the call before the breaker.
EmbedInputs(provider, ds) ==
  LET converted ==
        [i \in DOMAIN ds |-> IF provider = "cohere" THEN CohereInput(ds[i]) ELSE GeminiInput(ds[i])]
  IN  \/ /\ Absent \notin Range(converted)
         /\ Called(<<provider, "embed inputs">>, ds, converted)
      \/ /\ Absent \in Range(converted) /\ stage = "idle"
         /\ method' = <<provider, "embed inputs">> /\ input' = ds
         /\ Return(Absent, "ApiError", Absent)
         /\ UNCHANGED <<payload, reply>>

\* check_http_status; a post that does not arrive and a body that is not
\* JSON are ApiErrors, whatever reqwest says of them.
HttpError(status) ==
  CASE status = "429" -> "RateLimited"
    [] status \in {"401", "403"} -> "Unauthorized"
    [] status = "5xx" -> "Unavailable"
    [] OTHER -> "ApiError"

Rejected(status) ==
  /\ stage = "posted"
  /\ Return(Absent, HttpError(status), "failure")
  /\ UNCHANGED <<method, input, payload, reply>>

Served(body) ==
  /\ stage = "posted"
  /\ reply' = body
  /\ LET out == Decoded(method, body)
     IN  IF out = Absent THEN Return(Absent, "ApiError", "failure")
         ELSE Return(out, Absent, "success")
  /\ UNCHANGED <<method, input, payload>>

QNext ==
  \/ \E provider \in Chatting, p \in Prompts : Generate(provider, p)
  \/ \E provider \in Embedding, n \in 0 .. MaxBatch : EmbedTexts(provider, n)
  \/ \E provider \in {"cohere", "voyageai"}, n \in 1 .. MaxBatch : Rerank(provider, n)
  \/ \E provider \in {"cohere", "gemini"}, n \in 1 .. MaxBatch :
       \E ds \in [1 .. n -> Documents] : EmbedInputs(provider, ds)
  \/ \E status \in {"429", "401", "403", "5xx", "other", "lost"} : Rejected(status)
  \/ \E body \in Bodies : Served(body)

QSpec == QInit /\ [][QNext]_qvars

-----------------------------------------------------------------------------
(* Properties *)

\* The blocks of some kinds that the messages of some roles have.
AllBlocks(p, roles, kinds) ==
  LET ms == InRoles(p, roles)
  IN  FlattenSeq([i \in DOMAIN ms |-> BlocksOf(p, ms[i], kinds)])

SentBlocks(out, roles) ==
  LET here == Filter(out, {m \in Range(out) : m.role \in roles})
  IN  FlattenSeq([i \in DOMAIN here |-> here[i].blocks])

\* The APIs whose payload has the images.
TakesImages == {"openai", "azure-openai"}

(* All text a caller says is sent once and in order, whatever the API      *)
(* wants done with system messages: the turns with their text in the order *)
(* of the conversation, the system's text as one block or in its place.    *)
(* OpenAI and Azure are sent the images too.  The other APIs lose them     *)
(* without an error (remote_common.rs:377, cohere.rs:270), though          *)
(* website/docs/guides/multimodal-generation.md:12 lists remote/gemini and *)
(* remote/cohere under "Text + images in", and remote_common.rs:295 calls  *)
(* that very loss "the bug this helper exists to fix".                     *)
PromptIsWhole ==
  stage = "posted" /\ method[2] = "generate" =>
    LET kinds == IF method[1] \in TakesImages THEN {"text", "image"} ELSE {"text"}
    IN  \A roles \in {{"system"}, {"user", "assistant"}} :
          SentBlocks(payload, roles) = AllBlocks(input, roles, kinds)

(* A service that answers every text in its order, though it may have no   *)
(* vector for some.                                                        *)
HonestAnswer ==
  /\ reply # Absent
  /\ Len(reply) = Len(input)
  /\ \A i \in DOMAIN reply : reply[i] \in {0, i}

Embedded == stage = "done" /\ failure = Absent /\ method[2] \in {"embed", "embed inputs"}

(* No vector is ever taken for another text's: the providers that demand a *)
(* vector in each item fail rather than shift, the others shift only if an *)
(* item has none.                                                          *)
VectorsStayAligned ==
  Embedded /\ HonestAnswer =>
    \/ \A i \in DOMAIN input : i \in DOMAIN output /\ output[i] = i
    \/ method[1] \notin {"gemini", "vertexai"} /\ 0 \in Range(reply)

=============================================================================
