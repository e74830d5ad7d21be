----------------------------- MODULE RemoteProofs -----------------------------
(***************************************************************************)
(* Theorems of the clients of models that run elsewhere: LlamaCppEmbed, for *)
(* any texts, tokenizer and budget that satisfy its assumptions, batches of *)
(* any length and any server; RemoteProviders, for any loaders, keys,      *)
(* breakers and times; and RemoteRequests, for prompts of any length.      *)
(***************************************************************************)
EXTENDS LlamaCppEmbed, RemoteProviders, RemoteRequests, SequenceProofs,
        FiniteSetTheorems, FunctionTheorems, TLAPS

(***************************************************************************)
(* LlamaCppEmbed.                                                          *)
(***************************************************************************)
(* The pigeonhole argument behind `s.expect("every slot filled: ...")` of  *)
(* parse_openai_embeddings_response: n different indexes below n fill      *)
(* every slot.                                                             *)
LEMMA EverySlotFilled ==
  ASSUME NEW n \in Nat, NEW data \in Seq(Items), Len(data) = n,
         Placeable(data, n), \A p \in 1 .. n : data[p].index \in Nat,
         NEW i \in 1 .. n
  PROVE  \E p \in 1 .. n : data[p].index = i - 1
<1>. DEFINE At == 1 .. n
            Slots == 0 .. n - 1
            f == [p \in At |-> data[p].index]
            Hit == {f[p] : p \in At}
<1>1. IsFiniteSet(At) /\ Cardinality(At) = n
  <2>1. IsFiniteSet(1 .. n) /\ Cardinality(1 .. n) = IF 1 > n THEN 0 ELSE n - 1 + 1
    BY FS_Interval
  <2>. QED
    BY <2>1
<1>2. IsFiniteSet(Slots) /\ Cardinality(Slots) = n
  <2>1. /\ IsFiniteSet(0 .. n - 1)
        /\ Cardinality(0 .. n - 1) = IF 0 > n - 1 THEN 0 ELSE n - 1 - 0 + 1
    BY FS_Interval
  <2>. QED
    BY <2>1
<1>3. Hit \in SUBSET Slots
  BY DEF Placeable
<1>4. ExistsBijection(At, Hit)
  <2>1. f \in [At -> Hit] /\ \A h \in Hit : \E p \in At : f[p] = h
    OBVIOUS
  <2>2. \A p, q \in At : f[p] = f[q] => p = q
    BY DEF Placeable
  <2>. HIDE DEF At, Hit, f
  <2>3. f \in Bijection(At, Hit)
    BY <2>1, <2>2 DEF Bijection, Injection, Surjection, IsInjective
  <2>. QED
    BY <2>3 DEF ExistsBijection
<1>5. Cardinality(Hit) = n
  <2>. HIDE DEF At, Hit
  <2>. QED
    BY <1>1, <1>4, FS_Bijection
<1>6. Hit = Slots
  <2>. HIDE DEF Slots, Hit
  <2>. QED
    BY <1>2, <1>3, <1>5, FS_Subset
<1>7. i - 1 \in Slots
  OBVIOUS
<1>8. \E p \in At : f[p] = i - 1
  <2>. HIDE DEF Slots, f
  <2>. QED
    BY <1>6, <1>7
<1>. QED
  BY <1>8

(* Every answer that decodes yields one vector for each input; if it is    *)
(* honest, each in its place.                                              *)
LEMMA DecodeIsInOrder ==
  ASSUME NEW n \in Nat, NEW data \in Seq(Items), Decode(data, n) # None
  PROVE  /\ Decode(data, n) \in [1 .. n -> Vectors]
         /\ \A i \in 1 .. n : Indexed(data) =>
              \E p \in 1 .. n : /\ data[p].index = i - 1
                               /\ Decode(data, n)[i] = data[p].vector
         /\ \A i \in 1 .. n : ~Indexed(data) => Decode(data, n)[i] = data[i].vector
<1>1. Readable(data, n)
  BY DEF Decode
<1>2. Len(data) = n /\ \A p \in 1 .. n : data[p] \in Items /\ data[p].vector \in Vectors
  <2>1. Len(data) = n /\ \A p \in 1 .. n : data[p].vector # None
    BY <1>1 DEF Readable
  <2>2. \A p \in 1 .. n : data[p] \in Items
    BY <2>1
  <2>3. \A x \in Items : x.vector \in Vectors \cup {None}
    BY DEF Items
  <2>. QED
    BY <2>1, <2>2, <2>3
<1>3. CASE ~Indexed(data)
  <2>1. Decode(data, n) = [p \in 1 .. n |-> data[p].vector]
    BY <1>1, <1>3 DEF Decode
  <2>. QED
    BY <1>2, <1>3, <2>1
<1>4. CASE Indexed(data)
  <2>1. Placeable(data, n) /\ Decode(data, n) = Place(data, n)
    BY <1>1, <1>4 DEF Decode
  <2>2. \A p \in 1 .. n : data[p].index \in Nat
    BY <1>1, <1>2, <1>4 DEF Indexed, Items, Readable
  <2>3. \A i \in 1 .. n : \E p \in 1 .. n : data[p].index = i - 1
    BY <1>2, <2>1, <2>2, EverySlotFilled
  <2>. DEFINE At(i) == CHOOSE p \in 1 .. n : data[p].index = i - 1
  <2>4. \A i \in 1 .. n : At(i) \in 1 .. n /\ data[At(i)].index = i - 1
    BY <2>3
  <2>5. Place(data, n) = [i \in 1 .. n |-> data[At(i)].vector]
    BY DEF Place
  <2>. HIDE DEF At
  <2>. QED
    BY <1>2, <1>4, <2>1, <2>4, <2>5
<1>. QED
  BY <1>3, <1>4

-----------------------------------------------------------------------------
(* Planning: whatever is sent unseen fits, whatever is cut is cut right.   *)
LEMMA UnseenFits ==
  ASSUME NEW t \in Texts, ~NeedsTokenize(t)
  PROVE  Text(t) \in Inputs /\ Bounded(Received(Text(t)), TokensOf[t])
<1>1. TokensOf[t] \in Seq(Tokens) /\ Len(TokensOf[t]) <= Chars[t] + 2 /\ Chars[t] \in Nat
  BY TextType, WordPiece
<1>2. Len(TokensOf[t]) <= MaxInputTokens
  BY <1>1, BudgetAssumption DEF NeedsTokenize
<1>3. Received(Text(t)) = TokensOf[t]
  BY NoneAssumption DEF Received, Text
<1>4. Text(t) \in Inputs
  BY DEF Text, Inputs
<1>. QED
  BY <1>2, <1>3, <1>4 DEF Bounded

LEMMA PlanIsBounded ==
  ASSUME NEW t \in Texts
  PROVE  /\ PlanInput(t, TokensOf[t]) \in Inputs
         /\ Bounded(Received(PlanInput(t, TokensOf[t])), TokensOf[t])
<1>. DEFINE all == TokensOf[t]
            cut == Append(SubSeq(all, 1, MaxInputTokens - 1), all[Len(all)])
<1>1. all \in Seq(Tokens)
  BY TextType
<1>2. CASE Len(all) <= MaxInputTokens
  <2>1. PlanInput(t, all) = Text(t)
    BY <1>2 DEF PlanInput
  <2>2. Received(Text(t)) = all /\ Text(t) \in Inputs
    BY NoneAssumption DEF Received, Text, Inputs
  <2>. QED
    BY <1>2, <2>1, <2>2 DEF Bounded
<1>3. CASE ~(Len(all) <= MaxInputTokens)
  <2>1. PlanInput(t, all) = Ids(cut)
    BY <1>3 DEF PlanInput
  <2>2. cut \in Seq(Tokens) /\ Len(cut) = MaxInputTokens
    BY <1>1, <1>3, BudgetAssumption
  <2>3. \A k \in 1 .. MaxInputTokens - 1 : cut[k] = all[k]
    BY <1>1, <1>3, BudgetAssumption
  <2>4. cut[MaxInputTokens] = all[Len(all)]
    BY <1>1, <1>3, BudgetAssumption
  <2>. HIDE DEF all, cut
  <2>5. Received(Ids(cut)) = cut /\ Ids(cut) \in Inputs
    BY <2>2 DEF Received, Ids, Inputs
  <2>. QED
    BY <1>3, <2>1, <2>2, <2>3, <2>4, <2>5 DEF Bounded, all
<1>. QED
  BY <1>2, <1>3

-----------------------------------------------------------------------------
(* What a call has when it waits for the server, and what it has not: the  *)
(* inputs decided so far are within the budget, the batch that was posted  *)
(* is decided as a whole, and there is no outcome before the end.          *)
Undecided ==
  phase # "done" =>
    cause = None /\ error = None /\ vectors = <<>> /\ answer = <<>>

PlanBounded ==
  \A i \in DOMAIN plan :
    plan[i] # None => Bounded(Received(plan[i]), TokensOf[texts[i]])

AllDecided == phase = "posted" => \A i \in DOMAIN plan : plan[i] # None

EInv ==
  /\ ETypeOK
  /\ phase = "idle" => texts = <<>>
  /\ Undecided /\ PlanBounded /\ AllDecided
  /\ OneVectorEach /\ NoLengthRejection /\ RejectionsAreFinal

LEMMA EInitInv == EInit => EInv
<1>. SUFFICES ASSUME EInit PROVE EInv
  OBVIOUS
<1>1. ETypeOK
  BY DEF EInit, ETypeOK
<1>. QED
  BY <1>1 DEF EInit, EInv, Undecided, PlanBounded, AllDecided, OneVectorEach,
    NoLengthRejection, RejectionsAreFinal

(* A batch that fits the budget is not longer than a server's limit.       *)
LEMMA FittingIsNotTooLong ==
  ASSUME ETypeOK, PlanBounded, \A i \in DOMAIN plan : plan[i] # None,
         limit >= MaxInputTokens
  PROVE  ~TooLong
<1>. SUFFICES ASSUME NEW i \in DOMAIN plan, Len(Received(plan[i])) > limit
              PROVE  FALSE
  BY DEF TooLong
<1>1. Bounded(Received(plan[i]), TokensOf[texts[i]])
  BY DEF PlanBounded
<1>2. limit \in Nat /\ MaxInputTokens \in Nat
  BY TextType, BudgetAssumption DEF ETypeOK
<1>3. texts[i] \in Texts
  BY DEF ETypeOK
<1>4. TokensOf[texts[i]] \in Seq(Tokens)
  BY <1>3, TextType
<1>. QED
  BY <1>1, <1>2, <1>4 DEF Bounded

(* What ends a call because of a failure of the server.                    *)
LEMMA FailureIsClassified ==
  ASSUME NEW f \in Failures
  PROVE  /\ ErrorOf(f) \in RuntimeErrors /\ ErrorOf(f) # None
         /\ f.kind \in Deterministic => /\ ErrorOf(f) = "InferenceError"
                                       /\ VerdictOn(ErrorOf(f)) = "success"
         /\ f.kind \notin Deterministic => VerdictOn(ErrorOf(f)) = "failure"
         /\ VerdictOn(ErrorOf(f)) \in {"success", "failure"}
<1>1. StatusError(f) \in RuntimeErrors \ {"InferenceError"}
  BY DEF StatusError, RuntimeErrors
<1>2. ErrorOf(f) \in RuntimeErrors /\ ErrorOf(f) # None
  BY <1>1, NoError DEF ErrorOf, RuntimeErrors
<1>. QED
  BY <1>1, <1>2 DEF ErrorOf, VerdictOn

LEMMA FailureKeepsInv ==
  ASSUME EInv, NEW f \in Failures, phase # "idle",
         f.kind \in LengthKinds => limit < MaxInputTokens,
         cause' = f, EndWith(ErrorOf(f)),
         UNCHANGED <<limit, texts, plan, answer, vectors>>
  PROVE  EInv'
<1>1. ETypeOK'
  BY FailureIsClassified DEF EInv, ETypeOK, EndWith
<1>2. phase' = "done" /\ error' # None
  BY FailureIsClassified DEF EndWith
<1>3. PlanBounded'
  BY DEF EInv, PlanBounded
<1>4. Undecided' /\ AllDecided' /\ OneVectorEach'
  BY <1>2 DEF Undecided, AllDecided, OneVectorEach
<1>5. NoLengthRejection'
  <2>1. limit \in Nat /\ MaxInputTokens \in Nat
    BY TextType, BudgetAssumption DEF EInv, ETypeOK
  <2>. QED
    BY <2>1 DEF NoLengthRejection
<1>6. RejectionsAreFinal'
  BY FailureIsClassified DEF RejectionsAreFinal, EndWith
<1>. QED
  BY <1>1, <1>2, <1>3, <1>4, <1>5, <1>6 DEF EInv

LEMMA EmbedKeepsInv ==
  ASSUME EInv, NEW n \in 1 .. MaxTexts, NEW b \in [1 .. n -> Texts], Embed(b)
  PROVE  EInv'
<1>1. b \in Seq(Texts) /\ Len(b) = n /\ n \in Nat
  BY TextType
<1>2. \A i \in 1 .. n : b[i] \in Texts
  OBVIOUS
<1>3. plan' = [i \in 1 .. n |-> IF NeedsTokenize(b[i]) THEN None ELSE Text(b[i])]
  BY <1>1 DEF Embed
<1>4. \A i \in 1 .. n : plan'[i] \in Inputs \cup {None}
  BY <1>2, <1>3, UnseenFits
<1>5. plan' \in Seq(Inputs \cup {None}) /\ Len(plan') = n
  <2>1. plan' \in [1 .. n -> Inputs \cup {None}]
    BY <1>3, <1>4
  <2>. QED
    BY <1>1, <2>1
<1>6. ETypeOK'
  BY <1>1, <1>5 DEF EInv, ETypeOK, Embed
<1>7. PlanBounded'
  BY <1>2, <1>3, UnseenFits DEF PlanBounded, Embed
<1>. QED
  BY <1>6, <1>7 DEF EInv, Embed, Undecided, AllDecided, OneVectorEach,
    NoLengthRejection, RejectionsAreFinal

LEMMA TokenizedKeepsInv ==
  ASSUME EInv, NEW i \in DOMAIN plan, Tokenized(i)
  PROVE  EInv'
<1>. DEFINE planned == PlanInput(texts[i], TokensOf[texts[i]])
<1>1. texts[i] \in Texts
  BY DEF EInv, ETypeOK
<1>2. planned \in Inputs /\ Bounded(Received(planned), TokensOf[texts[i]])
  BY <1>1, PlanIsBounded
<1>3. plan' = [plan EXCEPT ![i] = planned] /\ texts' = texts
  BY DEF Tokenized
<1>. HIDE DEF planned
<1>4. plan' \in Seq(Inputs \cup {None}) /\ Len(plan') = Len(plan)
  BY <1>2, <1>3 DEF EInv, ETypeOK
<1>5. ETypeOK'
  BY <1>4 DEF EInv, ETypeOK, Tokenized
<1>6. PlanBounded'
  <2>. SUFFICES ASSUME NEW k \in DOMAIN plan, plan'[k] # None
                PROVE  Bounded(Received(plan'[k]), TokensOf[texts[k]])
    BY <1>3 DEF PlanBounded
  <2>1. CASE k = i
    BY <1>2, <1>3, <2>1
  <2>2. CASE k # i
    BY <1>3, <2>2 DEF EInv, PlanBounded
  <2>. QED
    BY <2>1, <2>2
<1>. QED
  BY <1>5, <1>6 DEF EInv, Tokenized, Undecided, AllDecided, OneVectorEach,
    NoLengthRejection, RejectionsAreFinal

LEMMA AnsweredKeepsInv ==
  ASSUME EInv, NEW n \in 0 .. MaxTexts, NEW data \in [1 .. n -> Items],
         Answered(data)
  PROVE  EInv'
<1>. DEFINE m == Len(texts)
            vs == Decode(data, m)
            ok == vs # None /\ WellSized(vs)
<1>1. data \in Seq(Items) /\ m \in Nat
  BY TextType DEF EInv, ETypeOK
<1>2. /\ phase = "posted" /\ phase' = "done" /\ answer' = data
      /\ vectors' = (IF ok THEN vs ELSE <<>>)
      /\ error' = (IF ok THEN None ELSE "ApiError")
      /\ verdict' = VerdictOn(error')
      /\ UNCHANGED <<limit, texts, plan, cause>>
  BY DEF Answered, EndWith
<1>3. vs # None => vs \in [1 .. m -> Vectors]
  BY <1>1, DecodeIsInOrder
<1>4. vs # None => vs \in Seq(Vectors) /\ Len(vs) = m
  BY <1>1, <1>3
<1>5. ETypeOK'
  <2>. HIDE DEF vs, ok
  <2>1. ok => vs # None
    BY DEF ok
  <2>2. vectors' \in Seq(Vectors)
    BY <1>2, <1>4, <2>1
  <2>3. error' \in RuntimeErrors \cup {None} /\ verdict' \in {"success", "failure", None}
    BY <1>2 DEF RuntimeErrors, VerdictOn
  <2>. QED
    BY <1>1, <1>2, <2>2, <2>3 DEF EInv, ETypeOK
<1>6. OneVectorEach'
  <2>1. CASE ~ok
    <3>1. error' # None
      BY <1>2, <2>1, NoError DEF RuntimeErrors
    <3>. QED
      BY <3>1 DEF OneVectorEach
  <2>2. CASE ok
    <3>1. vectors' = vs /\ Len(vectors') = m /\ WellSized(vectors)' /\ texts' = texts
      BY <1>2, <1>4, <2>2 DEF WellSized
    <3>2. ASSUME Honest', NEW i \in 1 .. m
          PROVE  vs[i].of = i
      <4>1. CASE Indexed(data)
        <5>1. PICK p \in 1 .. m : data[p].index = i - 1 /\ vs[i] = data[p].vector
          BY <1>1, <2>2, <4>1, DecodeIsInOrder
        <5>2. vs[i] \in Vectors /\ Readable(data, m)
          BY <1>3, <2>2 DEF Decode
        <5>3. p \in DOMAIN data /\ data[p].vector # None /\ data[p].index # None
          BY <1>1, <4>1, <5>2 DEF Readable, Indexed
        <5>4. data[p].index = data[p].vector.of - 1
          BY <1>2, <3>2, <5>3 DEF Honest
        <5>. QED
          BY <5>1, <5>2, <5>4, TextType DEF Vectors
      <4>2. CASE ~Indexed(data)
        <5>1. vs[i] = data[i].vector
          BY <1>1, <2>2, <4>2, DecodeIsInOrder
        <5>2. i \in DOMAIN data /\ data[i].vector # None
          BY <1>1, <2>2 DEF Decode, Readable
        <5>3. \E p \in DOMAIN data : data[p].index = None
          BY <4>2 DEF Indexed
        <5>. QED
          BY <1>2, <3>2, <5>1, <5>2, <5>3 DEF Honest
      <4>. QED
        BY <4>1, <4>2
    <3>3. DOMAIN vs = 1 .. m
      BY <1>3, <2>2
    <3>. HIDE DEF vs, ok, m
    <3>. QED
      BY <3>1, <3>2, <3>3 DEF OneVectorEach, m
  <2>. QED
    BY <2>1, <2>2
<1>. QED
  BY <1>2, <1>5, <1>6 DEF EInv, Undecided, PlanBounded, AllDecided,
    NoLengthRejection, RejectionsAreFinal

LEMMA ENextInv == EInv /\ [ENext]_evars => EInv'
<1>. SUFFICES ASSUME EInv, [ENext]_evars PROVE EInv'
  OBVIOUS
<1>1. CASE EmbedNothing
  BY <1>1 DEF EmbedNothing, EInv, ETypeOK, Undecided, PlanBounded, AllDecided,
    OneVectorEach, WellSized, Honest, NoLengthRejection, RejectionsAreFinal
<1>2. ASSUME NEW n \in 1 .. MaxTexts, NEW b \in [1 .. n -> Texts], Embed(b)
      PROVE  EInv'
  BY <1>2, EmbedKeepsInv
<1>3. ASSUME NEW i \in DOMAIN plan, Tokenized(i) PROVE EInv'
  BY <1>3, TokenizedKeepsInv
<1>4. ASSUME NEW f \in Failures, TokenizeFails(f) PROVE EInv'
  BY <1>4, FailureKeepsInv DEF TokenizeFails
<1>5. ASSUME NEW f \in Failures, EmbedFails(f) PROVE EInv'
  <2>1. f.kind \in LengthKinds => limit < MaxInputTokens
    <3>. SUFFICES ASSUME f.kind \in LengthKinds, ~(limit < MaxInputTokens) PROVE FALSE
      OBVIOUS
    <3>1. limit >= MaxInputTokens
      BY TextType, BudgetAssumption DEF EInv, ETypeOK
    <3>2. \A i \in DOMAIN plan : plan[i] # None
      BY <1>5 DEF EInv, AllDecided, EmbedFails
    <3>. QED
      BY <1>5, <3>1, <3>2, FittingIsNotTooLong DEF EInv, EmbedFails
  <2>. QED
    BY <1>5, <2>1, FailureKeepsInv DEF EmbedFails
<1>6. CASE Post
  BY <1>6 DEF Post, EInv, ETypeOK, Undecided, PlanBounded, AllDecided,
    OneVectorEach, WellSized, Honest, NoLengthRejection, RejectionsAreFinal
<1>7. ASSUME NEW n \in 0 .. MaxTexts, NEW d \in [1 .. n -> Items], Answered(d)
      PROVE  EInv'
  BY <1>7, AnsweredKeepsInv
<1>8. CASE UNCHANGED evars
  BY <1>8 DEF evars, EInv, ETypeOK, Undecided, PlanBounded, AllDecided,
    OneVectorEach, WellSized, Honest, NoLengthRejection, RejectionsAreFinal
<1>. QED
  BY <1>1, <1>2, <1>3, <1>4, <1>5, <1>6, <1>7, <1>8 DEF ENext

THEOREM EInvariant == ESpec => []EInv
<1>. QED
  BY EInitInv, ENextInv, PTL DEF ESpec

(* The variables of a call keep their types.                               *)
THEOREM EmbedTypeCorrect == ESpec => []ETypeOK
<1>1. EInv => ETypeOK
  BY DEF EInv
<1>. QED
  BY <1>1, EInvariant, PTL

(* "Batches preserve input order and produce exactly one vector per input":*)
(* for batches of any length, whatever order the server answers in.        *)
THEOREM VectorsAreInOrder == ESpec => []OneVectorEach
<1>1. EInv => OneVectorEach
  BY DEF EInv
<1>. QED
  BY <1>1, EInvariant, PTL

(* Every input that is posted is the text, or the text cut to the budget.  *)
THEOREM PostedInputsAreBounded == ESpec => []InputsAreBounded
<1>1. EInv => InputsAreBounded
  BY DEF EInv, PlanBounded, AllDecided, InputsAreBounded
<1>. QED
  BY <1>1, EInvariant, PTL

(* A server that admits the budget never rejects a batch for its length:   *)
(* not asking for the tokens of short texts is safe.                       *)
THEOREM BudgetIsRespected == ESpec => []NoLengthRejection
<1>1. EInv => NoLengthRejection
  BY DEF EInv
<1>. QED
  BY <1>1, EInvariant, PTL

(* Deterministic rejections bypass the breaker, all other failures count.  *)
THEOREM DeterministicRejectionsAreFinal == ESpec => []RejectionsAreFinal
<1>1. EInv => RejectionsAreFinal
  BY DEF EInv
<1>. QED
  BY <1>1, EInvariant, PTL


(***************************************************************************)
(* RemoteProviders.                                                        *)
(*                                                                         *)
(* That a key's models share a breaker rests on ages: while a load that    *)
(* was given a breaker runs, the key's entry holds that breaker and is at  *)
(* most LoadLimit older than the load, for another load may have written   *)
(* the entry with the time it read when it began; and while a load runs    *)
(* that began before the key's first model was handed out, the entry is at *)
(* most 2 * LoadLimit older than the load.  A load runs for LoadLimit, so  *)
(* with LoadsAreShort no sweep meets such an entry expired.                *)
(***************************************************************************)
Filled(k) == breakers[k] # Nobody

\* l has passed the step in which it is given a breaker.
Supplied(l) == \E i \in 1 .. step[l] - 1 : provider.load[i] = "breaker"

AtBreaker(l) == step[l] <= Len(provider.load) /\ provider.load[step[l]] = "breaker"

\* Where a load is agrees with its step and its key.
InOrder(l) ==
  /\ at[l] = "rest" => step[l] = 1
  /\ at[l] # "rest" => loading[l] \in RemoteKeys /\ step[l] <= Len(provider.load) + 1
  /\ at[l] \in {"clean", "sweep", "take"} => AtBreaker(l)
  /\ cb[l] # Nobody => at[l] # "rest" /\ Supplied(l)

\* The entry of a load that was given a breaker.
KeepsEntry(l) ==
  at[l] # "rest" /\ Supplied(l) =>
    /\ Filled(loading[l]) /\ breakers[loading[l]].id = cb[l]
    /\ breakers[loading[l]].age <= LoadLimit + elapsed[l]

\* The entry of a load that began before its key's first model was given.
FindsEntry(l) ==
  at[l] # "rest" /\ given[loading[l]] # {} =>
    /\ Filled(loading[l]) /\ given[loading[l]] = {breakers[loading[l]].id}
    /\ breakers[loading[l]].age <= 2 * LoadLimit + elapsed[l]

LoaderInv(l) == InOrder(l) /\ KeepsEntry(l) /\ FindsEntry(l)

GivenOne == \A k \in RemoteKeys : given[k] = {} \/ \E b \in BreakerIds : given[k] = {b}

PInv == PTypeOK /\ GivenOne /\ \A l \in Loaders : LoaderInv(l)

Entries == [id : BreakerIds, age : 0 .. Ttl + LoadLimit]

-----------------------------------------------------------------------------

(* Every provider asks for the breaker in one of its at most six steps. *)
LEMMA LoadSteps ==
  ASSUME NEW p \in RemoteProvider
  PROVE  /\ Len(p.load) \in 1 .. 6
         /\ \E i \in 1 .. Len(p.load) : p.load[i] = "breaker"
<1>1. CASE p = OpenAI
  <2>. /\ Len(p.load) = 3 /\ p.load[3] = "breaker"
    BY <1>1 DEF OpenAI
  <2>. QED OBVIOUS
<1>2. CASE p \in RemoteProvider \ {OpenAI}
  <2>1. p.load[1] = "breaker"
    BY <1>2 DEF RemoteProvider, AzureOpenAI, Mistral, VoyageAI, Anthropic, Cohere, Gemini, VertexAI
  <2>2. Len(p.load) \in 1 .. 6
    BY <1>2 DEF RemoteProvider, AzureOpenAI, Mistral, VoyageAI, Anthropic, Cohere, Gemini, VertexAI
  <2>. QED
    BY <2>1, <2>2
<1>. QED
  BY <1>1, <1>2

LEMMA LoaderTypes ==
  ASSUME PTypeOK, NEW l \in Loaders
  PROVE  /\ step[l] \in 1 .. 7 /\ Len(provider.load) \in 1 .. 6
         /\ elapsed[l] \in 0 .. LoadLimit /\ now[l] \in 0 .. LoadLimit
         /\ LoadLimit \in Nat /\ Ttl \in Nat /\ Interval \in Nat
<1>1. provider \in RemoteProvider
  BY DEF PTypeOK
<1>2. Len(provider.load) \in 1 .. 6
  BY <1>1, LoadSteps
<1>. QED
  BY <1>2, RemoteType DEF PTypeOK

(* An entry of the map is an entry, not Nobody. *)
LEMMA EntryType ==
  ASSUME PTypeOK, NEW k \in RemoteKeys, Filled(k)
  PROVE  /\ breakers[k] \in Entries
         /\ breakers[k].id \in BreakerIds
         /\ breakers[k].age \in 0 .. Ttl + LoadLimit
BY DEF PTypeOK, Filled, Entries

LEMMA EntryIsSomebody == ASSUME NEW e \in Entries PROVE e # Nobody
BY NobodyIsNoEntry, RemoteType DEF Entries

(* There is always a breaker that nobody has: a key accounts for the one   *)
(* in its entry and the one its models use.                                *)
LEMMA UnusedExists ==
  ASSUME PInv
  PROVE  NewBreaker \in Unused
<1>. DEFINE u == [k \in RemoteKeys |-> IF Filled(k) THEN breakers[k].id ELSE NewBreaker]
            v == [k \in RemoteKeys |-> IF given[k] # {} THEN CHOOSE b \in given[k] : TRUE ELSE NewBreaker]
<1>1. SUFFICES ASSUME Unused = {} PROVE FALSE
  BY DEF NewBreaker
<1>2. BreakerIds \subseteq Range(u) \cup Range(v)
  <2>. SUFFICES ASSUME NEW b \in BreakerIds PROVE b \in Range(u) \cup Range(v)
    OBVIOUS
  <2>1. CASE \E k \in RemoteKeys : b \in given[k]
    <3>1. PICK k \in RemoteKeys : b \in given[k]
      BY <2>1
    <3>2. v[k] = b
      BY <3>1 DEF PInv, GivenOne
    <3>. QED
      BY <3>2 DEF Range
  <2>2. CASE \E k \in RemoteKeys : Filled(k) /\ breakers[k].id = b
    BY <2>2 DEF Range
  <2>3. CASE \E l \in Loaders : cb[l] = b
    <3>1. PICK l \in Loaders : cb[l] = b
      BY <2>3
    <3>2. b # Nobody
      BY RemoteType
    <3>3. at[l] # "rest" /\ Supplied(l)
      BY <3>1, <3>2 DEF PInv, LoaderInv, InOrder
    <3>4. loading[l] \in RemoteKeys /\ Filled(loading[l]) /\ breakers[loading[l]].id = b
      BY <3>1, <3>3 DEF PInv, LoaderInv, InOrder, KeepsEntry
    <3>. QED
      BY <2>2, <3>4
  <2>. QED
    BY <1>1, <2>1, <2>2, <2>3 DEF Unused, Filled
<1>3. /\ IsFiniteSet(Range(u)) /\ Cardinality(Range(u)) <= Cardinality(RemoteKeys)
      /\ IsFiniteSet(Range(v)) /\ Cardinality(Range(v)) <= Cardinality(RemoteKeys)
  <2>1. u \in Surjection(RemoteKeys, Range(u)) /\ v \in Surjection(RemoteKeys, Range(v))
    BY DEF Surjection, Range
  <2>. QED
    BY <2>1, FS_Surjection, EnoughBreakers
<1>. HIDE DEF u, v
<1>4. /\ IsFiniteSet(Range(u) \cup Range(v))
      /\ Cardinality(Range(u) \cup Range(v)) <= 2 * Cardinality(RemoteKeys)
  <2>1. Cardinality(Range(u) \cap Range(v)) \in Nat
    BY <1>3, FS_Subset, FS_CardinalityType
  <2>2. /\ IsFiniteSet(Range(u) \cup Range(v))
        /\ Cardinality(Range(u) \cup Range(v))
             = Cardinality(Range(u)) + Cardinality(Range(v)) - Cardinality(Range(u) \cap Range(v))
    BY <1>3, FS_Union
  <2>3. Cardinality(Range(u)) \in Nat /\ Cardinality(Range(v)) \in Nat /\ Cardinality(RemoteKeys) \in Nat
    BY <1>3, FS_CardinalityType, EnoughBreakers
  <2>. QED
    BY <1>3, <2>1, <2>2, <2>3
<1>5. Cardinality(BreakerIds) <= Cardinality(Range(u) \cup Range(v))
  BY <1>2, <1>4, FS_Subset
<1>. QED
  BY <1>4, <1>5, FS_CardinalityType, EnoughBreakers

(* Nobody has begun to load, nothing is handed out. *)
LEMMA PInitInv == PInit => PInv
<1>. SUFFICES ASSUME PInit PROVE PInv
  OBVIOUS
<1>1. PTypeOK
  BY RemoteType DEF PInit, PTypeOK
<1>2. \A l \in Loaders : LoaderInv(l)
  BY DEF PInit, LoaderInv, InOrder, KeepsEntry, FindsEntry
<1>3. GivenOne
  BY DEF PInit, GivenOne
<1>. QED
  BY <1>1, <1>2, <1>3 DEF PInv

(* What a step leaves of the other loaders. *)
Others(l) ==
  \A m \in Loaders \ {l} :
    /\ at'[m] = at[m] /\ step'[m] = step[m] /\ loading'[m] = loading[m]
    /\ elapsed'[m] = elapsed[m] /\ now'[m] = now[m] /\ cb'[m] = cb[m]

LEMMA OthersStay ==
  ASSUME PTypeOK, NEW l \in Loaders,
         \/ \E k \in RemoteKeys : Load(l, k)
         \/ Passes(l) \/ Fails(l)
         \/ ReadClock(l) \/ MaybeCleanup(l) \/ Sweep(l) \/ Take(l)
         \/ Publish(l) \/ Drop(l)
  PROVE  Others(l) /\ provider' = provider
<1>1. CASE \E k \in RemoteKeys : Load(l, k)
  BY <1>1 DEF PTypeOK, Others, Load
<1>2. CASE Passes(l)
  BY <1>2 DEF PTypeOK, Others, Passes
<1>3. CASE Fails(l)
  BY <1>3 DEF PTypeOK, Others, Fails, Rest
<1>4. CASE ReadClock(l)
  BY <1>4 DEF PTypeOK, Others, ReadClock
<1>5. CASE MaybeCleanup(l)
  BY <1>5 DEF PTypeOK, Others, MaybeCleanup
<1>6. CASE Sweep(l)
  BY <1>6 DEF PTypeOK, Others, Sweep
<1>7. CASE Take(l)
  BY <1>7 DEF PTypeOK, Others, Take, Given
<1>8. CASE Publish(l)
  BY <1>8 DEF PTypeOK, Others, Publish, Rest
<1>9. CASE Drop(l)
  BY <1>9 DEF PTypeOK, Others, Drop, Rest
<1>. QED
  BY <1>1, <1>2, <1>3, <1>4, <1>5, <1>6, <1>7, <1>8, <1>9

(* Ages stay within their bounds. *)
LEMMA OlderType ==
  ASSUME NEW n \in Nat, NEW a \in 0 .. n
  PROVE  OlderUpTo(a, n) \in 0 .. n /\ OlderUpTo(a, n) <= a + 1
BY DEF OlderUpTo

LEMMA StepType ==
  ASSUME NEW n \in 1 .. 6, NEW s \in 1 .. 7, s <= n
  PROVE  s + 1 \in 1 .. 7
OBVIOUS

(* Every step keeps the types. *)
LEMMA PTypeStep ==
  ASSUME PInv, [PNext]_pvars
  PROVE  PTypeOK'
<1>. USE DEF PInv, LoaderInv
<1>. /\ Len(provider.load) \in 1 .. 6 /\ Ttl \in Nat /\ Interval \in Nat /\ LoadLimit \in Nat
     /\ Ttl + LoadLimit \in Nat /\ Interval + LoadLimit \in Nat
  BY LoadSteps, RemoteType DEF PTypeOK
<1>1. ASSUME NEW l \in Loaders, NEW k \in RemoteKeys, Load(l, k) PROVE PTypeOK'
  BY <1>1 DEF PTypeOK, Load
<1>2. ASSUME NEW l \in Loaders, Passes(l) PROVE PTypeOK'
  <2>1. step[l] + 1 \in 1 .. 7
    <3>1. step[l] <= Len(provider.load)
      BY <1>2 DEF Passes, Doing
    <3>2. step[l] \in 1 .. 7 /\ Len(provider.load) \in 1 .. 6
      BY LoaderTypes
    <3>. QED
      BY <3>1, <3>2, StepType
  <2>. QED
    BY <1>2, <2>1 DEF PTypeOK, Passes
<1>3. ASSUME NEW l \in Loaders, Rest(l), UNCHANGED <<provider, breakers, cleaned>>, given' \in [RemoteKeys -> SUBSET BreakerIds]
      PROVE  PTypeOK'
  BY <1>3 DEF PTypeOK, Rest
<1>4. ASSUME NEW l \in Loaders, ReadClock(l) PROVE PTypeOK'
  BY <1>4 DEF PTypeOK, ReadClock
<1>5. ASSUME NEW l \in Loaders, MaybeCleanup(l) PROVE PTypeOK'
  <2>1. now[l] \in 0 .. Interval + LoadLimit
    BY DEF PTypeOK
  <2>. QED
    BY <1>5, <2>1 DEF PTypeOK, MaybeCleanup
<1>6. ASSUME NEW l \in Loaders, Sweep(l) PROVE PTypeOK'
  BY <1>6 DEF PTypeOK, Sweep
<1>7. ASSUME NEW l \in Loaders, Take(l) PROVE PTypeOK'
  <2>1. loading[l] \in RemoteKeys /\ step[l] + 1 \in 1 .. 7 /\ now[l] \in 0 .. Ttl + LoadLimit
    <3>1. AtBreaker(l) /\ loading[l] \in RemoteKeys
      BY <1>7 DEF Take, InOrder
    <3>2. step[l] \in 1 .. 6 /\ now[l] \in 0 .. LoadLimit
      BY <3>1 DEF PTypeOK, AtBreaker
    <3>. QED
      BY <3>1, <3>2
  <2>2. PICK b \in BreakerIds :
          /\ breakers' = [breakers EXCEPT ![loading[l]] = [id |-> b, age |-> now[l]]] /\ Given(l, b)
    <3>1. NewBreaker \in BreakerIds
      BY UnusedExists DEF Unused
    <3>. QED
      BY <1>7, <2>1, <3>1, EntryType DEF Take, Filled
  <2>3. [id |-> b, age |-> now[l]] \in Entries
    BY <2>1 DEF Entries
  <2>4. breakers' \in [RemoteKeys -> Entries \cup {Nobody}]
    BY <2>1, <2>2, <2>3 DEF PTypeOK, Entries
  <2>. QED
    BY <2>1, <2>2, <2>4 DEF PTypeOK, Given, Entries
<1>8. ASSUME NEW l \in Loaders, Publish(l) PROVE PTypeOK'
  <2>1. Supplied(l) /\ loading[l] \in RemoteKeys
    <3>1. PICK i \in 1 .. Len(provider.load) : provider.load[i] = "breaker"
      BY LoadSteps DEF PTypeOK
    <3>2. step[l] \in 1 .. 7 /\ Len(provider.load) \in 1 .. 6
      BY LoaderTypes
    <3>3. step[l] > Len(provider.load)
      BY <1>8 DEF Publish
    <3>4. step[l] \in Nat /\ i \in 1 .. step[l] - 1
      BY <3>1, <3>2, <3>3
    <3>. QED
      BY <1>8, <3>1, <3>4 DEF Publish, Supplied, InOrder
  <2>2. cb[l] \in BreakerIds
    BY <1>8, <2>1, EntryType DEF Publish, KeepsEntry
  <2>. QED
    BY <1>3, <1>8, <2>1, <2>2 DEF Publish, PTypeOK
<1>9. ASSUME Tick PROVE PTypeOK'
  <2>1. elapsed' \in [Loaders -> 0 .. LoadLimit]
    BY <1>9 DEF Tick, PTypeOK, Active
  <2>2. now' \in [Loaders -> 0 .. LoadLimit]
    BY <1>9, OlderType DEF Tick, PTypeOK
  <2>3. cleaned' \in 0 .. Interval + LoadLimit
    BY <1>9, OlderType DEF Tick, PTypeOK
  <2>4. breakers' \in [RemoteKeys -> Entries \cup {Nobody}]
    <3>1. ASSUME NEW k \in RemoteKeys, Filled(k)
          PROVE  [breakers[k] EXCEPT !.age = OlderUpTo(@, Ttl + LoadLimit)] \in Entries
      BY <3>1, EntryType, OlderType DEF Entries
    <3>. QED
      BY <1>9, <3>1 DEF Tick, Filled
  <2>. QED
    BY <1>9, <2>1, <2>2, <2>3, <2>4 DEF Tick, PTypeOK, Entries
<1>10. ASSUME UNCHANGED pvars PROVE PTypeOK'
  BY <1>10 DEF PTypeOK, pvars, loader
<1>. QED
  BY <1>1, <1>2, <1>3, <1>4, <1>5, <1>6, <1>7, <1>8, <1>9, <1>10
     DEF PNext, Fails, Drop, PTypeOK

(* A step of l that leaves the map and what was given alone. *)
LEMMA QuietKeeps ==
  ASSUME PInv, PTypeOK', NEW l \in Loaders, Others(l), LoaderInv(l)',
         UNCHANGED <<provider, breakers, given>>
  PROVE  PInv'
<1>1. ASSUME NEW m \in Loaders \ {l} PROVE LoaderInv(m)'
  BY DEF PInv, LoaderInv, Others, InOrder, KeepsEntry, FindsEntry, Supplied, AtBreaker, Filled
<1>2. GivenOne'
  BY DEF PInv, GivenOne
<1>. QED
  BY <1>1, <1>2 DEF PInv

(* A loader that rests has nothing to keep. *)
LEMMA RestInv ==
  ASSUME PTypeOK, NEW l \in Loaders, Rest(l)
  PROVE  LoaderInv(l)'
BY DEF PTypeOK, Rest, LoaderInv, InOrder, KeepsEntry, FindsEntry

LEMMA LoadKeeps ==
  ASSUME PInv, PTypeOK', NEW l \in Loaders, NEW k \in RemoteKeys, Load(l, k)
  PROVE  PInv'
<1>1. /\ at'[l] = "load" /\ loading'[l] = k /\ step'[l] = 1 /\ given'[k] = {}
      /\ cb'[l] = Nobody
  BY DEF PInv, PTypeOK, Load, LoaderInv, InOrder
<1>2. ~Supplied(l)'
  BY <1>1 DEF Supplied
<1>3. Len(provider'.load) \in Nat
  BY LoadSteps DEF PTypeOK
<1>4. LoaderInv(l)'
  BY <1>1, <1>2, <1>3 DEF LoaderInv, InOrder, KeepsEntry, FindsEntry
<1>. QED
  BY <1>4, OthersStay, QuietKeeps DEF PInv, Load

LEMMA PassesKeeps ==
  ASSUME PInv, PTypeOK', NEW l \in Loaders, Passes(l)
  PROVE  PInv'
<1>1. /\ at[l] = "load" /\ at'[l] = "load" /\ step'[l] = step[l] + 1
      /\ step[l] <= Len(provider.load) /\ provider.load[step[l]] # "breaker"
  BY DEF PInv, PTypeOK, Passes, Doing
<1>2. /\ Len(provider.load) \in Nat /\ step[l] \in Nat
  BY LoaderTypes DEF PInv
<1>3. Supplied(l)' <=> Supplied(l)
  BY <1>1, <1>2 DEF Supplied, Passes
<1>4. /\ cb'[l] = cb[l] /\ loading'[l] = loading[l] /\ elapsed'[l] = elapsed[l]
      /\ UNCHANGED <<provider, breakers, given>>
  BY DEF Passes
<1>5. InOrder(l)'
  BY <1>1, <1>2, <1>3, <1>4 DEF PInv, LoaderInv, InOrder
<1>6. KeepsEntry(l)' /\ FindsEntry(l)'
  BY <1>1, <1>3, <1>4 DEF PInv, LoaderInv, KeepsEntry, FindsEntry, Filled
<1>. QED
  BY <1>4, <1>5, <1>6, OthersStay, QuietKeeps DEF PInv, LoaderInv

LEMMA ReadClockKeeps ==
  ASSUME PInv, PTypeOK', NEW l \in Loaders, ReadClock(l)
  PROVE  PInv'
<1>1. at[l] = "load" /\ at'[l] = "clean" /\ AtBreaker(l)'
  BY DEF PInv, PTypeOK, ReadClock, Doing, AtBreaker
<1>2. Supplied(l)' <=> Supplied(l)
  BY DEF ReadClock, Supplied
<1>3. LoaderInv(l)'
  BY <1>1, <1>2 DEF PInv, LoaderInv, InOrder, KeepsEntry, FindsEntry, ReadClock, Filled
<1>. QED
  BY <1>3, OthersStay, QuietKeeps DEF PInv, ReadClock

LEMMA MaybeCleanupKeeps ==
  ASSUME PInv, PTypeOK', NEW l \in Loaders, MaybeCleanup(l)
  PROVE  PInv'
<1>1. at[l] = "clean" /\ at'[l] \in {"sweep", "take"} /\ (AtBreaker(l)' <=> AtBreaker(l))
  BY DEF PInv, PTypeOK, MaybeCleanup, AtBreaker
<1>2. Supplied(l)' <=> Supplied(l)
  BY DEF MaybeCleanup, Supplied
<1>3. LoaderInv(l)'
  BY <1>1, <1>2 DEF PInv, LoaderInv, InOrder, KeepsEntry, FindsEntry, MaybeCleanup, Filled
<1>. QED
  BY <1>3, OthersStay, QuietKeeps DEF PInv, MaybeCleanup

(* A sweep drops no entry that a load relies on: it is at most three loads *)
(* old, and what `now` the sweep goes by makes it only younger.            *)
LEMMA SweepKeeps ==
  ASSUME PInv, PTypeOK', NEW l \in Loaders, Sweep(l)
  PROVE  PInv'
<1>1. ASSUME NEW k \in RemoteKeys, Filled(k), breakers[k].age <= 3 * LoadLimit
      PROVE  breakers'[k] = breakers[k]
  <2>1. /\ breakers[k].age \in Nat /\ now[l] \in Nat /\ LoadLimit \in Nat /\ Ttl \in Nat
    BY <1>1, EntryType, RemoteType DEF PInv, PTypeOK
  <2>2. Since(breakers[k].age, now[l]) < Ttl
    BY <1>1, <2>1, LoadsAreShort DEF Since
  <2>. QED
    BY <1>1, <2>2 DEF Sweep, Fresh, Filled
<1>2. ASSUME NEW m \in Loaders PROVE LoaderInv(m)'
  <2>1. /\ step'[m] = step[m] /\ cb'[m] = cb[m] /\ loading'[m] = loading[m] /\ elapsed'[m] = elapsed[m]
        /\ given' = given /\ provider' = provider
    BY DEF Sweep
  <2>2. /\ (at'[m] # "rest") <=> (at[m] # "rest")
        /\ at'[m] \in {"clean", "sweep", "take"} => at[m] \in {"clean", "sweep", "take"}
    BY DEF Sweep, PInv, PTypeOK
  <2>3. (Supplied(m)' <=> Supplied(m)) /\ (AtBreaker(m)' <=> AtBreaker(m))
    BY <2>1 DEF Supplied, AtBreaker
  <2>4. InOrder(m)'
    BY <2>1, <2>2, <2>3 DEF PInv, LoaderInv, InOrder
  <2>5. elapsed[m] \in 0 .. LoadLimit /\ LoadLimit \in Nat
    BY RemoteType DEF PInv, PTypeOK
  <2>6. KeepsEntry(m)'
    <3>. SUFFICES ASSUME at'[m] # "rest", Supplied(m)'
                  PROVE  KeepsEntry(m)'
      BY DEF KeepsEntry
    <3>1. /\ Filled(loading[m]) /\ breakers[loading[m]].id = cb[m]
          /\ breakers[loading[m]].age <= LoadLimit + elapsed[m] /\ loading[m] \in RemoteKeys
      BY <2>2, <2>3 DEF PInv, LoaderInv, KeepsEntry, InOrder
    <3>2. breakers[loading[m]].age \in Nat
      BY <3>1, EntryType DEF PInv
    <3>3. breakers'[loading[m]] = breakers[loading[m]]
      BY <1>1, <2>5, <3>1, <3>2
    <3>. QED
      BY <2>1, <3>1, <3>3 DEF KeepsEntry, Filled
  <2>7. FindsEntry(m)'
    <3>. SUFFICES ASSUME at'[m] # "rest", given[loading[m]] # {}
                  PROVE  FindsEntry(m)'
      BY <2>1 DEF FindsEntry
    <3>1. /\ Filled(loading[m]) /\ given[loading[m]] = {breakers[loading[m]].id}
          /\ breakers[loading[m]].age <= 2 * LoadLimit + elapsed[m] /\ loading[m] \in RemoteKeys
      BY <2>2 DEF PInv, LoaderInv, FindsEntry, InOrder
    <3>2. breakers[loading[m]].age \in Nat
      BY <3>1, EntryType DEF PInv
    <3>3. breakers'[loading[m]] = breakers[loading[m]]
      BY <1>1, <2>5, <3>1, <3>2
    <3>. QED
      BY <2>1, <3>1, <3>3 DEF FindsEntry, Filled
  <2>. QED
    BY <2>4, <2>6, <2>7 DEF LoaderInv
<1>3. GivenOne'
  BY DEF PInv, GivenOne, Sweep
<1>. QED
  BY <1>2, <1>3 DEF PInv

(* A load is given the breaker of its key's entry; when there is none, no  *)
(* other load has one, and no model of the key is in use.                  *)
LEMMA TakeKeeps ==
  ASSUME PInv, PTypeOK', NEW l \in Loaders, Take(l)
  PROVE  PInv'
<1>. DEFINE k == loading[l]
            b == IF breakers[k] # Nobody THEN breakers[k].id ELSE NewBreaker
<1>1. AtBreaker(l) /\ k \in RemoteKeys /\ at[l] = "take"
  BY DEF PInv, LoaderInv, InOrder, Take
<1>2. /\ breakers' = [breakers EXCEPT ![k] = [id |-> b, age |-> now[l]]]
      /\ Given(l, b)
  BY DEF Take
<1>3. /\ breakers'[k].id = b /\ breakers'[k].age = now[l] /\ Filled(k)'
      /\ \A j \in RemoteKeys \ {k} : breakers'[j] = breakers[j]
  <2>1. breakers'[k] = [id |-> b, age |-> now[l]]
    BY <1>1, <1>2 DEF PInv, PTypeOK
  <2>2. b \in BreakerIds
    BY <1>1, UnusedExists, EntryType DEF PInv, Unused, Filled
  <2>3. now[l] \in 0 .. Ttl + LoadLimit
    BY LoaderTypes DEF PInv
  <2>4. breakers'[k] \in Entries
    BY <2>1, <2>2, <2>3 DEF Entries
  <2>5. breakers'[k] # Nobody
    BY <2>4, EntryIsSomebody, Zenon
  <2>6. \A j \in RemoteKeys \ {k} : breakers'[j] = breakers[j]
    BY <1>2 DEF PInv, PTypeOK
  <2>7. breakers'[k].id = b /\ breakers'[k].age = now[l]
    BY <2>1
  <2>8. Filled(k)'
    BY <1>2, <2>5 DEF Filled, Given
  <2>. QED
    BY <2>6, <2>7, <2>8
<1>4. /\ at'[l] = "load" /\ cb'[l] = b /\ step'[l] = step[l] + 1 /\ loading' = loading
      /\ elapsed' = elapsed /\ provider' = provider /\ given' = given
  BY <1>2 DEF PInv, PTypeOK, Given
<1>5. now[l] <= LoadLimit /\ LoadLimit \in Nat /\ now[l] \in Nat
  BY LoaderTypes DEF PInv
<1>6. Filled(k) => b = breakers[k].id
  BY DEF Filled
<1>. HIDE DEF b
<1>7. LoaderInv(l)'
  <2>1. step[l] \in Nat /\ Len(provider.load) \in Nat /\ elapsed[l] \in Nat
    BY LoaderTypes DEF PInv
  <2>2. Supplied(l)'
    <3>1. step[l] \in 1 .. step'[l] - 1
      BY <1>4, <2>1, LoaderTypes DEF PInv
    <3>. QED
      BY <1>1, <1>4, <3>1 DEF Supplied, AtBreaker
  <2>3. InOrder(l)'
    BY <1>1, <1>4, <2>1, <2>2 DEF InOrder, AtBreaker
  <2>4. KeepsEntry(l)'
    BY <1>3, <1>4, <1>5, <2>1 DEF KeepsEntry
  <2>5. given[k] # {} => Filled(k) /\ given[k] = {breakers[k].id}
    BY <1>1 DEF PInv, LoaderInv, FindsEntry
  <2>6. FindsEntry(l)'
    BY <1>3, <1>4, <1>5, <1>6, <2>1, <2>5 DEF FindsEntry
  <2>. QED
    BY <2>3, <2>4, <2>6 DEF LoaderInv
<1>8. ASSUME NEW m \in Loaders \ {l} PROVE LoaderInv(m)'
  <2>. DEFINE j == loading[m]
  <2>1. Others(l)
    BY OthersStay DEF PInv
  <2>2. (Supplied(m)' <=> Supplied(m)) /\ (AtBreaker(m)' <=> AtBreaker(m))
    BY <1>4, <2>1 DEF Others, Supplied, AtBreaker
  <2>3. InOrder(m)'
    BY <1>4, <2>1, <2>2 DEF PInv, LoaderInv, InOrder, Others
  <2>4. elapsed[m] \in Nat
    BY LoaderTypes DEF PInv
  <2>5. at[m] # "rest" => j \in RemoteKeys
    BY DEF PInv, LoaderInv, InOrder
  <2>6. KeepsEntry(m)'
    <3>1. at[m] # "rest" /\ Supplied(m) =>
            Filled(j) /\ breakers[j].id = cb[m] /\ breakers[j].age <= LoadLimit + elapsed[m]
      BY DEF PInv, LoaderInv, KeepsEntry
    <3>2. CASE j = k
      BY <1>3, <1>4, <1>5, <1>6, <2>1, <2>2, <2>4, <3>1, <3>2 DEF KeepsEntry, Others
    <3>3. CASE j # k
      BY <1>3, <1>4, <2>1, <2>2, <2>5, <3>1, <3>3 DEF KeepsEntry, Others, Filled
    <3>. QED
      BY <3>2, <3>3
  <2>7. FindsEntry(m)'
    <3>1. at[m] # "rest" /\ given[j] # {} =>
            /\ Filled(j) /\ given[j] = {breakers[j].id}
            /\ breakers[j].age <= 2 * LoadLimit + elapsed[m]
      BY DEF PInv, LoaderInv, FindsEntry
    <3>2. CASE j = k
      BY <1>3, <1>4, <1>5, <1>6, <2>1, <2>4, <3>1, <3>2 DEF FindsEntry, Others
    <3>3. CASE j # k
      BY <1>3, <1>4, <2>1, <2>5, <3>1, <3>3 DEF FindsEntry, Others, Filled
    <3>. QED
      BY <3>2, <3>3
  <2>. QED
    BY <2>3, <2>6, <2>7 DEF LoaderInv
<1>9. GivenOne'
  BY <1>4 DEF PInv, GivenOne
<1>. QED
  BY <1>7, <1>8, <1>9 DEF PInv

(* The model that is handed out uses the breaker of its key's entry, which *)
(* the loads that still run will find, and which an earlier model has.     *)
LEMMA PublishKeeps ==
  ASSUME PInv, PTypeOK', NEW l \in Loaders, Publish(l)
  PROVE  PInv'
<1>. DEFINE k == loading[l]
<1>1. k \in RemoteKeys /\ at[l] = "load"
  BY DEF PInv, LoaderInv, InOrder, Publish
<1>2. Supplied(l)
  <2>1. PICK i \in 1 .. Len(provider.load) : provider.load[i] = "breaker"
    BY LoadSteps DEF PInv, PTypeOK
  <2>2. step[l] \in Nat /\ i \in 1 .. step[l] - 1
    BY <2>1, LoaderTypes DEF PInv, Publish
  <2>. QED
    BY <2>1, <2>2 DEF Supplied
<1>3. /\ Filled(k) /\ breakers[k].id = cb[l] /\ breakers[k].age <= LoadLimit + elapsed[l]
      /\ given[k] # {} => given[k] = {breakers[k].id}
  BY <1>1, <1>2 DEF PInv, LoaderInv, KeepsEntry, FindsEntry
<1>4. /\ given'[k] = {breakers[k].id}
      /\ \A j \in RemoteKeys \ {k} : given'[j] = given[j]
      /\ breakers' = breakers /\ provider' = provider
  BY <1>1, <1>3 DEF PInv, PTypeOK, Publish
<1>5. breakers[k].age <= 2 * LoadLimit /\ breakers[k].id \in BreakerIds /\ breakers[k].age \in Nat
  BY <1>1, <1>3, EntryType, LoaderTypes DEF PInv
<1>6. ASSUME NEW m \in Loaders \ {l} PROVE LoaderInv(m)'
  <2>. DEFINE j == loading[m]
  <2>1. Others(l)
    BY OthersStay DEF PInv
  <2>2. InOrder(m)' /\ KeepsEntry(m)'
    BY <1>4, <2>1 DEF PInv, LoaderInv, InOrder, KeepsEntry, Others, Supplied, AtBreaker, Filled
  <2>3. elapsed[m] \in Nat /\ LoadLimit \in Nat
    BY LoaderTypes DEF PInv
  <2>4. at[m] # "rest" => j \in RemoteKeys
    BY DEF PInv, LoaderInv, InOrder
  <2>5. CASE j = k
    BY <1>3, <1>4, <1>5, <2>1, <2>2, <2>3, <2>5 DEF LoaderInv, FindsEntry, Others, Filled
  <2>6. CASE j # k
    BY <1>4, <2>1, <2>2, <2>4, <2>6 DEF PInv, LoaderInv, FindsEntry, Others, Filled
  <2>. QED
    BY <2>5, <2>6
<1>7. LoaderInv(l)'
  BY RestInv DEF PInv, Publish
<1>8. GivenOne'
  BY <1>4, <1>5 DEF PInv, GivenOne
<1>. QED
  BY <1>6, <1>7, <1>8 DEF PInv

(* Time passes for the entry as it does for the loads that rely on it. *)
LEMMA TickKeeps ==
  ASSUME PInv, PTypeOK', Tick
  PROVE  PInv'
<1>1. /\ at' = at /\ step' = step /\ loading' = loading /\ cb' = cb
      /\ provider' = provider /\ given' = given
  BY DEF Tick
<1>2. ASSUME NEW k \in RemoteKeys, Filled(k)
      PROVE  /\ Filled(k)' /\ breakers'[k].id = breakers[k].id
             /\ breakers'[k].age \in Nat /\ breakers'[k].age <= breakers[k].age + 1
  <2>1. breakers[k] \in Entries /\ breakers[k].age \in 0 .. Ttl + LoadLimit
    BY <1>2, EntryType DEF PInv
  <2>2. breakers'[k] = [breakers[k] EXCEPT !.age = OlderUpTo(@, Ttl + LoadLimit)]
    BY <1>2 DEF Tick, Filled
  <2>3. /\ OlderUpTo(breakers[k].age, Ttl + LoadLimit) \in 0 .. Ttl + LoadLimit
        /\ OlderUpTo(breakers[k].age, Ttl + LoadLimit) <= breakers[k].age + 1
    <3>1. Ttl + LoadLimit \in Nat
      BY RemoteType
    <3>. QED
      BY <2>1, <3>1, OlderType
  <2>4. /\ breakers'[k] \in Entries /\ breakers'[k].id = breakers[k].id
        /\ breakers'[k].age = OlderUpTo(breakers[k].age, Ttl + LoadLimit)
    BY <2>1, <2>2, <2>3 DEF Entries
  <2>. QED
    BY <2>3, <2>4, EntryIsSomebody DEF Filled
<1>3. ASSUME NEW m \in Loaders PROVE LoaderInv(m)'
  <2>1. InOrder(m)'
    BY <1>1 DEF PInv, LoaderInv, InOrder, Supplied, AtBreaker
  <2>2. CASE at[m] = "rest"
    BY <1>1, <2>1, <2>2 DEF LoaderInv, KeepsEntry, FindsEntry
  <2>3. CASE at[m] # "rest"
    <3>1. elapsed'[m] = elapsed[m] + 1 /\ loading[m] \in RemoteKeys
      BY <2>3 DEF PInv, LoaderInv, InOrder, Tick, Active
    <3>2. elapsed[m] \in Nat /\ LoadLimit \in Nat
      BY LoaderTypes DEF PInv
    <3>3. Filled(loading[m]) => breakers[loading[m]].age \in Nat
      BY <3>1, EntryType DEF PInv
    <3>4. KeepsEntry(m)'
      BY <1>1, <1>2, <3>1, <3>2, <3>3 DEF PInv, LoaderInv, KeepsEntry, Supplied
    <3>5. FindsEntry(m)'
      <4>. DEFINE k == loading[m]
      <4>. SUFFICES ASSUME given[k] # {}
                    PROVE  /\ Filled(k)' /\ given[k] = {breakers'[k].id}
                           /\ breakers'[k].age <= 2 * LoadLimit + elapsed'[m]
        BY <1>1 DEF FindsEntry
      <4>1. /\ Filled(k) /\ given[k] = {breakers[k].id}
            /\ breakers[k].age <= 2 * LoadLimit + elapsed[m]
        BY <2>3 DEF PInv, LoaderInv, FindsEntry
      <4>2. /\ Filled(k)' /\ breakers'[k].id = breakers[k].id
            /\ breakers'[k].age \in Nat /\ breakers'[k].age <= breakers[k].age + 1
        BY <1>1, <1>2, <3>1, <4>1
      <4>3. breakers'[k].age <= 2 * LoadLimit + elapsed'[m]
        BY <3>1, <3>2, <3>3, <4>1, <4>2
      <4>. QED
        BY <4>1, <4>2, <4>3
    <3>. QED
      BY <2>1, <3>4, <3>5 DEF LoaderInv
  <2>. QED
    BY <2>2, <2>3
<1>4. GivenOne'
  BY <1>1 DEF PInv, GivenOne
<1>. QED
  BY <1>3, <1>4 DEF PInv

(* Every step keeps the invariant. *)
LEMMA PNextKeeps == PInv /\ [PNext]_pvars => PInv'
<1>. SUFFICES ASSUME PInv, [PNext]_pvars PROVE PInv'
  OBVIOUS
<1>1. PTypeOK'
  BY PTypeStep
<1>2. ASSUME NEW l \in Loaders, Fails(l) \/ Drop(l) PROVE PInv'
  <2>1. Rest(l) /\ UNCHANGED <<provider, breakers, given>>
    BY <1>2 DEF Fails, Drop
  <2>2. Others(l)
    BY <1>2, OthersStay DEF PInv
  <2>. QED
    BY <1>1, <2>1, <2>2, RestInv, QuietKeeps DEF PInv
<1>3. CASE Tick
  BY <1>1, <1>3, TickKeeps
<1>4. CASE UNCHANGED pvars
  BY <1>1, <1>4 DEF pvars, loader, PInv, GivenOne, LoaderInv, InOrder, KeepsEntry, FindsEntry,
                    Supplied, AtBreaker, Filled
<1>. QED
  BY <1>1, <1>2, <1>3, <1>4, LoadKeeps, PassesKeeps, ReadClockKeeps, MaybeCleanupKeeps, SweepKeeps,
     TakeKeeps, PublishKeeps DEF PNext

(* The variables of the remote provider base have their types, whatever    *)
(* loads overlap; a breaker's identity is never missing.                   *)
THEOREM RemoteTypeCorrect == PSpec => []PTypeOK
<1>1. PInv => PTypeOK
  BY DEF PInv
<1>. QED
  BY <1>1, PInitInv, PNextKeeps, PTL DEF PSpec

(* "One circuit breaker per remote model runtime key": all the models that *)
(* were handed out for a key call through one breaker, for any number of   *)
(* loaders and keys and whatever the sweep's interval, if the lifetime of  *)
(* an idle entry is longer than three loads (RemoteProviderBase,           *)
(* circuit_breaker_for and maybe_cleanup).                                 *)
THEOREM BreakersAreShared == PSpec => []OneBreakerPerKey
<1>1. PInv => OneBreakerPerKey
  <2>. SUFFICES ASSUME PInv, NEW k \in RemoteKeys PROVE Cardinality(given[k]) <= 1
    BY DEF OneBreakerPerKey
  <2>1. CASE given[k] = {}
    BY <2>1, FS_EmptySet
  <2>2. CASE \E b \in BreakerIds : given[k] = {b}
    <3>1. PICK b \in BreakerIds : given[k] = {b}
      BY <2>2
    <3>2. Cardinality({b}) = 1
      BY FS_Singleton
    <3>. QED
      BY <3>1, <3>2
  <2>. QED
    BY <2>1, <2>2 DEF PInv, GivenOne
<1>. QED
  BY <1>1, PInitInv, PNextKeeps, PTL DEF PSpec


(***************************************************************************)
(* RemoteRequests.                                                         *)
(***************************************************************************)
(* The messages of some roles are messages of the prompt, of these roles.  *)
LEMMA InRolesType ==
  ASSUME NEW p \in Seq(Message), NEW roles
  PROVE  /\ InRoles(p, roles) \in Seq(DOMAIN p)
         /\ \A i \in DOMAIN InRoles(p, roles) :
              InRoles(p, roles)[i] \in DOMAIN p /\ p[InRoles(p, roles)[i]].role \in roles
<1>. DEFINE idx == [m \in DOMAIN p |-> m]
            K == {m \in DOMAIN p : p[m].role \in roles}
<1>1. idx \in Seq(DOMAIN p)
  OBVIOUS
<1>. HIDE DEF idx
<1>2. InRoles(p, roles) \in Seq(DOMAIN p \cap K)
  BY <1>1, FilterType DEF InRoles, idx
<1>3. \A i \in DOMAIN InRoles(p, roles) : InRoles(p, roles)[i] \in DOMAIN p \cap K
  BY <1>2
<1>4. InRoles(p, roles) \in Seq(DOMAIN p)
  <2>. HIDE DEF K
  <2>. QED
    BY <1>2, SeqMonotonic
<1>. QED
  BY <1>3, <1>4

(* Messages that go out one for one: what is sent for some roles is what   *)
(* is sent for each message of these roles, one after the other.           *)
LEMMA SentInPlace ==
  ASSUME NEW p \in Seq(Message), NEW blocks, NEW roles
  PROVE  SentBlocks([m \in DOMAIN p |-> Sent(p[m].role, blocks[m])], roles)
           = FlattenSeq([i \in DOMAIN InRoles(p, roles) |-> blocks[InRoles(p, roles)[i]]])
<1>. DEFINE At == 1 .. Len(p)
            idx == [m \in At |-> m]
            out == [m \in At |-> Sent(p[m].role, blocks[m])]
            S == {m \in Range(out) : m.role \in roles}
            K == {a \in At : out[a] \in S}
            ms == InRoles(p, roles)
<1>1. DOMAIN p = At /\ Len(p) \in Nat
  OBVIOUS
<1>2. idx \in Seq(At) /\ DOMAIN idx = At
  BY <1>1
<1>3. \A a \in At : out[a].role = p[a].role /\ out[a].blocks = blocks[a] /\ out[a] \in Range(out)
  BY DEF Sent, Range
<1>4. K = {a \in At : p[a].role \in roles}
  BY <1>3
<1>5. Mapped(out, idx) = out
  BY <1>2 DEF Mapped
<1>. HIDE DEF S
<1>6. Filter(out, S) = Mapped(out, Filter(idx, K))
  <2>. HIDE DEF At, idx, out
  <2>1. Filter(Mapped(out, idx), S) = Mapped(out, Filter(idx, {a \in At : out[a] \in S}))
    BY <1>2, FilterMapped
  <2>. QED
    BY <1>5, <2>1
<1>7. Filter(idx, K) = ms
  BY <1>1, <1>4 DEF InRoles
<1>8. ms \in Seq(At)
  <2>. HIDE DEF At, idx, ms, K
  <2>1. Filter(idx, K) \in Seq(At \cap K)
    BY <1>2, FilterType
  <2>. QED
    BY <1>7, <2>1, SeqMonotonic
<1>9. Filter(out, S) = [i \in DOMAIN ms |-> out[ms[i]]]
  <2>. HIDE DEF ms, out, idx, K
  <2>. QED
    BY <1>6, <1>7 DEF Mapped
<1>10. [i \in DOMAIN Filter(out, S) |-> Filter(out, S)[i].blocks] = [i \in DOMAIN ms |-> blocks[ms[i]]]
  <2>1. \A i \in DOMAIN ms : ms[i] \in At
    BY <1>8
  <2>. HIDE DEF ms, out, At
  <2>. QED
    BY <1>3, <1>9, <2>1
<1>11. SentBlocks(out, roles) = FlattenSeq([i \in DOMAIN Filter(out, S) |-> Filter(out, S)[i].blocks])
  BY DEF SentBlocks, S
<1>12. SentBlocks(out, roles) = FlattenSeq([i \in DOMAIN ms |-> blocks[ms[i]]])
  <2>. HIDE DEF ms, out
  <2>. QED
    BY <1>10, <1>11
<1>. QED
  BY <1>1, <1>12
(* A message without images has only blocks of text.                       *)
LEMMA PlainIsAllText ==
  ASSUME NEW p \in Seq(Message), NEW m \in DOMAIN p, ~Pictured(p, m)
  PROVE  MessageText(p, m) = BlocksOf(p, m, {"text", "image"})
<1>1. \A b \in DOMAIN p[m].blocks : p[m].blocks[b] = "text"
  BY DEF Pictured
<1>2. {c \in DOMAIN p[m].blocks : p[m].blocks[c] \in {"text"}}
        = {c \in DOMAIN p[m].blocks : p[m].blocks[c] \in {"text", "image"}}
  BY <1>1
<1>. QED
  BY <1>2 DEF MessageText, BlocksOf

(* OpenAI takes images where the message has some.                         *)
LEMMA OpenAIIsWhole ==
  ASSUME NEW p \in Seq(Message), NEW roles
  PROVE  SentBlocks(OpenAIMessages(p), roles) = AllBlocks(p, roles, {"text", "image"})
<1>. DEFINE blocks == [m \in DOMAIN p |-> BlocksOf(p, m, {"text", "image"})]
            ms == InRoles(p, roles)
<1>1. OpenAIMessages(p) = [m \in DOMAIN p |-> Sent(p[m].role, blocks[m])]
  BY PlainIsAllText DEF OpenAIMessages
<1>2. \A i \in DOMAIN ms : ms[i] \in DOMAIN p
  BY InRolesType
<1>3. [i \in DOMAIN ms |-> blocks[ms[i]]] = [i \in DOMAIN ms |-> BlocksOf(p, ms[i], {"text", "image"})]
  BY <1>2
<1>. HIDE DEF blocks
<1>4. SentBlocks(OpenAIMessages(p), roles) = FlattenSeq([i \in DOMAIN ms |-> blocks[ms[i]]])
  BY <1>1, SentInPlace
<1>. QED
  BY <1>3, <1>4 DEF AllBlocks

(* Mistral and Cohere take every message, with its text.                   *)
LEMMA PlainIsWhole ==
  ASSUME NEW p \in Seq(Message), NEW roles
  PROVE  SentBlocks(PlainMessages(p), roles) = AllBlocks(p, roles, {"text"})
<1>. DEFINE blocks == [m \in DOMAIN p |-> BlocksOf(p, m, {"text"})]
            ms == InRoles(p, roles)
<1>1. PlainMessages(p) = [m \in DOMAIN p |-> Sent(p[m].role, blocks[m])]
  BY DEF PlainMessages, MessageText
<1>2. \A i \in DOMAIN ms : ms[i] \in DOMAIN p
  BY InRolesType
<1>3. [i \in DOMAIN ms |-> blocks[ms[i]]] = [i \in DOMAIN ms |-> BlocksOf(p, ms[i], {"text"})]
  BY <1>2
<1>. HIDE DEF blocks
<1>4. SentBlocks(PlainMessages(p), roles) = FlattenSeq([i \in DOMAIN ms |-> blocks[ms[i]]])
  BY <1>1, SentInPlace
<1>. QED
  BY <1>3, <1>4 DEF AllBlocks

(* What is first of one kind and then of another is split into the two.    *)
LEMMA FilterSplits ==
  ASSUME NEW S, NEW R, S \cap R = {}, NEW s \in Seq(S), NEW t \in Seq(R)
  PROVE  Filter(s \o t, S) = s /\ Filter(s \o t, R) = t
<1>1. s \in Seq(S \cup R) /\ t \in Seq(S \cup R)
  BY SeqMonotonic
<1>2. Filter(s \o t, S) = Filter(s, S) \o Filter(t, S)
  BY <1>1, FilterConcat
<1>3. Filter(s \o t, R) = Filter(s, R) \o Filter(t, R)
  BY <1>1, FilterConcat
<1>4. Filter(s, S) = s /\ Filter(t, R) = t
  BY FilterAll
<1>5. Filter(t, S) = <<>> /\ Filter(s, R) = <<>>
  BY FilterNone
<1>. QED
  BY <1>2, <1>3, <1>4, <1>5, ConcatEmptySeq

(* Anthropic and Google take the system's text apart, as one message, and  *)
(* the turns in their order.                                               *)
LEMMA ApartIsWhole ==
  ASSUME NEW p \in Seq(Message), NEW roles \in {{"system"}, {"user", "assistant"}}
  PROVE  SentBlocks(System(p) \o Turns(p), roles) = AllBlocks(p, roles, {"text"})
<1>. DEFINE sys == System(p)
            turns == Turns(p)
            out == sys \o turns
            S == {m \in Range(out) : m.role \in {"system"}}
            R == {m \in Range(out) : m.role \in {"user", "assistant"}}
            said == InRoles(p, {"system"})
            ms == InRoles(p, {"user", "assistant"})
            prose == [i \in DOMAIN said |-> BlocksOf(p, said[i], {"text"})]
<1>1. /\ \A i \in DOMAIN ms : ms[i] \in DOMAIN p /\ p[ms[i]].role \in {"user", "assistant"}
      /\ ms \in Seq(DOMAIN p) /\ said \in Seq(DOMAIN p)
  BY InRolesType
<1>2. sys = IF said = <<>> THEN <<>> ELSE <<Sent("system", FlattenSeq(prose))>>
  BY DEF System, MessageText
<1>3. turns = [i \in DOMAIN ms |-> Sent(p[ms[i]].role, BlocksOf(p, ms[i], {"text"}))]
  BY DEF Turns, MessageText
<1>4. /\ \A i \in DOMAIN sys : sys[i].role = "system"
      /\ Len(sys) \in Nat /\ sys \in Seq(Range(sys))
  <2>. DEFINE message == Sent("system", FlattenSeq(prose))
  <2>1. message.role = "system"
    BY DEF Sent
  <2>. HIDE DEF prose, said, message
  <2>2. sys = <<>> \/ sys = <<message>>
    BY <1>2 DEF message
  <2>. HIDE DEF sys
  <2>3. CASE sys = <<>>
    BY <2>3 DEF Range
  <2>4. CASE sys = <<message>>
    <3>1. Len(sys) = 1 /\ DOMAIN sys = {1} /\ sys[1] = message
      BY <2>4
    <3>2. Range(sys) = {message}
      BY <3>1 DEF Range
    <3>3. sys \in Seq({message})
      BY <2>4
    <3>. QED
      BY <2>1, <3>1, <3>2, <3>3
  <2>. QED
    BY <2>2, <2>3, <2>4
<1>5. /\ \A i \in DOMAIN turns : turns[i].role \in {"user", "assistant"}
      /\ Len(turns) \in Nat /\ turns \in Seq(Range(turns))
  <2>. HIDE DEF ms
  <2>. QED
    BY <1>1, <1>3 DEF Sent, Range
<1>. HIDE DEF sys, turns, said, ms, prose
<1>6. Range(out) = Range(sys) \cup Range(turns)
  <2>1. sys \in Seq(Range(sys) \cup Range(turns)) /\ turns \in Seq(Range(sys) \cup Range(turns))
    BY <1>4, <1>5, SeqMonotonic
  <2>. QED
    BY <2>1, RangeConcatenation
<1>7. sys \in Seq(S) /\ turns \in Seq(R) /\ S \cap R = {}
  <2>1. Range(sys) \subseteq S /\ Range(turns) \subseteq R
    BY <1>4, <1>5, <1>6 DEF Range
  <2>. HIDE DEF S, R
  <2>2. sys \in Seq(S) /\ turns \in Seq(R)
    BY <1>4, <1>5, <2>1, SeqMonotonic
  <2>. QED
    BY <2>2 DEF S, R
<1>8. Filter(out, S) = sys /\ Filter(out, R) = turns
  <2>. HIDE DEF S, R
  <2>. QED
    BY <1>7, FilterSplits
<1>9. CASE roles = {"system"}
  <2>1. SentBlocks(out, roles) = FlattenSeq([i \in DOMAIN sys |-> sys[i].blocks])
    BY <1>8, <1>9 DEF SentBlocks
  <2>2. AllBlocks(p, roles, {"text"}) = FlattenSeq(prose)
    BY <1>9 DEF AllBlocks, prose, said
  <2>3. CASE said = <<>>
    <3>1. [i \in DOMAIN sys |-> sys[i].blocks] = <<>> /\ prose = <<>>
      BY <1>2, <2>3 DEF prose
    <3>. QED
      BY <2>1, <2>2, <3>1 DEF sys, turns
  <2>4. CASE said # <<>>
    <3>1. [i \in DOMAIN sys |-> sys[i].blocks] = <<FlattenSeq(prose)>>
      BY <1>2, <2>4 DEF Sent
    <3>. QED
      BY <2>1, <2>2, <3>1, FlattenOne DEF sys, turns
  <2>. QED
    BY <2>3, <2>4 DEF sys, turns
<1>10. CASE roles = {"user", "assistant"}
  <2>1. SentBlocks(out, roles) = FlattenSeq([i \in DOMAIN turns |-> turns[i].blocks])
    BY <1>8, <1>10 DEF SentBlocks
  <2>2. [i \in DOMAIN turns |-> turns[i].blocks] = [i \in DOMAIN ms |-> BlocksOf(p, ms[i], {"text"})]
    BY <1>3 DEF Sent
  <2>3. AllBlocks(p, roles, {"text"}) = FlattenSeq([i \in DOMAIN ms |-> BlocksOf(p, ms[i], {"text"})])
    BY <1>10 DEF AllBlocks, ms
  <2>. QED
    BY <2>1, <2>2, <2>3 DEF sys, turns
<1>. QED
  BY <1>9, <1>10

(* Whatever the API, all the caller's text goes out, and the images where  *)
(* the API is sent them.                                                   *)
LEMMA ChatIsWhole ==
  ASSUME NEW p \in Prompts, NEW api \in Chatting, NEW roles \in {{"system"}, {"user", "assistant"}}
  PROVE  SentBlocks(ChatPayload(api, p), roles) =
           AllBlocks(p, roles, IF api \in TakesImages THEN {"text", "image"} ELSE {"text"})
<1>0. p \in Seq(Message)
  BY PromptType
<1>1. CASE api \in {"openai", "azure-openai"}
  BY <1>0, <1>1, OpenAIIsWhole DEF ChatPayload, TakesImages
<1>2. CASE api \in {"mistral", "cohere"}
  <2>1. ChatPayload(api, p) = PlainMessages(p) /\ api \notin TakesImages
    BY <1>2 DEF ChatPayload, CohereMessages, TakesImages
  <2>. QED
    BY <1>0, <2>1, PlainIsWhole
<1>3. CASE api \in {"anthropic", "gemini", "vertexai"}
  <2>1. ChatPayload(api, p) = System(p) \o Turns(p) /\ api \notin TakesImages
    BY <1>3 DEF ChatPayload, AnthropicPayload, GooglePayload, TakesImages
  <2>. QED
    BY <1>0, <2>1, ApartIsWhole
<1>. QED
  BY <1>1, <1>2, <1>3 DEF Chatting

(* Answers that lack no vector are passed on as they are, the others are   *)
(* refused or lose the items without one.                                  *)
LEMMA VectorsArePassedOn ==
  ASSUME NEW body \in Bodies \ {Absent}
  PROVE  /\ 0 \notin Range(body) => WithVectors(body) = body
         /\ GeminiEmbed(body) # Absent => 0 \notin Range(body) /\ GeminiEmbed(body) = body
<1>1. PICK n \in 0 .. MaxBatch : body \in [1 .. n -> 0 .. Hollow]
  BY DEF Bodies
<1>2. 0 \notin Range(body) => WithVectors(body) = body
  <2>. SUFFICES ASSUME 0 \notin Range(body) PROVE WithVectors(body) = body
    OBVIOUS
  <2>. DEFINE S == {x \in Range(body) : Found(x)}
  <2>1. body \in [1 .. n -> S] /\ n \in Nat
    BY <1>1, BatchType DEF Range, Found, Hollow
  <2>. HIDE DEF S
  <2>2. body \in Seq(S)
    BY <2>1
  <2>. QED
    BY <2>2, FilterAll DEF WithVectors, S
<1>3. GeminiEmbed(body) # Absent => 0 \notin Range(body) /\ GeminiEmbed(body) = body
  BY <1>1 DEF GeminiEmbed, Found, Range
<1>. QED
  BY <1>2, <1>3

Chatted ==
  \E api \in Chatting, p \in Prompts :
    method = <<api, "generate">> /\ input = p /\ payload = ChatPayload(api, p)
EmbedsTexts ==
  \E api \in Embedding, n \in 0 .. MaxBatch :
    method = <<api, "embed">> /\ input = [i \in 1 .. n |-> i]
EmbedsInputs ==
  \E api \in {"cohere", "gemini"}, n \in 1 .. MaxBatch :
    method = <<api, "embed inputs">> /\ input \in [1 .. n -> Documents]
Reranks == method[2] = "rerank"

\* What is known of a request under way, and of one that succeeded.
Asked == Chatted \/ EmbedsTexts \/ EmbedsInputs \/ Reranks
Replied == reply \in Bodies /\ output = Decoded(method, reply) /\ output # Absent

QInv ==
  /\ stage \in {"idle", "posted", "done"}
  /\ stage # "idle" => Asked
  /\ stage = "done" /\ failure = Absent => Replied

LEMMA MethodOf ==
  /\ Chatted => method[2] = "generate"
  /\ EmbedsTexts => method[2] = "embed"
  /\ EmbedsInputs => method[2] = "embed inputs"
  /\ Reranks => method[2] = "rerank"
<1>1. Chatted => method[2] = "generate"
  BY DEF Chatted
<1>2. EmbedsTexts => method[2] = "embed"
  BY DEF EmbedsTexts
<1>3. EmbedsInputs => method[2] = "embed inputs"
  <2>. SUFFICES ASSUME EmbedsInputs PROVE method[2] = "embed inputs"
    OBVIOUS
  <2>1. PICK api \in {"cohere", "gemini"} : method = <<api, "embed inputs">>
    BY DEF EmbedsInputs
  <2>. QED
    BY <2>1
<1>. QED
  BY <1>1, <1>2, <1>3 DEF Reranks

(* A function on 1 .. n is a sequence.                                     *)
LEMMA FunctionsAreSequences ==
  ASSUME NEW S, NEW n \in Nat, NEW f \in [1 .. n -> S]
  PROVE  f \in Seq(S) /\ Len(f) = n /\ DOMAIN f = 1 .. Len(f)
OBVIOUS

(* What an embedding method makes of an honest answer.                     *)
LEMMA EmbeddingsAreAligned ==
  ASSUME EmbedsTexts \/ EmbedsInputs, Replied, HonestAnswer
  PROVE  \/ \A i \in DOMAIN input : i \in DOMAIN output /\ output[i] = i
         \/ method[1] \notin {"gemini", "vertexai"} /\ 0 \in Range(reply)
<1>1. \E n \in Nat : DOMAIN input = 1 .. n /\ Len(input) = n
  <2>1. CASE EmbedsTexts
    BY <2>1, BatchType DEF EmbedsTexts
  <2>2. CASE EmbedsInputs
    <3>1. PICK n \in 1 .. MaxBatch : input \in [1 .. n -> Documents]
      BY <2>2 DEF EmbedsInputs
    <3>2. n \in Nat
      BY BatchType
    <3>3. input \in Seq(Documents) /\ Len(input) = n
      BY <3>1, <3>2
    <3>. QED
      BY <3>1, <3>2, <3>3
  <2>. QED
    BY <2>1, <2>2
<1>2. reply \in Bodies \ {Absent} /\ Len(reply) = Len(input) /\ \A i \in DOMAIN reply : reply[i] \in {0, i}
  BY DEF Replied, HonestAnswer
<1>3. DOMAIN reply = DOMAIN input
  <2>1. PICK n \in 0 .. MaxBatch : reply \in [1 .. n -> 0 .. Hollow]
    BY <1>2 DEF Bodies
  <2>2. n \in Nat
    BY BatchType
  <2>3. DOMAIN reply = 1 .. Len(reply)
    BY <2>1, <2>2, FunctionsAreSequences
  <2>. QED
    BY <1>1, <1>2, <2>3
<1>4. output = IF method[1] \in {"gemini", "vertexai"} THEN GeminiEmbed(reply) ELSE WithVectors(reply)
  <2>1. CASE EmbedsTexts
    BY <1>2, <2>1 DEF EmbedsTexts, Embedding, Replied, Decoded, OpenAIEmbed, AzureEmbed, MistralEmbed, VoyageEmbed,
       CohereEmbed, VertexEmbed
  <2>2. CASE EmbedsInputs
    <3>1. output = Decoded(method, reply) /\ reply # Absent
      BY <1>2 DEF Replied
    <3>2. CASE method = <<"cohere", "embed inputs">>
      BY <3>1, <3>2 DEF Decoded, CohereEmbed, CohereEmbedInputs
    <3>3. CASE method = <<"gemini", "embed inputs">>
      BY <3>1, <3>3 DEF Decoded, GeminiEmbedInputs
    <3>. QED
      BY <2>2, <3>2, <3>3 DEF EmbedsInputs
  <2>. QED
    BY <2>1, <2>2
<1>5. CASE 0 \in Range(reply)
  <2>1. method[1] \notin {"gemini", "vertexai"}
    BY <1>2, <1>4, <1>5, VectorsArePassedOn DEF Replied
  <2>. QED
    BY <1>5, <2>1
<1>6. CASE 0 \notin Range(reply)
  <2>1. output = reply
    BY <1>2, <1>4, <1>6, VectorsArePassedOn DEF Replied
  <2>2. \A i \in DOMAIN reply : reply[i] # 0
    BY <1>6 DEF Range
  <2>. QED
    BY <1>2, <1>3, <2>1, <2>2
<1>. QED
  BY <1>5, <1>6

(* No request has been made. *)
LEMMA QInitInv == QInit => QInv
BY DEF QInit, QInv

(* Every step keeps the invariant. *)
LEMMA QNextKeeps ==
  ASSUME QInv, [QNext]_qvars
  PROVE  QInv'
<1>1. ASSUME NEW api \in Chatting, NEW p \in Prompts, Generate(api, p) PROVE QInv'
  <2>1. Chatted'
    BY <1>1 DEF Generate, Called, Chatted
  <2>. QED
    BY <1>1, <2>1 DEF Generate, Called, QInv, Asked
<1>2. ASSUME NEW api \in Embedding, NEW n \in 0 .. MaxBatch, EmbedTexts(api, n) PROVE QInv'
  <2>1. EmbedsTexts'
    BY <1>2 DEF EmbedTexts, Called, EmbedsTexts
  <2>. QED
    BY <1>2, <2>1 DEF EmbedTexts, Called, QInv, Asked
<1>3. ASSUME NEW api \in {"cohere", "voyageai"}, NEW n \in 1 .. MaxBatch, Rerank(api, n) PROVE QInv'
  BY <1>3 DEF Rerank, Called, QInv, Asked, Reranks
<1>4. ASSUME NEW api \in {"cohere", "gemini"}, NEW n \in 1 .. MaxBatch, NEW ds \in [1 .. n -> Documents],
             EmbedInputs(api, ds)
      PROVE QInv'
  <2>1. EmbedsInputs'
    BY <1>4 DEF EmbedInputs, Called, EmbedsInputs
  <2>2. stage' = "posted" \/ (stage' = "done" /\ failure' = "ApiError")
    BY <1>4 DEF EmbedInputs, Called, Return
  <2>. QED
    BY <2>1, <2>2, AbsentIsNoError DEF QInv, Asked
<1>5. ASSUME NEW status, Rejected(status) PROVE QInv'
  <2>1. stage' = "done" /\ failure' # Absent /\ UNCHANGED <<method, input, payload>>
    BY <1>5, AbsentIsNoError DEF Rejected, Return, HttpError
  <2>. QED
    BY <1>5, <2>1 DEF Rejected, QInv, Asked, Chatted, EmbedsTexts, EmbedsInputs, Reranks
<1>6. ASSUME NEW body \in Bodies, Served(body) PROVE QInv'
  <2>1. stage' = "done" /\ UNCHANGED <<method, input, payload>> /\ reply' = body
    BY <1>6 DEF Served, Return
  <2>2. failure' = Absent => output' = Decoded(method, body) /\ output' # Absent
    BY <1>6, AbsentIsNoError DEF Served, Return
  <2>3. Asked'
    BY <1>6, <2>1 DEF Served, QInv, Asked, Chatted, EmbedsTexts, EmbedsInputs, Reranks
  <2>4. failure' = Absent => Replied'
    BY <2>1, <2>2 DEF Replied, Decoded
  <2>. QED
    BY <2>1, <2>3, <2>4 DEF QInv
<1>7. CASE UNCHANGED qvars
  BY <1>7 DEF qvars, QInv, Asked, Chatted, EmbedsTexts, EmbedsInputs, Reranks, Replied
<1>. QED
  BY <1>1, <1>2, <1>3, <1>4, <1>5, <1>6, <1>7 DEF QNext

(* All text reaches every API once and in order, and OpenAI's and Azure's  *)
(* all images: for conversations of any length and messages of any number  *)
(* of blocks.  What the other APIs are sent of images is nothing.          *)
THEOREM PromptsAreWhole == QSpec => []PromptIsWhole
<1>1. QInv => PromptIsWhole
  <2>. SUFFICES ASSUME QInv, stage = "posted", method[2] = "generate",
                       NEW roles \in {{"system"}, {"user", "assistant"}}
                PROVE  SentBlocks(payload, roles) =
                         AllBlocks(input, roles, IF method[1] \in TakesImages
                                                 THEN {"text", "image"} ELSE {"text"})
    BY DEF PromptIsWhole
  <2>1. Chatted
    BY MethodOf DEF QInv, Asked
  <2>. QED
    BY <2>1, ChatIsWhole DEF Chatted
<1>. QED
  BY <1>1, QInitInv, QNextKeeps, PTL DEF QSpec

(* No vector is ever taken for another text's, for batches of any size and *)
(* answers in which any item lacks its vector.                             *)
THEOREM VectorsAreTheirTexts == QSpec => []VectorsStayAligned
<1>1. QInv => VectorsStayAligned
  <2>. SUFFICES ASSUME QInv, Embedded, HonestAnswer
                PROVE  \/ \A i \in DOMAIN input : i \in DOMAIN output /\ output[i] = i
                       \/ method[1] \notin {"gemini", "vertexai"} /\ 0 \in Range(reply)
    BY DEF VectorsStayAligned
  <2>1. EmbedsTexts \/ EmbedsInputs
    BY MethodOf DEF QInv, Asked, Embedded
  <2>2. Replied
    BY DEF QInv, Embedded
  <2>. QED
    BY <2>1, <2>2, EmbeddingsAreAligned
<1>. QED
  BY <1>1, QInitInv, QNextKeeps, PTL DEF QSpec
===============================================================================
