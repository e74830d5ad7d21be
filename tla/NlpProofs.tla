------------------------------ MODULE NlpProofs ------------------------------
(***************************************************************************)
(* Theorems of an NLP release: of its runs over any windows, requests and  *)
(* decoded scores (NlpAnalysis), of the subwords of any words (NlpAlign),  *)
(* of the entities of any mentions and chains (NlpEntities) and of the     *)
(* tags of any scores (NlpTags).                                           *)
(***************************************************************************)
EXTENDS NlpAnalysis, NlpTags, SequenceProofs, FiniteSetTheorems

(***************************************************************************)
(* NlpAnalysis: the outputs of the first graph.  From the moment that it   *)
(* ran, what is held is what the tasks asked for, as far as the release    *)
(* declares it; each later stage is entered only for tasks that ask for    *)
(* what it reads.                                                          *)
(***************************************************************************)
Held == plain = PlainOutputs(Tasks) \cap release

ReadInv ==
  /\ stage \in {"coref", "linguistic", "entities"} => Held
  /\ stage = "coref" => WantCoref(Tasks)
  /\ stage = "entities" => "ENTITIES" \in Tasks
  /\ failure = "output" => stage = "failed"
  /\ ReadsWereRequested

EntityOutputs == {"ent", "span_words"}

(* What the linguistic stage reads was asked for. *)
LEMMA LinguisticReadsAreAsked == LinguisticReads \subseteq PlainOutputs(Tasks)
<1>. SUFFICES ASSUME NEW o \in LinguisticReads PROVE o \in PlainOutputs(Tasks)
  OBVIOUS
<1>1. PICK t \in Tasks \cap Linguistic : o \in ReadFor(t)
  BY DEF LinguisticReads
<1>2. t \in {"POS", "NER", "DEP", "SRL", "CLS", "MORPH", "LEMMA", "SENTIMENT"}
  BY DEF Linguistic
<1>3. o \in OutputsFor(t)
  BY <1>1, <1>2 DEF ReadFor, OutputsFor
<1>. QED
  BY <1>1, <1>3 DEF PlainOutputs

(* So was what coreference and entities read. *)
LEMMA StageReadsAreAsked ==
  /\ WantCoref(Tasks) => CorefOutputs \subseteq PlainOutputs(Tasks)
  /\ "ENTITIES" \in Tasks => EntityOutputs \subseteq PlainOutputs(Tasks)
<1>1. ASSUME "ENTITIES" \in Tasks PROVE EntityOutputs \subseteq PlainOutputs(Tasks)
  <2>1. OutputsFor("ENTITIES") = {"ent", "span_words"}
    BY DEF OutputsFor
  <2>. QED
    BY <1>1, <2>1 DEF PlainOutputs, EntityOutputs
<1>2. ASSUME WantCoref(Tasks) PROVE CorefOutputs \subseteq PlainOutputs(Tasks)
  <2>. DEFINE own == UNION {OutputsFor(t) : t \in Tasks}
  <2>1. PlainOutputs(Tasks) = own \cup (IF WantCoref(Tasks) THEN CorefOutputs ELSE {})
    BY DEF PlainOutputs
  <2>. HIDE DEF own
  <2>. QED
    BY <1>2, <2>1
<1>. QED
  BY <1>1, <1>2

(* A stage that misses an output of those asked for finds it undeclared. *)
LEMMA MissedIsUndeclared ==
  ASSUME Held, NEW reads, reads \subseteq PlainOutputs(Tasks), Missing(reads)
  PROVE  \E o \in reads : o \notin release
<1>1. PICK o \in reads : o \notin plain
  BY Zenon DEF Missing
<1>2. o \in PlainOutputs(Tasks)
  BY <1>1, Zenon
<1>3. o \notin PlainOutputs(Tasks) \cap release
  BY <1>1, Zenon DEF Held
<1>. QED
  BY <1>1, <1>2, <1>3, Zenon

(* Nothing is held and nothing failed. *)
LEMMA ReadInitInv ==
  ASSUME AInit
  PROVE  ReadInv
<1>1. stage = "load" /\ failure = "none"
  BY Zenon DEF AInit
<1>2. ReadsWereRequested
  BY <1>1 DEF ReadsWereRequested
<1>. QED
  BY <1>1, <1>2 DEF ReadInv

(* Every step of the analysis keeps it.                                    *)
LEMMA ReadNextInv == ReadInv /\ [ANext]_avars => ReadInv'
<1>. SUFFICES ASSUME ReadInv, [ANext]_avars PROVE ReadInv'
  OBVIOUS
<1>. DEFINE Late == CorefOutputs \cup EntityOutputs \cup LinguisticReads
<1>0. ASSUME UNCHANGED <<request, release>>
      PROVE  /\ (\E o \in Late : o \notin release) => ReadsWereRequested'
             /\ Tasks' = Tasks /\ LinguisticReads' = LinguisticReads
  BY <1>0 DEF ReadsWereRequested, Tasks, LinguisticReads, CorefOutputs, EntityOutputs
<1>1. CASE AcceptRelease
  BY <1>1 DEF AcceptRelease, Fail, ReadInv, ReadsWereRequested
<1>2. ASSUME NEW r \in Requests, NEW w \in Windows, Ask(r, w) PROVE ReadInv'
  BY <1>2 DEF Ask, ReadInv, ReadsWereRequested
<1>3. CASE RunPlain
  <2>1. Tasks' = Tasks
    BY <1>3 DEF RunPlain, Tasks
  <2>2. failure' # "output"
    BY <1>3 DEF RunPlain, Fail, ReadInv
  <2>3. CASE stage' = "failed"
    BY <2>2, <2>3 DEF ReadInv, ReadsWereRequested
  <2>4. CASE stage' # "failed"
    <3>1. /\ plain' = PlainOutputs(Tasks) \cap release /\ UNCHANGED <<release, request>>
          /\ stage' = IF WantCoref(Tasks) THEN "coref" ELSE "linguistic"
      BY <1>3, <2>4 DEF RunPlain, Fail
    <3>2. Held'
      BY <2>1, <3>1 DEF Held, PlainOutputs, WantCoref
    <3>3. stage' = "coref" => WantCoref(Tasks)'
      BY <2>1, <3>1 DEF WantCoref
    <3>. QED
      BY <2>2, <3>1, <3>2, <3>3 DEF ReadInv, ReadsWereRequested
  <2>. QED
    BY <2>3, <2>4
<1>4. CASE Coref
  <2>1. Held /\ CorefOutputs \subseteq PlainOutputs(Tasks)
    BY <1>4, StageReadsAreAsked DEF Coref, ReadInv
  <2>2. UNCHANGED <<request, release, plain>>
    BY <1>4 DEF Coref
  <2>3. stage' \in {"failed", "linguistic"}
    BY <1>4 DEF Coref, Fail
  <2>4. failure' = "output" => stage' = "failed" /\ \E o \in CorefOutputs : o \notin release
    <3>1. CASE Missing({"coref_scores", "coref_cand"})
      <4>1. \E o \in {"coref_scores", "coref_cand"} : o \notin release
        BY <2>1, <3>1, MissedIsUndeclared DEF CorefOutputs
      <4>. QED
        BY <1>4, <3>1, <4>1 DEF Coref, Fail, CorefOutputs
    <3>2. CASE Missing({"coref_words"})
      <4>1. \E o \in {"coref_words"} : o \notin release
        BY <2>1, <3>2, MissedIsUndeclared DEF CorefOutputs
      <4>. QED
        BY <1>4, <4>1 DEF Coref, Fail, CorefOutputs, ReadInv
    <3>3. CASE ~Missing({"coref_scores", "coref_cand"}) /\ ~Missing({"coref_words"})
      BY <1>4, <3>3 DEF Coref, Fail, ReadInv
    <3>. QED
      BY <3>1, <3>2, <3>3
  <2>5. Held'
    BY <1>0, <2>1, <2>2 DEF Held, PlainOutputs, WantCoref
  <2>6. ReadsWereRequested'
    BY <1>0, <2>2, <2>4 DEF ReadsWereRequested
  <2>. QED
    BY <2>3, <2>4, <2>5, <2>6 DEF ReadInv
<1>5. CASE Analyse
  <2>1. Held /\ LinguisticReads \subseteq PlainOutputs(Tasks)
    BY <1>5, LinguisticReadsAreAsked DEF Analyse, ReadInv
  <2>2. UNCHANGED <<request, release, plain>>
    BY <1>5 DEF Analyse
  <2>3. /\ stage' \in {"failed", "entities", "done"}
        /\ stage' = "entities" => "ENTITIES" \in Tasks
    BY <1>5 DEF Analyse, Fail
  <2>4. failure' = "output" => stage' = "failed" /\ \E o \in LinguisticReads : o \notin release
    <3>1. CASE Missing(LinguisticReads)
      <4>1. \E o \in LinguisticReads : o \notin release
        BY <2>1, <3>1, MissedIsUndeclared
      <4>. QED
        BY <1>5, <3>1, <4>1 DEF Analyse, Fail, ReadInv
    <3>2. CASE ~Missing(LinguisticReads)
      <4>1. ~Missing(LinguisticReads \ {"srl_words"})
        BY <3>2 DEF Missing
      <4>. QED
        BY <1>5, <3>2, <4>1 DEF Analyse, Fail, ReadInv
    <3>. QED
      BY <3>1, <3>2
  <2>5. Held'
    BY <1>0, <2>1, <2>2 DEF Held, PlainOutputs, WantCoref
  <2>6. ReadsWereRequested'
    BY <1>0, <2>2, <2>4 DEF ReadsWereRequested
  <2>. QED
    BY <1>0, <2>2, <2>3, <2>4, <2>5, <2>6 DEF ReadInv
<1>6. CASE Group
  <2>1. Held /\ EntityOutputs \subseteq PlainOutputs(Tasks)
    BY <1>6, StageReadsAreAsked DEF Group, ReadInv
  <2>2. UNCHANGED <<request, release, plain>>
    BY <1>6 DEF Group
  <2>. DEFINE read == IF ~request.types THEN {"ent"} ELSE IF Analysed = {} THEN {} ELSE {"span_words"}
  <2>3. stage' \in {"failed", "markers"}
    BY <1>6 DEF Group, Fail
  <2>4. failure' = "output" => stage' = "failed" /\ \E o \in EntityOutputs : o \notin release
    <3>1. CASE Missing(read)
      <4>1. \E o \in read : o \notin release
        BY <2>1, <3>1, MissedIsUndeclared DEF EntityOutputs
      <4>2. \E o \in EntityOutputs : o \notin release
        BY <4>1 DEF EntityOutputs
      <4>. QED
        BY <1>6, <3>1, <4>2 DEF Group, Fail, ReadInv
    <3>2. CASE ~Missing(read)
      <4>1. failure' = "invocation" \/ failure' = failure
        BY <1>6, <3>2 DEF Group, Fail
      <4>. QED
        BY <1>6, <4>1 DEF ReadInv, Group
    <3>. QED
      BY <3>1, <3>2
  <2>5. ReadsWereRequested'
    BY <1>0, <2>2, <2>4 DEF ReadsWereRequested
  <2>. QED
    BY <2>3, <2>4, <2>5 DEF ReadInv
<1>7. CASE Mark
  BY <1>0, <1>7 DEF Mark, Fail, ReadInv, ReadsWereRequested
<1>8. CASE Relate
  BY <1>0, <1>8 DEF Relate, Fail, ReadInv, ReadsWereRequested
<1>9. CASE UNCHANGED avars
  <2>1. UNCHANGED <<request, release, plain, stage, failure>>
    BY <1>9 DEF avars
  <2>. QED
    BY <1>0, <2>1 DEF ReadInv, Held, ReadsWereRequested, PlainOutputs, WantCoref
<1>. QED
  BY <1>1, <1>2, <1>3, <1>4, <1>5, <1>6, <1>7, <1>8, <1>9 DEF ANext

(* A stage never misses an output that the release declares: whatever      *)
(* combination of tasks is asked of whatever release, what a stage reads   *)
(* was asked of the first graph (pipeline.rs, plain_outputs).              *)
THEOREM ReadsAreRequested == ASpec => []ReadsWereRequested
<1>. SUFFICES ASpec => []ReadInv
  BY PTL DEF ReadInv
<1>. QED
  BY ReadInitInv, ReadNextInv, PTL DEF ASpec

(***************************************************************************)
(* NlpAlign.  Where the subwords of the first n words start.               *)
(***************************************************************************)
IsStarts(f, pieces, n) ==
  f = [w \in 1 .. n + 1 |-> IF w = 1 THEN 1 ELSE f[w - 1] + pieces[w - 1]]

(* The recursion of SubwordStarts has a solution. *)
LEMMA StartsExist ==
  ASSUME NEW pieces, NEW n \in Nat
  PROVE  \E f : IsStarts(f, pieces, n)
<1>. DEFINE T == {k \in Nat : \E f : IsStarts(f, pieces, k)}
<1>1. 0 \in T
  <2>1. IsStarts([w \in 1 .. 1 |-> 1], pieces, 0)
    BY DEF IsStarts
  <2>. QED
    BY <2>1
<1>2. ASSUME NEW k \in Nat, k \in T PROVE k + 1 \in T
  <2>1. PICK f : IsStarts(f, pieces, k)
    BY <1>2
  <2>. DEFINE g == [w \in 1 .. (k + 1) + 1 |-> IF w <= k + 1 THEN f[w] ELSE f[w - 1] + pieces[w - 1]]
  <2>2. \A w \in 1 .. k + 1 : f[w] = IF w = 1 THEN 1 ELSE f[w - 1] + pieces[w - 1]
    BY <2>1 DEF IsStarts
  <2>3. \A w \in 1 .. k + 1 : g[w] = f[w]
    OBVIOUS
  <2>4. \A w \in 1 .. (k + 1) + 1 : g[w] = IF w = 1 THEN 1 ELSE g[w - 1] + pieces[w - 1]
    <3>. TAKE w \in 1 .. (k + 1) + 1
    <3>1. CASE w = 1
      BY <2>2, <2>3, <3>1
    <3>2. CASE w # 1
      <4>1. w - 1 \in 1 .. k + 1
        BY <3>2
      <4>2. g[w - 1] = f[w - 1]
        BY <2>3, <4>1
      <4>. QED
        BY <2>2, <3>2, <4>2
    <3>. QED
      BY <3>1, <3>2
  <2>5. IsStarts(g, pieces, k + 1)
    <3>1. g = [w \in 1 .. (k + 1) + 1 |-> g[w]]
      OBVIOUS
    <3>. HIDE DEF g
    <3>. QED
      BY <2>4, <3>1 DEF IsStarts
  <2>. QED
    BY <2>5
<1>. HIDE DEF T
<1>3. n \in T
  BY <1>1, <1>2, NatInductive
<1>. QED
  BY <1>3 DEF T

\* starts are the places where words of these sizes begin.
AreStarts(starts, pieces) ==
  /\ starts \in [1 .. Len(pieces) + 1 -> Nat]
  /\ starts[1] = 1
  /\ \A w \in 1 .. Len(pieces) : starts[w + 1] = starts[w] + pieces[w]

(* SubwordStarts gives each word's first subword.                          *)
LEMMA StartsOfWords ==
  ASSUME NEW pieces \in Seq(Nat)
  PROVE  AreStarts(SubwordStarts(pieces), pieces)
<1>. DEFINE n == Len(pieces)
            f == CHOOSE h : IsStarts(h, pieces, n)
<1>0. n \in Nat /\ \A w \in 1 .. n : pieces[w] \in Nat
  OBVIOUS
<1>1. IsStarts(f, pieces, n)
  BY <1>0, StartsExist
<1>2. SubwordStarts(pieces) = f
  BY DEF SubwordStarts, IsStarts
<1>. HIDE DEF f, n
<1>3. \A w \in 1 .. n + 1 : f[w] = IF w = 1 THEN 1 ELSE f[w - 1] + pieces[w - 1]
  BY <1>1 DEF IsStarts
<1>4. DOMAIN f = 1 .. n + 1 /\ f = [w \in 1 .. n + 1 |-> f[w]]
  BY <1>1 DEF IsStarts
<1>5. f[1] = 1
  BY <1>0, <1>3
<1>6. \A w \in 1 .. n : f[w + 1] = f[w] + pieces[w]
  <2>. TAKE w \in 1 .. n
  <2>1. w + 1 \in 1 .. n + 1 /\ w + 1 # 1 /\ (w + 1) - 1 = w
    BY <1>0
  <2>. QED
    BY <1>3, <2>1
<1>7. \A k \in Nat : k <= n => f[k + 1] \in Nat
  <2>. DEFINE T == {k \in Nat : k <= n => f[k + 1] \in Nat}
  <2>1. 0 \in T
    BY <1>5
  <2>2. ASSUME NEW k \in Nat, k \in T PROVE k + 1 \in T
    <3>. SUFFICES ASSUME k + 1 <= n PROVE f[(k + 1) + 1] \in Nat
      OBVIOUS
    <3>1. k + 1 \in 1 .. n /\ f[k + 1] \in Nat
      BY <1>0, <2>2
    <3>2. f[(k + 1) + 1] = f[k + 1] + pieces[k + 1] /\ pieces[k + 1] \in Nat
      BY <1>0, <1>6, <3>1
    <3>. QED
      BY <3>1, <3>2
  <2>3. \A k \in Nat : k \in T
    <3>. HIDE DEF T
    <3>. QED
      BY <2>1, <2>2, NatInductive
  <2>. QED
    BY <2>3
<1>8. \A w \in 1 .. n + 1 : f[w] \in Nat
  <2>. TAKE w \in 1 .. n + 1
  <2>1. w - 1 \in Nat /\ w - 1 <= n /\ (w - 1) + 1 = w
    BY <1>0
  <2>. QED
    BY <1>7, <2>1
<1>9. f \in [1 .. n + 1 -> Nat]
  BY <1>4, <1>8
<1>. QED
  BY <1>2, <1>5, <1>6, <1>9 DEF AreStarts, n

(* What AreStarts says of each word.                                       *)
LEMMA StartsTyped ==
  ASSUME NEW pieces \in Seq(Nat), NEW starts, AreStarts(starts, pieces)
  PROVE  /\ Len(pieces) \in Nat /\ \A i \in 1 .. Len(pieces) : pieces[i] \in Nat
         /\ \A i \in 1 .. Len(pieces) + 1 : starts[i] \in Nat
         /\ \A i \in 1 .. Len(pieces) : starts[i + 1] = starts[i] + pieces[i]
<1>1. Len(pieces) \in Nat /\ \A i \in 1 .. Len(pieces) : pieces[i] \in Nat
  OBVIOUS
<1>2. \A i \in 1 .. Len(pieces) + 1 : starts[i] \in Nat
  BY DEF AreStarts
<1>3. \A i \in 1 .. Len(pieces) : starts[i + 1] = starts[i] + pieces[i]
  BY DEF AreStarts
<1>. QED
  BY <1>1, <1>2, <1>3

(* The subwords of a word come before those of the words after it. *)
LEMMA StartsGrow ==
  ASSUME NEW pieces \in Seq(Nat), NEW starts, AreStarts(starts, pieces),
         NEW w \in 1 .. Len(pieces), NEW v \in 1 .. Len(pieces) + 1, w < v
  PROVE  starts[w] + pieces[w] <= starts[v]
<1>. DEFINE n == Len(pieces)
            T == {k \in Nat : w + 1 + k <= n + 1 => starts[w] + pieces[w] <= starts[w + 1 + k]}
<1>0. /\ n \in Nat /\ \A i \in 1 .. n : pieces[i] \in Nat
      /\ \A i \in 1 .. n + 1 : starts[i] \in Nat
      /\ \A i \in 1 .. n : starts[i + 1] = starts[i] + pieces[i]
  BY StartsTyped
<1>. HIDE DEF n
<1>00. w \in 1 .. n /\ v \in 1 .. n + 1
  BY DEF n
<1>1. 0 \in T
  <2>1. starts[w + 1] = starts[w] + pieces[w] /\ starts[w] + pieces[w] \in Nat /\ w + 1 + 0 = w + 1
    BY <1>0, <1>00
  <2>. QED
    BY <2>1
<1>2. ASSUME NEW k \in Nat, k \in T PROVE k + 1 \in T
  <2>. SUFFICES ASSUME w + 1 + (k + 1) <= n + 1
                PROVE  starts[w] + pieces[w] <= starts[w + 1 + (k + 1)]
    OBVIOUS
  <2>. DEFINE i == w + 1 + k
  <2>1. i \in 1 .. n /\ w + 1 + (k + 1) = i + 1
    BY <1>0, <1>00
  <2>2. starts[w] + pieces[w] <= starts[i]
    BY <1>2, <1>0, <1>00, <2>1
  <2>. HIDE DEF i
  <2>3. starts[i + 1] = starts[i] + pieces[i] /\ pieces[i] \in Nat /\ starts[i] \in Nat
    BY <1>0, <2>1
  <2>4. starts[w] \in Nat /\ pieces[w] \in Nat
    <3>1. w \in 1 .. n + 1
      BY <1>0, <1>00
    <3>. QED
      BY <1>0, <1>00, <3>1
  <2>5. starts[w] + pieces[w] <= starts[i + 1]
    BY <2>2, <2>3, <2>4
  <2>. QED
    BY <2>1, <2>5
<1>3. \A k \in Nat : k \in T
  <2>. HIDE DEF T
  <2>. QED
    BY <1>1, <1>2, NatInductive
<1>4. v - w - 1 \in Nat /\ w + 1 + (v - w - 1) = v
  BY <1>0, <1>00
<1>5. v - w - 1 \in T
  BY <1>3, <1>4
<1>. QED
  BY <1>4, <1>5, <1>00

(* Right behind the subwords of a word start those of the next word that   *)
(* has any, if it comes before v.                                          *)
LEMMA NextStarts ==
  ASSUME NEW pieces \in Seq(Nat), NEW starts, AreStarts(starts, pieces),
         NEW w \in 1 .. Len(pieces), NEW v \in 1 .. Len(pieces) + 1, w < v
  PROVE  \/ starts[v] = starts[w] + pieces[w]
         \/ \E u \in w + 1 .. v - 1 : pieces[u] > 0 /\ starts[u] = starts[w] + pieces[w]
<1>. DEFINE n == Len(pieces)
            Meets(j) == \/ starts[j] = starts[w] + pieces[w]
                        \/ \E u \in w + 1 .. j - 1 : pieces[u] > 0 /\ starts[u] = starts[w] + pieces[w]
            T == {k \in Nat : w + 1 + k <= n + 1 => Meets(w + 1 + k)}
<1>0. /\ n \in Nat /\ \A i \in 1 .. n : pieces[i] \in Nat
      /\ \A i \in 1 .. n + 1 : starts[i] \in Nat
      /\ \A i \in 1 .. n : starts[i + 1] = starts[i] + pieces[i]
  BY StartsTyped
<1>. HIDE DEF n
<1>00. w \in 1 .. n /\ v \in 1 .. n + 1
  BY DEF n
<1>1. 0 \in T
  <2>1. starts[w + 1] = starts[w] + pieces[w] /\ w + 1 + 0 = w + 1
    BY <1>0, <1>00
  <2>. QED
    BY <2>1
<1>2. ASSUME NEW k \in Nat, k \in T PROVE k + 1 \in T
  <2>. SUFFICES ASSUME w + 1 + (k + 1) <= n + 1
                PROVE  Meets(w + 1 + (k + 1))
    OBVIOUS
  <2>. DEFINE i == w + 1 + k
  <2>1. i \in w + 1 .. n /\ i \in 1 .. n /\ w + 1 + (k + 1) = i + 1
    BY <1>0, <1>00
  <2>2. Meets(i)
    BY <1>2, <1>0, <1>00
  <2>. HIDE DEF i
  <2>3. starts[i + 1] = starts[i] + pieces[i] /\ pieces[i] \in Nat /\ starts[i] \in Nat
    BY <1>0, <2>1
  <2>4. (w + 1 .. i - 1) \subseteq (w + 1 .. (i + 1) - 1) /\ i \in w + 1 .. (i + 1) - 1
    BY <1>00, <2>1
  <2>5. CASE starts[i] = starts[w] + pieces[w]
    <3>1. CASE pieces[i] = 0
      BY <2>1, <2>3, <2>5, <3>1
    <3>2. CASE pieces[i] > 0
      BY <2>1, <2>4, <2>5, <3>2
    <3>. QED
      BY <2>3, <3>1, <3>2
  <2>6. CASE \E u \in w + 1 .. i - 1 : pieces[u] > 0 /\ starts[u] = starts[w] + pieces[w]
    BY <2>1, <2>4, <2>6
  <2>. QED
    BY <2>2, <2>5, <2>6
<1>3. \A k \in Nat : k \in T
  <2>. HIDE DEF T
  <2>. QED
    BY <1>1, <1>2, NatInductive
<1>4. v - w - 1 \in Nat /\ w + 1 + (v - w - 1) = v
  BY <1>0, <1>00
<1>5. v - w - 1 \in T
  BY <1>3, <1>4
<1>6. Meets(w + 1 + (v - w - 1))
  BY <1>4, <1>5, <1>00
<1>7. Meets(v)
  BY <1>4, <1>6
<1>. QED
  BY <1>7

(***************************************************************************)
(* The walk of word_ends: after k words from the back it holds the least   *)
(* of `last` and their first subwords.                                     *)
(***************************************************************************)
IsWalk(f, first, last, n) ==
  f = [k \in 0 .. n |->
         IF k = 0 THEN last
         ELSE IF first[Len(first) + 1 - k] >= 0 /\ first[Len(first) + 1 - k] < f[k - 1]
              THEN first[Len(first) + 1 - k] ELSE f[k - 1]]

(* The walk back over words has a value at every word.                     *)
LEMMA WalkExists ==
  ASSUME NEW first, NEW last, NEW n \in Nat
  PROVE  \E f : IsWalk(f, first, last, n)
<1>. DEFINE At(k) == first[Len(first) + 1 - k]
            T == {k \in Nat : \E f : IsWalk(f, first, last, k)}
<1>1. 0 \in T
  <2>1. IsWalk([k \in 0 .. 0 |-> last], first, last, 0)
    BY DEF IsWalk
  <2>. QED
    BY <2>1
<1>2. ASSUME NEW m \in Nat, m \in T PROVE m + 1 \in T
  <2>1. PICK f : IsWalk(f, first, last, m)
    BY <1>2
  <2>1a. f = [k \in 0 .. m |-> IF k = 0 THEN last
                               ELSE IF At(k) >= 0 /\ At(k) < f[k - 1] THEN At(k) ELSE f[k - 1]]
    BY <2>1 DEF IsWalk
  <2>. HIDE DEF At
  <2>. DEFINE g == [k \in 0 .. m + 1 |->
                     IF k <= m THEN f[k]
                     ELSE IF At(k) >= 0 /\ At(k) < f[k - 1] THEN At(k) ELSE f[k - 1]]
  <2>2. \A k \in 0 .. m : f[k] = IF k = 0 THEN last
                                 ELSE IF At(k) >= 0 /\ At(k) < f[k - 1] THEN At(k) ELSE f[k - 1]
    BY <2>1a
  <2>3. \A k \in 0 .. m : g[k] = f[k]
    OBVIOUS
  <2>4. \A k \in 0 .. m + 1 : g[k] = IF k = 0 THEN last
                                     ELSE IF At(k) >= 0 /\ At(k) < g[k - 1] THEN At(k) ELSE g[k - 1]
    <3>. TAKE k \in 0 .. m + 1
    <3>1. CASE k = 0
      BY <2>2, <2>3, <3>1
    <3>2. CASE k # 0
      <4>1. k - 1 \in 0 .. m
        BY <3>2
      <4>2. g[k - 1] = f[k - 1]
        BY <2>3, <4>1
      <4>. QED
        BY <2>2, <3>2, <4>2
    <3>. QED
      BY <3>1, <3>2
  <2>5. g = [k \in 0 .. m + 1 |-> g[k]]
    OBVIOUS
  <2>6. IsWalk(g, first, last, m + 1)
    <3>. HIDE DEF g
    <3>. QED
      BY <2>4, <2>5 DEF IsWalk, At
  <2>. QED
    BY <2>6
<1>. HIDE DEF T
<1>3. n \in T
  BY <1>1, <1>2, NatInductive
<1>. QED
  BY <1>3 DEF T

\* x is the least of `last` and of the subwords from 0 on that start the
\* words after w.
IsNext(x, first, last, w) ==
  /\ x \in Int /\ x <= last
  /\ \A v \in w + 1 .. Len(first) : first[v] >= 0 => x <= first[v]
  /\ x = last \/ \E v \in w + 1 .. Len(first) : first[v] >= 0 /\ x = first[v]

(* So NextFirst gives the least first subword after a word.                *)
LEMMA NextFirstIsNext ==
  ASSUME NEW a, a.first \in Seq(Int), NEW last \in Int, NEW w \in 1 .. Len(a.first)
  PROVE  /\ DOMAIN NextFirst(a, last) = DOMAIN a.first
         /\ IsNext(NextFirst(a, last)[w], a.first, last, w)
<1>. DEFINE first == a.first
            n == Len(first)
            f == CHOOSE h : IsWalk(h, first, last, n)
            At(k) == first[n + 1 - k]
            T == {k \in Nat : k <= n => IsNext(f[k], first, last, n - k)}
<1>0. n \in Nat /\ (\A v \in 1 .. n : first[v] \in Int) /\ DOMAIN first = 1 .. n
  OBVIOUS
<1>1. IsWalk(f, first, last, n)
  BY <1>0, WalkExists
<1>2. NextFirst(a, last) = [v \in DOMAIN first |-> f[n - v]]
  BY DEF NextFirst, IsWalk
<1>. HIDE DEF f, n, first
<1>3. \A k \in 0 .. n : f[k] = IF k = 0 THEN last
                               ELSE IF At(k) >= 0 /\ At(k) < f[k - 1] THEN At(k) ELSE f[k - 1]
  BY <1>1 DEF IsWalk, n
<1>4. 0 \in T
  <2>1. f[0] = last
    BY <1>0, <1>3
  <2>2. n - 0 = n /\ n + 1 .. n = {}
    BY <1>0
  <2>. QED
    BY <1>0, <2>1, <2>2 DEF IsNext, n
<1>5. ASSUME NEW k \in Nat, k \in T PROVE k + 1 \in T
  <2>. SUFFICES ASSUME k + 1 <= n PROVE IsNext(f[k + 1], first, last, n - (k + 1))
    OBVIOUS
  <2>. DEFINE u == n - k
  <2>1. u \in 1 .. n /\ n - (k + 1) = u - 1 /\ n + 1 - (k + 1) = u /\ k + 1 \in 0 .. n
        /\ (k + 1) - 1 = k /\ k + 1 # 0
    BY <1>0
  <2>2. IsNext(f[k], first, last, u)
    BY <1>5, <1>0
  <2>. HIDE DEF u
  <2>3. f[k + 1] = IF first[u] >= 0 /\ first[u] < f[k] THEN first[u] ELSE f[k]
    BY <1>3, <2>1
  <2>4. (u - 1) + 1 .. n = {u} \cup (u + 1 .. n) /\ first[u] \in Int
    BY <1>0, <2>1
  <2>5. IsNext(f[k + 1], first, last, u - 1)
    <3>1. f[k] \in Int /\ f[k] <= last
      BY <2>2 DEF IsNext
    <3>2. \A v \in u + 1 .. n : first[v] >= 0 => f[k] <= first[v]
      BY <2>2 DEF IsNext, n
    <3>3. f[k] = last \/ \E v \in u + 1 .. n : first[v] >= 0 /\ f[k] = first[v]
      BY <2>2 DEF IsNext, n
    <3>4. f[k + 1] \in Int /\ f[k + 1] <= f[k] /\ f[k + 1] <= last
      BY <2>3, <2>4, <3>1
    <3>5. ASSUME NEW v \in (u - 1) + 1 .. n, first[v] >= 0 PROVE f[k + 1] <= first[v]
      <4>1. CASE v = u
        BY <2>3, <2>4, <3>1, <3>5, <4>1
      <4>2. CASE v \in u + 1 .. n
        <5>1. f[k] <= first[v] /\ first[v] \in Int
          BY <1>0, <2>1, <3>2, <3>5, <4>2
        <5>. QED
          BY <3>1, <3>4, <5>1
      <4>. QED
        BY <2>4, <4>1, <4>2
    <3>6. f[k + 1] = last \/ \E v \in (u - 1) + 1 .. n : first[v] >= 0 /\ f[k + 1] = first[v]
      <4>1. CASE first[u] >= 0 /\ first[u] < f[k]
        BY <2>3, <2>4, <4>1
      <4>2. CASE ~(first[u] >= 0 /\ first[u] < f[k])
        BY <2>3, <2>4, <3>3, <4>2
      <4>. QED
        BY <4>1, <4>2
    <3>. QED
      BY <3>4, <3>5, <3>6 DEF IsNext, n
  <2>. QED
    BY <2>1, <2>5
<1>6. \A k \in Nat : k \in T
  <2>. HIDE DEF T
  <2>. QED
    BY <1>4, <1>5, NatInductive
<1>7. w \in 1 .. n /\ n - w \in Nat /\ n - w <= n /\ n - (n - w) = w
  BY <1>0 DEF n, first
<1>8. n - w \in T
  BY <1>6, <1>7
<1>9. IsNext(f[n - w], first, last, w)
  BY <1>7, <1>8
<1>10. NextFirst(a, last)[w] = f[n - w]
  BY <1>0, <1>2, <1>7
<1>. QED
  BY <1>2, <1>9, <1>10 DEF first

\* What align makes of words that start at these places.
IsAlignment(a, pieces, budget, starts) ==
  /\ a.limit \in 0 .. Len(pieces) /\ a.ids \in Nat
  /\ a.first \in Seq(Int) /\ Len(a.first) = a.limit
  /\ \A w \in 1 .. a.limit : a.first[w] = IF pieces[w] = 0 THEN -1 ELSE starts[w]
  /\ \A w \in 1 .. a.limit : pieces[w] > 0 => starts[w] < a.ids - 1
  /\ a.ids <= budget /\ a.ids - 1 <= starts[a.limit + 1]
  /\ a.limit < Len(pieces) => pieces[a.limit + 1] > 0 /\ starts[a.limit + 1] >= budget - 1

(* What align gives is an alignment of its words.                          *)
LEMMA AlignAligns ==
  ASSUME NEW pieces \in Seq(Nat), NEW budget \in Nat \ {0, 1}
  PROVE  IsAlignment(Align(pieces, budget), pieces, budget, SubwordStarts(pieces))
<1>. DEFINE n == Len(pieces)
            S == SubwordStarts(pieces)
            past == Past(pieces, budget)
            m == CHOOSE w \in past : \A v \in past : w <= v
            a == Align(pieces, budget)
            cut == Subwords(pieces) > budget
<1>1. AreStarts(S, pieces)
  BY StartsOfWords
<1>2. /\ n \in Nat /\ \A w \in 1 .. n : pieces[w] \in Nat
      /\ \A w \in 1 .. n + 1 : S[w] \in Nat
  <2>. HIDE DEF S
  <2>. QED
    BY <1>1, StartsTyped
<1>3. past = {w \in 1 .. n : pieces[w] > 0 /\ S[w] >= budget - 1}
  BY DEF Past
<1>4. Subwords(pieces) = S[n + 1] + 1
  BY DEF Subwords
<1>5. /\ a.limit = IF cut /\ past # {} THEN m - 1 ELSE n
      /\ a.ids = IF cut THEN budget ELSE Subwords(pieces)
      /\ a.first = [w \in 1 .. a.limit |-> IF pieces[w] = 0 THEN -1 ELSE S[w]]
  BY DEF Align
<1>6. past # {} => m \in past /\ \A v \in past : m <= v
  <2>1. past \in SUBSET Nat
    BY <1>2, <1>3
  <2>. HIDE DEF past
  <2>. QED
    BY <2>1, LeastIsChosen
<1>7. \A w \in 1 .. n : pieces[w] > 0 => S[w] < S[n + 1]
  <2>. SUFFICES ASSUME NEW w \in 1 .. n, pieces[w] > 0 PROVE S[w] < S[n + 1]
    OBVIOUS
  <2>. HIDE DEF S
  <2>1. n + 1 \in 1 .. Len(pieces) + 1 /\ w < n + 1 /\ w \in 1 .. Len(pieces)
    BY <1>2
  <2>2. S[w] + pieces[w] <= S[n + 1]
    BY <1>1, <2>1, StartsGrow
  <2>. QED
    BY <1>2, <2>1, <2>2
<1>. HIDE DEF S, past, m, a, n
<1>8. a.limit \in 0 .. n
  BY <1>2, <1>3, <1>5, <1>6
<1>9. a.ids \in Nat /\ a.ids <= budget /\ (~cut => a.ids = S[n + 1] + 1) /\ (cut => a.ids = budget /\ budget < S[n + 1] + 1)
  BY <1>2, <1>4, <1>5
<1>10. a.first \in Seq(Int) /\ Len(a.first) = a.limit
  <2>1. \A w \in 1 .. a.limit : (IF pieces[w] = 0 THEN -1 ELSE S[w]) \in Int
    BY <1>2, <1>8
  <2>2. a.limit \in Nat
    BY <1>2, <1>8
  <2>3. a.first \in [1 .. a.limit -> Int]
    BY <1>5, <2>1
  <2>4. \A k \in Nat : \A g \in [1 .. k -> Int] : g \in Seq(Int) /\ Len(g) = k
    OBVIOUS
  <2>. QED
    BY <2>2, <2>3, <2>4
<1>11. \A w \in 1 .. a.limit : a.first[w] = IF pieces[w] = 0 THEN -1 ELSE S[w]
  BY <1>5
<1>12. \A w \in 1 .. a.limit : pieces[w] > 0 => S[w] < a.ids - 1
  <2>. SUFFICES ASSUME NEW w \in 1 .. a.limit, pieces[w] > 0 PROVE S[w] < a.ids - 1
    OBVIOUS
  <2>1. w \in 1 .. n /\ w \in 1 .. n + 1
    BY <1>2, <1>8
  <2>2. CASE ~cut
    BY <1>2, <1>7, <1>9, <2>1, <2>2
  <2>3. CASE cut
    <3>1. w \notin past
      <4>1. CASE past = {}
        BY <4>1
      <4>2. CASE past # {}
        <5>1. w < m
          BY <1>2, <1>3, <1>5, <1>6, <2>3, <4>2
        <5>2. m \in Nat
          BY <1>2, <1>3, <1>6, <4>2
        <5>. QED
          BY <1>6, <2>1, <4>2, <5>1, <5>2
      <4>. QED
        BY <4>1, <4>2
    <3>. QED
      BY <1>2, <1>3, <1>9, <2>1, <2>3, <3>1
  <2>. QED
    BY <2>2, <2>3
<1>13. a.limit < n => pieces[a.limit + 1] > 0 /\ S[a.limit + 1] >= budget - 1
  <2>. SUFFICES ASSUME a.limit < n PROVE pieces[a.limit + 1] > 0 /\ S[a.limit + 1] >= budget - 1
    OBVIOUS
  <2>1. cut /\ past # {} /\ a.limit + 1 = m
    BY <1>2, <1>3, <1>5, <1>6
  <2>. QED
    BY <1>3, <1>6, <2>1
<1>14. a.ids - 1 <= S[a.limit + 1]
  <2>1. CASE a.limit = n
    BY <1>2, <1>9, <2>1
  <2>2. CASE a.limit < n
    <3>1. a.limit + 1 \in 1 .. n + 1
      BY <1>2, <1>8
    <3>. QED
      BY <1>2, <1>9, <1>13, <2>2, <3>1
  <2>. QED
    BY <1>2, <1>8, <2>1, <2>2
<1>. QED
  BY <1>8, <1>9, <1>10, <1>11, <1>12, <1>13, <1>14 DEF IsAlignment, S, n, a

(* The subwords of a word are its own: whatever a tokenizer makes of the   *)
(* words and whatever the budget, those that word_ends gives a word are    *)
(* encoded from it, all that it has unless it is the last analysed, and a  *)
(* word is left out only if the encoding up to it exceeds the budget.      *)
THEOREM SubwordsAreTheirs ==
  ASSUME NEW pieces \in Seq(Nat), NEW budget \in Nat \ {0, 1}
  PROVE  WordsHaveTheirSubwords(pieces, budget, Align(pieces, budget), WordEnds(Align(pieces, budget)))
<1>. DEFINE n == Len(pieces)
            S == SubwordStarts(pieces)
            a == Align(pieces, budget)
            last == a.ids - 1
            next == NextFirst(a, last)
            ends == WordEnds(a)
            analysed == {w \in DOMAIN a.first : a.first[w] >= 0}
<1>1. AreStarts(S, pieces) /\ IsAlignment(a, pieces, budget, S)
  BY StartsOfWords, AlignAligns
<1>2. /\ n \in Nat /\ \A w \in 1 .. n : pieces[w] \in Nat
      /\ \A w \in 1 .. n + 1 : S[w] \in Nat
      /\ \A w \in 1 .. n : S[w + 1] = S[w] + pieces[w]
  <2>. HIDE DEF S
  <2>. QED
    BY <1>1, StartsTyped
<1>3. ends = [w \in DOMAIN a.first |->
                IF a.first[w] >= 0 /\ a.first[w] < next[w] THEN next[w]
                ELSE IF (IF a.first[w] >= 0 THEN a.first[w] ELSE 0) + 1 < a.ids
                     THEN (IF a.first[w] >= 0 THEN a.first[w] ELSE 0) + 1 ELSE a.ids]
  BY DEF WordEnds, EndsBefore
<1>. HIDE DEF S, a, ends, next, n
<1>4. /\ a.limit \in 0 .. n /\ a.ids \in Nat /\ last \in Int
      /\ a.first \in Seq(Int) /\ Len(a.first) = a.limit /\ DOMAIN a.first = 1 .. a.limit
      /\ \A w \in 1 .. a.limit : a.first[w] = IF pieces[w] = 0 THEN -1 ELSE S[w]
      /\ \A w \in 1 .. a.limit : pieces[w] > 0 => S[w] < last
      /\ a.ids <= budget /\ last <= S[a.limit + 1]
      /\ a.limit < n => pieces[a.limit + 1] > 0 /\ S[a.limit + 1] >= budget - 1
  <2>1. IsAlignment(a, pieces, budget, S)
    BY <1>1
  <2>2. /\ a.limit \in 0 .. n /\ a.ids \in Nat /\ a.first \in Seq(Int) /\ Len(a.first) = a.limit
        /\ \A w \in 1 .. a.limit : a.first[w] = IF pieces[w] = 0 THEN -1 ELSE S[w]
        /\ \A w \in 1 .. a.limit : pieces[w] > 0 => S[w] < last
        /\ a.ids <= budget /\ last <= S[a.limit + 1]
        /\ a.limit < n => pieces[a.limit + 1] > 0 /\ S[a.limit + 1] >= budget - 1
    BY <2>1, Zenon DEF IsAlignment, n
  <2>3. last \in Int /\ DOMAIN a.first = 1 .. a.limit
    BY <2>2
  <2>. QED
    BY <2>2, <2>3, Zenon
<1>. HIDE DEF last
<1>40. a.limit \in Nat /\ a.limit <= n /\ \A w \in 1 .. a.limit : w \in 1 .. n
  BY <1>2, <1>4
<1>5. ASSUME NEW w \in analysed
      PROVE  w \in 1 .. a.limit /\ w \in 1 .. n /\ pieces[w] > 0 /\ a.first[w] = S[w] /\ S[w] < last
  <2>1. w \in 1 .. a.limit /\ w \in 1 .. n /\ a.first[w] >= 0
    BY <1>4, <1>40
  <2>2. a.first[w] = (IF pieces[w] = 0 THEN -1 ELSE S[w]) /\ pieces[w] \in Nat
    BY <1>2, <1>4, <2>1
  <2>3. pieces[w] # 0
    BY <2>1, <2>2
  <2>. QED
    BY <1>4, <2>1, <2>2, <2>3
<1>6. ASSUME NEW w \in 1 .. a.limit, pieces[w] > 0
      PROVE  w \in analysed
  <2>1. w \in 1 .. n + 1 /\ a.first[w] = S[w]
    BY <1>2, <1>4, <1>40, <1>6
  <2>2. S[w] \in Nat
    BY <1>2, <2>1
  <2>. QED
    BY <1>4, <2>1, <2>2
<1>. HIDE DEF analysed
<1>7. ASSUME NEW w \in analysed, NEW v \in 1 .. n + 1, w < v
      PROVE  S[w] + pieces[w] <= S[v]
  BY <1>1, <1>5, <1>7, StartsGrow DEF n
<1>8. ASSUME NEW w \in analysed
      PROVE  /\ next[w] \in Int /\ next[w] <= last
             /\ \A v \in analysed : w < v => next[w] <= S[v]
             /\ next[w] = last \/ \E v \in analysed : w < v /\ next[w] = S[v]
  <2>1. IsNext(next[w], a.first, last, w)
    BY <1>4, <1>5, NextFirstIsNext DEF next
  <2>2. \A v \in analysed : w < v => v \in w + 1 .. a.limit /\ a.first[v] >= 0 /\ a.first[v] = S[v]
    <3>. TAKE v \in analysed
    <3>. HAVE w < v
    <3>1. v \in 1 .. a.limit /\ w \in 1 .. a.limit /\ a.first[v] = S[v]
      BY <1>5
    <3>2. a.first[v] >= 0
      BY DEF analysed
    <3>. QED
      BY <1>40, <3>1, <3>2
  <2>3. \A v \in w + 1 .. a.limit : a.first[v] >= 0 => v \in analysed /\ w < v /\ a.first[v] = S[v]
    <3>. TAKE v \in w + 1 .. a.limit
    <3>1. v \in 1 .. a.limit /\ w < v
      BY <1>4, <1>5
    <3>. QED
      BY <1>4, <3>1, <1>5 DEF analysed
  <2>. QED
    BY <1>4, <2>1, <2>2, <2>3 DEF IsNext
<1>9. ASSUME NEW w \in analysed
      PROVE  /\ ends[w] = next[w] /\ S[w] < next[w] /\ next[w] <= S[w] + pieces[w]
             /\ \A v \in analysed : w < v => next[w] = S[w] + pieces[w] /\ next[w] <= S[v]
  <2>0. /\ w \in 1 .. a.limit /\ w \in 1 .. n /\ pieces[w] > 0 /\ a.first[w] = S[w] /\ S[w] < last
        /\ S[w] \in Nat /\ pieces[w] \in Nat /\ w \in DOMAIN a.first
    <3>1. w \in 1 .. n + 1
      BY <1>2, <1>5
    <3>. QED
      BY <1>2, <1>4, <1>5, <3>1
  <2>1. \A v \in analysed : w < v => S[w] + pieces[w] <= S[v] /\ S[v] < last /\ S[v] \in Nat
    <3>1. \A v \in analysed : v \in 1 .. n + 1
      BY <1>2, <1>5
    <3>. QED
      BY <1>2, <1>5, <1>7, <3>1
  <2>2. S[w] < next[w]
    <3>1. next[w] = last \/ \E v \in analysed : w < v /\ next[w] = S[v]
      BY <1>8
    <3>2. CASE next[w] = last
      BY <2>0, <3>2
    <3>3. CASE \E v \in analysed : w < v /\ next[w] = S[v]
      <4>1. PICK v \in analysed : w < v /\ next[w] = S[v]
        BY <3>3
      <4>2. S[w] + pieces[w] <= S[v] /\ S[v] \in Nat
        BY <2>1, <4>1
      <4>. QED
        BY <2>0, <4>1, <4>2
    <3>. QED
      BY <3>1, <3>2, <3>3
  <2>3. ends[w] = next[w]
    BY <1>3, <2>0, <2>2
  <2>4. next[w] <= S[w] + pieces[w]
    <3>1. a.limit + 1 \in 1 .. Len(pieces) + 1 /\ w < a.limit + 1 /\ w \in 1 .. Len(pieces)
      BY <1>2, <1>40, <2>0 DEF n
    <3>2. \/ S[a.limit + 1] = S[w] + pieces[w]
          \/ \E u \in w + 1 .. (a.limit + 1) - 1 : pieces[u] > 0 /\ S[u] = S[w] + pieces[w]
      BY <1>1, <3>1, NextStarts
    <3>3. CASE S[a.limit + 1] = S[w] + pieces[w]
      <4>1. next[w] \in Int /\ next[w] <= last
        BY <1>8
      <4>. QED
        BY <1>4, <2>0, <3>3, <4>1
    <3>4. CASE \E u \in w + 1 .. (a.limit + 1) - 1 : pieces[u] > 0 /\ S[u] = S[w] + pieces[w]
      <4>1. PICK u \in w + 1 .. (a.limit + 1) - 1 : pieces[u] > 0 /\ S[u] = S[w] + pieces[w]
        BY <3>4
      <4>2. u \in 1 .. a.limit /\ w < u
        BY <1>4, <2>0
      <4>3. u \in analysed
        BY <1>6, <4>1, <4>2
      <4>. QED
        BY <1>8, <4>1, <4>2, <4>3
    <3>. QED
      BY <3>2, <3>3, <3>4
  <2>5. ASSUME NEW v \in analysed, w < v
        PROVE  next[w] = S[w] + pieces[w] /\ next[w] <= S[v]
    <3>1. S[w] + pieces[w] <= next[w]
      <4>1. S[w] + pieces[w] <= S[v] /\ S[v] < last /\ S[v] \in Nat
        BY <2>1, <2>5
      <4>2. CASE next[w] = last
        BY <1>4, <2>0, <4>1, <4>2
      <4>3. CASE \E u \in analysed : w < u /\ next[w] = S[u]
        BY <2>1, <4>3
      <4>. QED
        BY <1>8, <4>2, <4>3
    <3>2. next[w] <= S[v] /\ next[w] \in Int
      BY <1>8, <2>5
    <3>. QED
      BY <2>0, <2>4, <3>1, <3>2
  <2>. QED
    BY <2>2, <2>3, <2>4, <2>5
<1>10. ASSUME NEW w \in analysed
       PROVE  /\ 1 <= a.first[w] /\ a.first[w] < ends[w] /\ ends[w] <= last
              /\ ends[w] - a.first[w] <= pieces[w]
              /\ \A v \in analysed : v > w =>
                   ends[w] <= a.first[v] /\ ends[w] - a.first[w] = pieces[w]
  <2>1. /\ w \in 1 .. n /\ a.first[w] = S[w] /\ S[w] \in Nat /\ pieces[w] \in Nat
        /\ \A v \in analysed : a.first[v] = S[v] /\ v \in Nat
    <3>1. \A v \in analysed : v \in 1 .. n /\ v \in 1 .. n + 1
      BY <1>2, <1>5
    <3>. QED
      BY <1>2, <1>5, <3>1
  <2>2. 1 <= S[w]
    <3>1. 1 \in 1 .. n /\ S[1] = 1
      BY <1>1, <1>2, <2>1 DEF AreStarts
    <3>2. CASE w = 1
      BY <3>1, <3>2
    <3>3. CASE w # 1
      <4>1. 1 \in 1 .. Len(pieces) /\ w \in 1 .. Len(pieces) + 1 /\ 1 < w
        BY <1>2, <2>1, <3>1, <3>3 DEF n
      <4>2. S[1] + pieces[1] <= S[w]
        BY <1>1, <4>1, StartsGrow
      <4>. QED
        BY <1>2, <2>1, <3>1, <4>2
    <3>. QED
      BY <3>2, <3>3
  <2>3. /\ ends[w] \in Int /\ ends[w] <= last /\ S[w] < ends[w] /\ ends[w] <= S[w] + pieces[w]
        /\ \A v \in analysed : w < v => ends[w] = S[w] + pieces[w] /\ ends[w] <= S[v]
    BY <1>8, <1>9
  <2>4. ends[w] - S[w] <= pieces[w]
    BY <2>1, <2>3
  <2>5. ASSUME NEW v \in analysed, v > w
        PROVE  ends[w] <= a.first[v] /\ ends[w] - a.first[w] = pieces[w]
    <3>1. w < v
      BY <2>1, <2>5
    <3>. QED
      BY <2>1, <2>3, <3>1
  <2>. QED
    BY <2>1, <2>2, <2>3, <2>4, <2>5
<1>11. ASSUME NEW w \in 1 .. n, w > a.limit
       PROVE  S[w + 1] + 1 > budget
  <2>. DEFINE m == a.limit + 1
  <2>1. m \in 1 .. n /\ m <= w /\ m \in 1 .. n + 1 /\ w + 1 \in 1 .. n + 1 /\ m < w + 1 /\ a.limit < n
    BY <1>2, <1>40, <1>11
  <2>2. pieces[m] > 0 /\ S[m] >= budget - 1
    BY <1>4, <2>1
  <2>. HIDE DEF m
  <2>3. S[m] + pieces[m] <= S[w + 1]
    BY <1>1, <2>1, StartsGrow DEF n
  <2>. QED
    BY <1>2, <2>1, <2>2, <2>3
<1>12. DOMAIN pieces = 1 .. n
  BY DEF n
<1>13. \A w \in {v \in DOMAIN a.first : a.first[v] >= 0} :
          /\ 1 <= a.first[w] /\ a.first[w] < ends[w] /\ ends[w] <= a.ids - 1
          /\ ends[w] - a.first[w] <= pieces[w]
          /\ \A v \in {u \in DOMAIN a.first : a.first[u] >= 0} : v > w =>
               ends[w] <= a.first[v] /\ ends[w] - a.first[w] = pieces[w]
  BY <1>10 DEF analysed, last
<1>14. \A w \in DOMAIN pieces : w > a.limit => S[w + 1] + 1 > budget
  BY <1>11, <1>12
<1>. QED
  BY <1>4, <1>13, <1>14 DEF WordsHaveTheirSubwords, S, a, ends

(***************************************************************************)
(* NlpEntities: classes of members, and their groups.                      *)
(***************************************************************************)
LEMMA ClassesPart ==
  ASSUME NEW S, NEW ms \in Seq(S), IsInjective(ms), NEW C,
         \A i \in S : i \in C[i], \A i, j \in S : j \in C[i] => C[j] = C[i]
  PROVE  Parts(ByClass(ms, C), ItemsOf(ms))
<1>. DEFINE n == Len(ms)
            F == {x \in 1 .. n : \A y \in 1 .. (x - 1) : ms[y] \notin C[ms[x]]}
            id == [x \in 1 .. n |-> x]
            firsts == Filter(id, F)
            M == ItemsOf(ms)
            G == [k \in DOMAIN firsts |-> Filter(ms, C[ms[firsts[k]]])]
<1>1. n \in Nat /\ DOMAIN ms = 1 .. n /\ (\A x \in 1 .. n : ms[x] \in S) /\ ms \in Seq(M)
  <2>1. n \in Nat /\ DOMAIN ms = 1 .. n /\ (\A x \in 1 .. n : ms[x] \in S)
    OBVIOUS
  <2>2. ms \in [1 .. n -> M]
    <3>1. ms = [x \in 1 .. n |-> ms[x]]
      OBVIOUS
    <3>. QED
      BY <2>1, <3>1 DEF ItemsOf
  <2>. QED
    BY <2>1, <2>2
<1>2. ByClass(ms, C) = G
  BY <1>1 DEF ByClass
<1>3. firsts \in Seq(F) /\ ItemsOf(firsts) = F /\ IsInjective(firsts)
  <2>1. F \in SUBSET (1 .. n)
    OBVIOUS
  <2>. HIDE DEF F
  <2>. QED
    BY <1>1, <2>1, Firsts
<1>4. DOMAIN firsts = 1 .. Len(firsts) /\ Len(firsts) \in Nat
  BY <1>3, ElementOfSeq, LenProperties
<1>5. \A k \in 1 .. Len(firsts) : firsts[k] \in F /\ firsts[k] \in 1 .. n
  <2>. TAKE k \in 1 .. Len(firsts)
  <2>1. firsts[k] \in F
    <3>. HIDE DEF firsts, F
    <3>. QED
      BY <1>3, <1>4, ElementOfSeq
  <2>. QED
    BY <2>1
<1>. HIDE DEF firsts, id, F
<1>6. ASSUME NEW k \in 1 .. Len(firsts)
      PROVE  /\ G[k] \in Seq(M) /\ IsInjective(G[k]) /\ G[k] # <<>>
             /\ ItemsOf(G[k]) = M \cap C[ms[firsts[k]]]
  <2>. DEFINE K == C[ms[firsts[k]]]
  <2>1. G[k] = Filter(ms, K)
    BY <1>4
  <2>2. ms[firsts[k]] \in S /\ ms[firsts[k]] \in M /\ ms[firsts[k]] \in K
    BY <1>1, <1>5 DEF ItemsOf
  <2>. HIDE DEF K, G, n
  <2>3. Filter(ms, K) \in Seq(M)
    <3>1. Filter(ms, K) \in Seq(M \cap K)
      BY <1>1, FilterType
    <3>. QED
      BY <3>1, SeqMonotonic
  <2>4. ItemsOf(Filter(ms, K)) = M \cap K
    BY FilterItems
  <2>5. IsInjective(Filter(ms, K))
    BY FilterDistinct
  <2>6. Filter(ms, K) # <<>>
    <3>1. ItemsOf(<<>>) = {}
      BY DEF ItemsOf
    <3>. QED
      BY <2>2, <2>4, <3>1
  <2>. QED
    BY <2>1, <2>3, <2>4, <2>5, <2>6 DEF K
<1>7. G \in Seq(Seq(M) \ {<<>>}) /\ DOMAIN G = 1 .. Len(firsts)
  <2>1. G = [k \in 1 .. Len(firsts) |-> G[k]]
    BY <1>4
  <2>. HIDE DEF G
  <2>. QED
    BY <1>4, <1>6, <2>1
<1>. HIDE DEF G, M
<1>8. ASSUME NEW i \in M PROVE \E k \in DOMAIN G : i \in ToSet(G[k])
  <2>1. PICK z \in 1 .. n : ms[z] = i
    BY <1>1 DEF ItemsOf, M
  <2>. DEFINE Y == {y \in Nat : y \in 1 .. n /\ ms[y] \in C[i]}
  <2>2. i \in S /\ z \in Y
    BY <1>1, <2>1
  <2>3. PICK x \in Y : \A y \in Y : x <= y
    <3>1. Y \in SUBSET Nat /\ Y # {}
      BY <2>2
    <3>. HIDE DEF Y
    <3>. QED
      BY <3>1, LeastExists
  <2>4. x \in 1 .. n /\ ms[x] \in C[i] /\ ms[x] \in S /\ C[ms[x]] = C[i]
    BY <1>1, <2>2, <2>3
  <2>5. x \in F
    <3>1. ASSUME NEW y \in 1 .. (x - 1) PROVE ms[y] \notin C[ms[x]]
      <4>1. y \in Nat /\ y \in 1 .. n /\ ~(x <= y)
        BY <1>1, <2>4
      <4>. QED
        BY <2>3, <2>4, <4>1
    <3>. QED
      BY <2>4, <3>1 DEF F
  <2>6. PICK k \in 1 .. Len(firsts) : firsts[k] = x
    BY <1>3, <1>4, <2>5 DEF ItemsOf
  <2>7. i \in ItemsOf(G[k])
    BY <1>6, <2>2, <2>4, <2>6
  <2>. QED
    BY <1>7, <2>7 DEF ItemsOf, ToSet
<1>9. ASSUME NEW k \in DOMAIN G, NEW l \in DOMAIN G, NEW x \in DOMAIN G[k], NEW y \in DOMAIN G[l],
             G[k][x] = G[l][y]
      PROVE  k = l /\ x = y
  <2>1. k \in 1 .. Len(firsts) /\ l \in 1 .. Len(firsts)
    BY <1>7
  <2>. DEFINE i == G[k][x]
              a == firsts[k]
              b == firsts[l]
  <2>2. i \in ItemsOf(G[k]) /\ i \in ItemsOf(G[l])
    BY <1>9 DEF ItemsOf
  <2>3. i \in M /\ i \in C[ms[a]] /\ i \in C[ms[b]]
    BY <1>6, <2>1, <2>2
  <2>4. i \in S /\ ms[a] \in S /\ ms[b] \in S /\ a \in 1 .. n /\ b \in 1 .. n /\ a \in F /\ b \in F
    <3>1. M \subseteq S
      BY <1>1 DEF M, ItemsOf
    <3>. QED
      BY <1>1, <1>5, <2>1, <2>3, <3>1
  <2>. HIDE DEF i, a, b
  <2>5. C[ms[a]] = C[ms[b]]
    BY <2>3, <2>4
  <2>6. ms[a] \in C[ms[b]] /\ ms[b] \in C[ms[a]]
    BY <2>4, <2>5
  <2>7. ~(a < b) /\ ~(b < a)
    <3>1. a < b => a \in 1 .. (b - 1)
      BY <1>1, <2>4
    <3>2. b < a => b \in 1 .. (a - 1)
      BY <1>1, <2>4
    <3>. QED
      BY <2>4, <2>6, <3>1, <3>2 DEF F
  <2>8. a = b
    BY <1>1, <2>4, <2>7
  <2>9. k = l
    BY <1>3, <1>4, <2>1, <2>8 DEF IsInjective, a, b
  <2>10. IsInjective(G[k])
    BY <1>6, <2>1
  <2>11. G[k][x] = G[k][y] /\ y \in DOMAIN G[k]
    BY <1>9, <2>9
  <2>. QED
    BY <2>9, <2>10, <2>11 DEF IsInjective
<1>10. Parts(G, M)
  BY <1>7, <1>8, <1>9 DEF Parts
<1>. QED
  BY <1>2, <1>10 DEF M

(* Members that ByClass puts together are of one class.                    *)
LEMMA ClassesAreClasses ==
  ASSUME NEW S, NEW ms \in Seq(S), NEW C, NEW k \in DOMAIN ByClass(ms, C)
  PROVE  \E i \in S : ItemsOf(ByClass(ms, C)[k]) \subseteq C[i]
<1>. DEFINE n == Len(ms)
            F == {x \in 1 .. n : \A y \in 1 .. (x - 1) : ms[y] \notin C[ms[x]]}
            firsts == Filter([x \in 1 .. n |-> x], F)
<1>1. n \in Nat /\ DOMAIN ms = 1 .. n /\ \A x \in 1 .. n : ms[x] \in S
  OBVIOUS
<1>2. firsts \in Seq(F)
  <2>1. F \in SUBSET (1 .. n)
    OBVIOUS
  <2>. HIDE DEF F
  <2>. QED
    BY <1>1, <2>1, Firsts
<1>3. k \in DOMAIN firsts /\ ByClass(ms, C)[k] = Filter(ms, C[ms[firsts[k]]])
  BY <1>1 DEF ByClass
<1>4. firsts[k] \in F
  <2>. HIDE DEF firsts, F
  <2>. QED
    BY <1>2, <1>3
<1>5. ItemsOf(Filter(ms, C[ms[firsts[k]]])) \subseteq C[ms[firsts[k]]]
  BY FilterItems
<1>. QED
  BY <1>1, <1>3, <1>4, <1>5

(* Two lists of groups of different items are one. *)
LEMMA ConcatParts ==
  ASSUME NEW S, NEW T, S \cap T = {}, NEW g, NEW h, Parts(g, S), Parts(h, T)
  PROVE  Parts(g \o h, S \cup T)
<1>. DEFINE U == S \cup T
            N == Seq(U) \ {<<>>}
<1>1. g \in Seq(N) /\ h \in Seq(N)
  <2>1. Seq(S) \ {<<>>} \subseteq N /\ Seq(T) \ {<<>>} \subseteq N
    OBVIOUS
  <2>. HIDE DEF N
  <2>2. \A x \in Seq(Seq(S) \ {<<>>}) : x \in Seq(N)
    BY <2>1, SeqMonotonic
  <2>3. \A x \in Seq(Seq(T) \ {<<>>}) : x \in Seq(N)
    BY <2>1, SeqMonotonic
  <2>. QED
    BY <2>2, <2>3 DEF Parts
<1>2. g \in Seq(Seq(S) \ {<<>>}) /\ h \in Seq(Seq(T) \ {<<>>})
  BY DEF Parts
<1>. DEFINE m == Len(g)
            n == Len(h)
<1>3. /\ m \in Nat /\ n \in Nat /\ DOMAIN g = 1 .. m /\ DOMAIN h = 1 .. n
      /\ g \o h \in Seq(N) /\ Len(g \o h) = m + n /\ DOMAIN (g \o h) = 1 .. m + n
  <2>. HIDE DEF N
  <2>1. m \in Nat /\ n \in Nat /\ DOMAIN g = 1 .. m /\ DOMAIN h = 1 .. n
    BY <1>1, LenProperties
  <2>2. g \o h \in Seq(N) /\ Len(g \o h) = m + n
    BY <1>1, ConcatProperties
  <2>. QED
    BY <2>1, <2>2, LenProperties
<1>4. \A k \in 1 .. m + n : (g \o h)[k] = IF k <= m THEN g[k] ELSE h[k - m]
  <2>. HIDE DEF N
  <2>. QED
    BY <1>1, ConcatProperties
<1>5. \A k \in 1 .. m : g[k] \in Seq(S)
  <2>. DEFINE Q == Seq(S) \ {<<>>}
  <2>1. \A k \in 1 .. m : g[k] \in Q
    <3>1. g \in Seq(Q)
      BY <1>2
    <3>. HIDE DEF Q
    <3>. QED
      BY <1>3, <3>1, ElementOfSeq
  <2>. QED
    BY <2>1
<1>6. \A k \in 1 .. n : h[k] \in Seq(T)
  <2>. DEFINE Q == Seq(T) \ {<<>>}
  <2>1. \A k \in 1 .. n : h[k] \in Q
    <3>1. h \in Seq(Q)
      BY <1>2
    <3>. HIDE DEF Q
    <3>. QED
      BY <1>3, <3>1, ElementOfSeq
  <2>. QED
    BY <2>1
<1>. HIDE DEF m, n, N
<1>7. ASSUME NEW i \in U PROVE \E k \in DOMAIN (g \o h) : i \in ToSet((g \o h)[k])
  <2>1. CASE i \in S
    <3>1. PICK k \in DOMAIN g : i \in ToSet(g[k])
      BY <2>1 DEF Parts
    <3>2. k \in 1 .. m + n /\ k <= m
      BY <1>3, <3>1
    <3>. QED
      BY <1>3, <1>4, <3>1, <3>2
  <2>2. CASE i \in T
    <3>1. PICK k \in DOMAIN h : i \in ToSet(h[k])
      BY <2>2 DEF Parts
    <3>2. m + k \in 1 .. m + n /\ ~(m + k <= m) /\ (m + k) - m = k
      BY <1>3, <3>1
    <3>. QED
      BY <1>3, <1>4, <3>1, <3>2
  <2>. QED
    BY <2>1, <2>2
<1>8. ASSUME NEW k \in DOMAIN (g \o h), NEW l \in DOMAIN (g \o h),
             NEW x \in DOMAIN (g \o h)[k], NEW y \in DOMAIN (g \o h)[l],
             (g \o h)[k][x] = (g \o h)[l][y]
      PROVE  k = l /\ x = y
  <2>1. k \in 1 .. m + n /\ l \in 1 .. m + n /\ k \in Nat /\ l \in Nat
    BY <1>3
  <2>2. CASE k <= m /\ l <= m
    <3>1. (g \o h)[k] = g[k] /\ (g \o h)[l] = g[l] /\ k \in DOMAIN g /\ l \in DOMAIN g
      BY <1>3, <1>4, <2>1, <2>2
    <3>. QED
      BY <1>8, <3>1 DEF Parts
  <2>3. CASE k > m /\ l > m
    <3>1. /\ (g \o h)[k] = h[k - m] /\ (g \o h)[l] = h[l - m]
          /\ k - m \in DOMAIN h /\ l - m \in DOMAIN h
      BY <1>3, <1>4, <2>1, <2>3
    <3>2. k - m = l - m /\ x = y
      BY <1>8, <3>1 DEF Parts
    <3>. QED
      BY <1>3, <2>1, <3>2
  <2>4. ASSUME NEW a \in 1 .. m, NEW b \in 1 .. n, NEW u \in DOMAIN g[a], NEW v \in DOMAIN h[b]
        PROVE  g[a][u] # h[b][v]
    <3>1. g[a] \in Seq(S) /\ h[b] \in Seq(T)
      BY <1>5, <1>6
    <3>2. g[a][u] \in S /\ h[b][v] \in T
      BY <3>1
    <3>. QED
      BY <3>2
  <2>5. CASE k <= m /\ l > m
    <3>1. /\ (g \o h)[k] = g[k] /\ (g \o h)[l] = h[l - m] /\ k \in 1 .. m /\ l - m \in 1 .. n
      BY <1>3, <1>4, <2>1, <2>5
    <3>. QED
      BY <1>8, <2>4, <3>1
  <2>6. CASE k > m /\ l <= m
    <3>1. /\ (g \o h)[k] = h[k - m] /\ (g \o h)[l] = g[l] /\ l \in 1 .. m /\ k - m \in 1 .. n
      BY <1>3, <1>4, <2>1, <2>6
    <3>. QED
      BY <1>8, <2>4, <3>1
  <2>. QED
    BY <1>3, <2>1, <2>2, <2>3, <2>5, <2>6
<1>. QED
  BY <1>3, <1>7, <1>8 DEF Parts, N

(* Groups of the items of each group of b are groups of the items of all. *)
LEMMA FlattenParts ==
  ASSUME NEW S, NEW b, Parts(b, S), NEW q, NEW n \in Nat, DOMAIN b = 1 .. n,
         q = [k \in 1 .. n |-> q[k]], \A k \in 1 .. n : Parts(q[k], ItemsOf(b[k]))
  PROVE  Parts(FlattenSeq(q), S)
<1>. DEFINE N == Seq(S) \ {<<>>}
            flat == FlattenSeq(q)
<1>1. ASSUME NEW k \in 1 .. n PROVE q[k] \in Seq(N) /\ ItemsOf(b[k]) \subseteq S
  <2>. DEFINE I == ItemsOf(b[k])
              M == Seq(I) \ {<<>>}
  <2>1. b[k] \in Seq(S)
    <3>1. b \in Seq(N)
      BY DEF Parts
    <3>. HIDE DEF N
    <3>2. b[k] \in N
      BY <3>1
    <3>. QED
      BY <3>2 DEF N
  <2>2. I \subseteq S
    BY <2>1 DEF ItemsOf
  <2>. HIDE DEF I
  <2>3. M \subseteq N
    BY <2>2
  <2>4. q[k] \in Seq(M)
    BY DEF Parts, I
  <2>. HIDE DEF M, N
  <2>. QED
    BY <2>2, <2>3, <2>4, SeqMonotonic DEF I
<1>. HIDE DEF N
<1>2. q \in Seq(Seq(N)) /\ Len(q) = n
  <2>1. q \in [1 .. n -> Seq(N)]
    BY <1>1
  <2>. QED
    BY <2>1
<1>3. flat \in Seq(N) /\ \E at \in [1 .. n -> Nat] : InPlace(flat, q, at, n)
  BY <1>2, FlattenPlaces
<1>4. PICK at \in [1 .. n -> Nat] : InPlace(flat, q, at, n)
  BY <1>3
<1>5. DOMAIN flat = 1 .. Len(flat) /\ \A k \in 1 .. n : DOMAIN q[k] = 1 .. Len(q[k])
  <2>1. \A k \in 1 .. n : q[k] \in Seq(N)
    BY <1>1
  <2>. HIDE DEF flat
  <2>. QED
    BY <1>3, <2>1, LenProperties
<1>. HIDE DEF flat
<1>6. ASSUME NEW i \in S PROVE \E k \in DOMAIN flat : i \in ToSet(flat[k])
  <2>1. PICK k \in 1 .. n : i \in ToSet(b[k])
    BY DEF Parts
  <2>2. i \in ItemsOf(b[k])
    BY <2>1 DEF ItemsOf, ToSet
  <2>3. PICK x \in DOMAIN q[k] : i \in ToSet(q[k][x])
    BY <2>2 DEF Parts
  <2>4. at[k] + x \in 1 .. Len(flat) /\ flat[at[k] + x] = q[k][x]
    BY <1>4, <1>5, <2>3 DEF InPlace
  <2>. QED
    BY <1>5, <2>3, <2>4
<1>7. ASSUME NEW c \in DOMAIN flat, NEW d \in DOMAIN flat, NEW x \in DOMAIN flat[c],
             NEW y \in DOMAIN flat[d], flat[c][x] = flat[d][y]
      PROVE  c = d /\ x = y
  <2>1. PICK k \in 1 .. n : \E u \in 1 .. Len(q[k]) : c = at[k] + u
    BY <1>4, <1>5 DEF InPlace
  <2>10. PICK u \in 1 .. Len(q[k]) : c = at[k] + u
    BY <2>1
  <2>2. PICK l \in 1 .. n : \E v \in 1 .. Len(q[l]) : d = at[l] + v
    BY <1>4, <1>5 DEF InPlace
  <2>20. PICK v \in 1 .. Len(q[l]) : d = at[l] + v
    BY <2>2
  <2>3. flat[c] = q[k][u] /\ flat[d] = q[l][v]
    BY <1>4, <2>10, <2>20 DEF InPlace
  <2>4. u \in DOMAIN q[k] /\ v \in DOMAIN q[l]
    BY <1>5
  <2>. DEFINE i == flat[c][x]
  <2>5. i \in ItemsOf(b[k]) /\ i \in ItemsOf(b[l])
    <3>1. ASSUME NEW j \in 1 .. n, NEW w \in DOMAIN q[j], NEW z \in DOMAIN q[j][w]
          PROVE  q[j][w][z] \in ItemsOf(b[j])
      <4>. DEFINE I == ItemsOf(b[j])
                  M == Seq(I) \ {<<>>}
      <4>1. q[j] \in Seq(M)
        BY DEF Parts
      <4>2. q[j][w] \in M
        <5>. HIDE DEF M
        <5>. QED
          BY <4>1
      <4>3. q[j][w] \in Seq(I)
        BY <4>2
      <4>. HIDE DEF I, M
      <4>. QED
        BY <4>3 DEF I
    <3>. QED
      BY <1>7, <2>3, <2>4, <3>1
  <2>6. k = l
    <3>1. PICK s \in DOMAIN b[k] : b[k][s] = i
      BY <2>5 DEF ItemsOf
    <3>2. PICK t \in DOMAIN b[l] : b[l][t] = i
      BY <2>5 DEF ItemsOf
    <3>. HIDE DEF i
    <3>. QED
      BY <3>1, <3>2 DEF Parts
  <2>7. Parts(q[k], ItemsOf(b[k]))
    OBVIOUS
  <2>8. u = v /\ x = y
    BY <1>7, <2>3, <2>4, <2>6, <2>7 DEF Parts
  <2>. QED
    BY <2>10, <2>20, <2>6, <2>8
<1>. QED
  BY <1>3, <1>6, <1>7 DEF Parts, N, flat

(* A chain takes spans that no chain took before, each once.               *)
LEMMA MembersAreUnused ==
  ASSUME NEW R, NEW spans \in Seq(R), NEW Q, NEW chain \in Seq(Q), NEW used
  PROVE  /\ MembersOf(spans, chain, used) \in Seq(DOMAIN spans \ used)
         /\ IsInjective(MembersOf(spans, chain, used))
<1>. DEFINE n == Len(chain)
            D == DOMAIN spans
            X == {g \in Seq(D \ used) : IsInjective(g)}
            F(g, link) == {i \in D : i \notin used \cup ToSet(g) /\ Touches(spans[i].span, link)}
            More(g, link) == g \o Filter([i \in D |-> i], F(g, link))
            base == <<>>
            step == [k \in 1 .. n |-> [x \in X |-> More(x, chain[k])]]
            Taken(it) == it = [S \in SUBSET (DOMAIN chain) |->
                                 IF S = {} THEN base ELSE More(it[S \ {Max(S)}], chain[Max(S)])]
            fold == CHOOSE it : Taken(it)
<1>1. n \in Nat /\ DOMAIN chain = 1 .. n /\ Len(spans) \in Nat /\ D = 1 .. Len(spans)
  OBVIOUS
<1>2. base \in X
  BY DEF IsInjective
<1>3. ASSUME NEW g \in X, NEW link PROVE More(g, link) \in X
  <2>. DEFINE more == Filter([i \in D |-> i], F(g, link))
  <2>1. more \in Seq(F(g, link)) /\ ItemsOf(more) = F(g, link) /\ IsInjective(more)
    <3>1. F(g, link) \in SUBSET (1 .. Len(spans))
      BY <1>1
    <3>. HIDE DEF F
    <3>. QED
      BY <1>1, <3>1, Firsts
  <2>2. F(g, link) \subseteq D \ used /\ F(g, link) \cap ItemsOf(g) = {}
    BY DEF ItemsOf, ToSet
  <2>3. g \in Seq(D \ used) /\ IsInjective(g)
    OBVIOUS
  <2>. HIDE DEF F, D, more
  <2>4. more \in Seq(D \ used)
    BY <2>1, <2>2, SeqMonotonic
  <2>. QED
    BY <2>1, <2>2, <2>3, <2>4, ConcatDistinct DEF more
<1>. HIDE DEF X, More, F, D, base
<1>4. step \in [1 .. n -> [X -> X]]
  BY <1>3
<1>5. Taken(fold)
  <2>1. PICK it \in [SUBSET (1 .. n) -> X] : TakesGreatest(it, n, base, step)
    <3>. HIDE DEF n, step
    <3>. QED
      BY <1>1, <1>2, <1>4, TakingExists
  <2>2. ASSUME NEW S \in SUBSET (1 .. n)
        PROVE  it[S] = IF S = {} THEN base ELSE More(it[S \ {Max(S)}], chain[Max(S)])
    <3>1. CASE S # {}
      <4>1. Max(S) \in S /\ it[S \ {Max(S)}] \in X
        <5>. HIDE DEF n
        <5>1. Max(S) \in S
          BY <1>1, <3>1, GreatestIsThere
        <5>. QED
          BY <5>1
      <4>. QED
        BY <2>1, <3>1, <4>1 DEF TakesGreatest
    <3>. QED
      BY <2>1, <3>1 DEF TakesGreatest
  <2>3. Taken(it)
    <3>. HIDE DEF n
    <3>. QED
      BY <1>1, <2>2
  <2>. HIDE DEF Taken
  <2>. QED
    BY <2>3
<1>6. PICK f \in [0 .. n -> X] : FoldsTo(f, n, base, step) /\ fold[1 .. n] = f[n]
  <2>1. fold = [S \in SUBSET (1 .. n) |-> IF S = {} THEN base ELSE More(fold[S \ {Max(S)}], chain[Max(S)])]
    <3>. HIDE DEF fold
    <3>. QED
      BY <1>1, <1>5
  <2>. HIDE DEF fold
  <2>2. fold[{}] = base
    BY <2>1
  <2>3. ASSUME NEW S \in SUBSET (1 .. n), S # {}, fold[S \ {Max(S)}] \in X
        PROVE  fold[S] = step[Max(S)][fold[S \ {Max(S)}]]
    <3>. HIDE DEF n
    <3>1. Max(S) \in S
      BY <1>1, <2>3, GreatestIsThere
    <3>2. fold[S] = More(fold[S \ {Max(S)}], chain[Max(S)])
      BY <2>1, <2>3
    <3>3. step[Max(S)] = [x \in X |-> More(x, chain[Max(S)])]
      BY <3>1
    <3>. QED
      BY <2>3, <3>2, <3>3
  <2>. HIDE DEF n, step
  <2>4. \A S \in SUBSET (1 .. n) :
          S # {} /\ fold[S \ {Max(S)}] \in X => fold[S] = step[Max(S)][fold[S \ {Max(S)}]]
    BY <2>3
  <2>5. TakesSteps(fold, n, X, base, step)
    BY <2>2, <2>4 DEF TakesSteps
  <2>. QED
    BY <1>1, <1>2, <1>4, <2>5, TakingFolds
<1>7. MembersOf(spans, chain, used) = fold[DOMAIN chain]
  BY DEF MembersOf, FoldLeft, MapThenFoldSet, More, F, D, base
<1>8. fold[DOMAIN chain] \in X
  <2>. HIDE DEF fold
  <2>. QED
    BY <1>1, <1>6
<1>. QED
  BY <1>7, <1>8 DEF X, D

(* Each group of g lies in one of b. *)
Finer(g, b) == \A c \in DOMAIN g : \E k \in DOMAIN b : ItemsOf(g[c]) \subseteq ItemsOf(b[k])

(* Groups of the items of each group, in one sequence, are finer groups.   *)
LEMMA FlattenFiner ==
  ASSUME NEW S, NEW b, Parts(b, S), NEW q, NEW n \in Nat, DOMAIN b = 1 .. n,
         q = [k \in 1 .. n |-> q[k]], \A k \in 1 .. n : Parts(q[k], ItemsOf(b[k]))
  PROVE  Finer(FlattenSeq(q), b)
<1>. DEFINE All == UNION {ItemsOf(b[k]) : k \in 1 .. n}
            N == Seq(All) \ {<<>>}
            flat == FlattenSeq(q)
<1>1. ASSUME NEW k \in 1 .. n PROVE q[k] \in Seq(N) /\ \A c \in DOMAIN q[k] : ItemsOf(q[k][c]) \subseteq ItemsOf(b[k])
  <2>. DEFINE I == ItemsOf(b[k])
              M == Seq(I) \ {<<>>}
  <2>1. I \subseteq All
    OBVIOUS
  <2>2. q[k] \in Seq(M)
    BY DEF Parts
  <2>. HIDE DEF I, All
  <2>3. M \subseteq N
    BY <2>1
  <2>4. \A g \in M : ItemsOf(g) \subseteq I
    BY DEF ItemsOf
  <2>. HIDE DEF M, N
  <2>5. q[k] \in Seq(N)
    BY <2>2, <2>3, SeqMonotonic
  <2>6. \A c \in DOMAIN q[k] : q[k][c] \in M
    BY <2>2
  <2>. QED
    BY <2>4, <2>5, <2>6 DEF I
<1>. HIDE DEF N, All
<1>2. q \in Seq(Seq(N)) /\ Len(q) = n
  <2>1. q \in [1 .. n -> Seq(N)]
    BY <1>1
  <2>. QED
    BY <2>1
<1>3. flat \in Seq(N) /\ \E at \in [1 .. n -> Nat] : InPlace(flat, q, at, n)
  BY <1>2, FlattenPlaces
<1>4. PICK at \in [1 .. n -> Nat] : InPlace(flat, q, at, n)
  BY <1>3
<1>5. DOMAIN flat = 1 .. Len(flat) /\ \A k \in 1 .. n : DOMAIN q[k] = 1 .. Len(q[k])
  <2>1. \A k \in 1 .. n : q[k] \in Seq(N)
    BY <1>1
  <2>. HIDE DEF flat
  <2>. QED
    BY <1>3, <2>1, LenProperties
<1>. HIDE DEF flat
<1>6. ASSUME NEW c \in DOMAIN flat PROVE \E k \in DOMAIN b : ItemsOf(flat[c]) \subseteq ItemsOf(b[k])
  <2>1. PICK k \in 1 .. n : \E u \in 1 .. Len(q[k]) : c = at[k] + u
    BY <1>4, <1>5 DEF InPlace
  <2>2. PICK u \in 1 .. Len(q[k]) : c = at[k] + u
    BY <2>1
  <2>3. flat[c] = q[k][u]
    BY <1>4, <2>2 DEF InPlace
  <2>. QED
    BY <1>1, <1>5, <2>3
<1>. QED
  BY <1>6 DEF Finer, flat

(* Finer groups of groups of one type are of one type.                     *)
LEMMA FinerKeepsTypes ==
  ASSUME NEW spans, NEW g, NEW b, Finer(g, b), OneType(spans, b)
  PROVE  OneType(spans, g)
<1>. SUFFICES ASSUME NEW c \in DOMAIN g, NEW x \in DOMAIN g[c], NEW y \in DOMAIN g[c]
              PROVE  spans[g[c][x]].type = spans[g[c][y]].type
  BY DEF OneType
<1>1. PICK k \in DOMAIN b : ItemsOf(g[c]) \subseteq ItemsOf(b[k])
  BY DEF Finer
<1>2. g[c][x] \in ItemsOf(b[k]) /\ g[c][y] \in ItemsOf(b[k])
  BY <1>1 DEF ItemsOf
<1>3. PICK u \in DOMAIN b[k] : b[k][u] = g[c][x]
  BY <1>2 DEF ItemsOf
<1>4. PICK v \in DOMAIN b[k] : b[k][v] = g[c][y]
  BY <1>2 DEF ItemsOf
<1>. QED
  BY <1>3, <1>4 DEF OneType

(* ByType gives groups of its members, each of one type.                   *)
LEMMA TypesPart ==
  ASSUME NEW spans, NEW ms \in Seq(DOMAIN spans), IsInjective(ms)
  PROVE  Parts(ByType(spans, ms), ItemsOf(ms)) /\ OneType(spans, ByType(spans, ms))
<1>. DEFINE S == ItemsOf(ms)
            C == [i \in ToSet(ms) |-> {j \in DOMAIN spans : spans[j].type = spans[i].type}]
<1>1. S = ToSet(ms) /\ S \subseteq DOMAIN spans /\ ms \in Seq(S)
  BY ItemsAreIn DEF ItemsOf, ToSet
<1>2. \A i \in S : i \in C[i]
  BY <1>1
<1>3. \A i, j \in S : j \in C[i] => C[j] = C[i]
  BY <1>1
<1>4. ByType(spans, ms) = ByClass(ms, C)
  BY DEF ByType
<1>5. \A k \in DOMAIN ByClass(ms, C) : \E i \in S : ItemsOf(ByClass(ms, C)[k]) \subseteq C[i]
  <2>. HIDE DEF C, S
  <2>. QED
    BY <1>1, <1>2, <1>3, ClassesAreClasses
<1>6. Parts(ByClass(ms, C), S)
  <2>. HIDE DEF C, S
  <2>1. Parts(ByClass(ms, C), ItemsOf(ms))
    BY <1>1, <1>2, <1>3, ClassesPart
  <2>. QED
    BY <2>1 DEF S
<1>7. OneType(spans, ByType(spans, ms))
  <2>. SUFFICES ASSUME NEW k \in DOMAIN ByClass(ms, C), NEW x \in DOMAIN ByClass(ms, C)[k], NEW y \in DOMAIN ByClass(ms, C)[k]
                PROVE  spans[ByClass(ms, C)[k][x]].type = spans[ByClass(ms, C)[k][y]].type
    BY <1>4 DEF OneType
  <2>1. PICK i \in S : ItemsOf(ByClass(ms, C)[k]) \subseteq C[i]
    BY <1>5
  <2>2. ByClass(ms, C)[k][x] \in C[i] /\ ByClass(ms, C)[k][y] \in C[i]
    <3>. HIDE DEF C, S
    <3>. QED
      BY <2>1 DEF ItemsOf
  <2>3. C[i] = {j \in DOMAIN spans : spans[j].type = spans[i].type}
    BY <1>1
  <2>. HIDE DEF C
  <2>. QED
    BY <2>2, <2>3
<1>. QED
  BY <1>4, <1>6, <1>7

(* No word is in two clusters: its root is one word.                       *)
LEMMA ClustersApart ==
  ASSUME NEW links, NEW c \in LinkClusters(links), NEW d \in LinkClusters(links), NEW i \in c, i \in d
  PROVE  c = d
<1>. DEFINE words == {l[1] : l \in ToSet(links)} \cup {l[2] : l \in ToSet(links)}
            Root(parent, x) ==
              LET up[k \in 0..Cardinality(words)] == IF k = 0 THEN x ELSE parent[up[k - 1]]
              IN  up[Cardinality(words)]
            forest == FoldLeft(LAMBDA p, l : [p EXCEPT ![Root(p, l[1])] = Root(p, l[2])],
                         [w \in words |-> w], links)
            R(v) == Root(forest, v)
<1>1. LinkClusters(links) = {e \in {{v \in words : R(v) = r} : r \in words} : Cardinality(e) > 1}
  BY DEF LinkClusters
<1>. HIDE DEF R, words
<1>2. PICK r \in words : c = {v \in words : R(v) = r}
  BY <1>1
<1>3. PICK s \in words : d = {v \in words : R(v) = s}
  BY <1>1
<1>. QED
  BY <1>2, <1>3

(* So InClusters gives groups of its members.                              *)
LEMMA ClustersPart ==
  ASSUME NEW S, NEW ms \in Seq(S), IsInjective(ms), NEW links
  PROVE  Parts(InClusters(ms, LinkClusters(links)), ItemsOf(ms))
<1>. DEFINE M == ItemsOf(ms)
            L == LinkClusters(links)
            C == [i \in ToSet(ms) |-> {i} \cup UNION {c \in L : i \in c}]
<1>1. M = ToSet(ms) /\ ms \in Seq(M)
  BY ItemsAreIn DEF ItemsOf, ToSet
<1>2. \A i \in M : i \in C[i]
  BY <1>1
<1>3. ASSUME NEW i \in M, NEW j \in M, j \in C[i] PROVE C[j] = C[i]
  <2>. HIDE DEF L, M
  <2>1. C[i] = {i} \cup UNION {c \in L : i \in c} /\ C[j] = {j} \cup UNION {c \in L : j \in c}
    BY <1>1
  <2>2. CASE i = j
    BY <2>2
  <2>3. CASE i # j
    <3>1. PICK c \in L : i \in c /\ j \in c
      BY <1>3, <2>1, <2>3
    <3>2. \A d \in L : i \in d \/ j \in d => d = c
      BY <3>1, ClustersApart DEF L
    <3>3. C[i] = c /\ C[j] = c
      <4>. HIDE DEF C
      <4>. QED
        BY <2>1, <3>1, <3>2
    <3>. QED
      BY <3>3
  <2>. QED
    BY <2>2, <2>3
<1>4. InClusters(ms, L) = ByClass(ms, C)
  BY DEF InClusters
<1>5. Parts(ByClass(ms, C), ItemsOf(ms))
  <2>. HIDE DEF C, M
  <2>. QED
    BY <1>1, <1>2, <1>3, ClassesPart
<1>. QED
  BY <1>4, <1>5

(* Alone or by compatible names, the members of each type are parted. *)
LEMMA GroupsPart ==
  ASSUME NEW D, NEW S \in SUBSET D, NEW b, Parts(b, S), NEW tokens, NEW spans, NEW mode
  PROVE  Parts(GroupsOf(tokens, spans, b, mode), S) /\ Finer(GroupsOf(tokens, spans, b, mode), b)
<1>. DEFINE N == Seq(S) \ {<<>>}
            n == Len(b)
            q == [k \in DOMAIN b |-> SplitByCompatibleNames(tokens, spans, b[k])]
<1>1. n \in Nat /\ DOMAIN b = 1 .. n /\ \A k \in 1 .. n : b[k] \in N
  <2>1. b \in Seq(N)
    BY DEF Parts
  <2>. HIDE DEF N
  <2>. QED
    BY <2>1, ElementOfSeq, LenProperties
<1>2. ASSUME NEW k \in 1 .. n PROVE Parts(q[k], ItemsOf(b[k]))
  <2>1. b[k] \in Seq(S)
    BY <1>1
  <2>2. IsInjective(b[k])
    BY <1>1 DEF Parts, IsInjective
  <2>3. \A links : Parts(InClusters(b[k], LinkClusters(links)), ItemsOf(b[k]))
    BY <2>1, <2>2, ClustersPart
  <2>4. q[k] = SplitByCompatibleNames(tokens, spans, b[k])
    BY <1>1
  <2>. HIDE DEF q
  <2>. QED
    BY <2>3, <2>4 DEF SplitByCompatibleNames
<1>3. Parts(FlattenSeq(q), S) /\ Finer(FlattenSeq(q), b)
  <2>1. q = [k \in 1 .. n |-> q[k]]
    BY <1>1
  <2>. HIDE DEF q, n
  <2>2. Parts(FlattenSeq(q), S)
    BY <1>1, <1>2, <2>1, FlattenParts
  <2>3. Finer(FlattenSeq(q), b)
    BY <1>1, <1>2, <2>1, FlattenFiner
  <2>. QED
    BY <2>2, <2>3
<1>4. Finer(b, b)
  BY DEF Finer
<1>. QED
  BY <1>3, <1>4 DEF GroupsOf

(* What the chains so far have made of the spans. *)
ChainsTook(spans) ==
  {acc \in [used : SUBSET DOMAIN spans, groups : Seq(Seq(DOMAIN spans) \ {<<>>})] :
     Parts(acc.groups, acc.used) /\ OneType(spans, acc.groups)}

TakenBy(tokens, spans, acc, members, mode) ==
  [used |-> acc.used \cup ToSet(members),
   groups |-> acc.groups \o GroupsOf(tokens, spans, ByType(spans, members), mode)]

(* Groups of items of a set are groups of items of a wider one.            *)
LEMMA WiderParts ==
  ASSUME NEW D, NEW S \in SUBSET D, NEW g, Parts(g, S)
  PROVE  g \in Seq(Seq(D) \ {<<>>})
<1>. DEFINE M == Seq(S) \ {<<>>}
            N == Seq(D) \ {<<>>}
<1>1. M \subseteq N
  BY SeqMonotonic
<1>2. g \in Seq(M)
  BY DEF Parts
<1>. HIDE DEF M, N
<1>3. g \in Seq(N)
  BY <1>1, <1>2, SeqMonotonic
<1>. QED
  BY <1>3 DEF N

(* Two sequences of groups of one type each, together.                     *)
LEMMA ConcatTypes ==
  ASSUME NEW N, NEW g \in Seq(N), NEW h \in Seq(N), NEW spans, OneType(spans, g), OneType(spans, h)
  PROVE  OneType(spans, g \o h)
<1>1. /\ Len(g) \in Nat /\ Len(h) \in Nat /\ DOMAIN g = 1 .. Len(g) /\ DOMAIN h = 1 .. Len(h)
      /\ DOMAIN (g \o h) = 1 .. Len(g) + Len(h)
      /\ \A k \in 1 .. Len(g) + Len(h) : (g \o h)[k] = IF k <= Len(g) THEN g[k] ELSE h[k - Len(g)]
  BY LenProperties, ConcatProperties
<1>2. ASSUME NEW k \in 1 .. Len(g) + Len(h), NEW x \in DOMAIN (g \o h)[k], NEW y \in DOMAIN (g \o h)[k]
      PROVE  spans[(g \o h)[k][x]].type = spans[(g \o h)[k][y]].type
  <2>1. CASE k <= Len(g)
    <3>1. k \in DOMAIN g /\ (g \o h)[k] = g[k]
      BY <1>1, <2>1
    <3>. QED
      BY <1>2, <3>1 DEF OneType
  <2>2. CASE ~(k <= Len(g))
    <3>1. k - Len(g) \in DOMAIN h /\ (g \o h)[k] = h[k - Len(g)]
      BY <1>1, <2>2
    <3>. QED
      BY <1>2, <3>1 DEF OneType
  <2>. QED
    BY <2>1, <2>2
<1>. QED
  BY <1>1, <1>2 DEF OneType

(* Taking the members of one more chain keeps what chains took.            *)
LEMMA ChainTakes ==
  ASSUME NEW tokens, NEW R, NEW spans \in Seq(R), NEW mode, NEW acc \in ChainsTook(spans),
         NEW ms \in Seq(DOMAIN spans \ acc.used), IsInjective(ms)
  PROVE  TakenBy(tokens, spans, acc, ms, mode) \in ChainsTook(spans)
<1>. DEFINE D == DOMAIN spans
            S == ItemsOf(ms)
            types == ByType(spans, ms)
            more == GroupsOf(tokens, spans, types, mode)
            next == acc.groups \o more
<1>1. /\ acc.used \in SUBSET D /\ acc.groups \in Seq(Seq(D) \ {<<>>})
      /\ Parts(acc.groups, acc.used) /\ OneType(spans, acc.groups)
  BY DEF ChainsTook
<1>2. S \subseteq D \ acc.used /\ S = ToSet(ms)
  BY ItemsAreIn DEF ItemsOf, ToSet
<1>3. ms \in Seq(D)
  BY SeqMonotonic
<1>4. Parts(types, S) /\ OneType(spans, types)
  BY <1>3, TypesPart
<1>5. Parts(more, S) /\ Finer(more, types)
  <2>. HIDE DEF types, S
  <2>. QED
    BY <1>2, <1>4, GroupsPart
<1>6. OneType(spans, more)
  <2>. HIDE DEF types, more
  <2>. QED
    BY <1>4, <1>5, FinerKeepsTypes
<1>. HIDE DEF S, more
<1>7. Parts(next, acc.used \cup S)
  BY <1>1, <1>2, <1>5, ConcatParts
<1>8. more \in Seq(Seq(D) \ {<<>>})
  BY <1>2, <1>5, WiderParts
<1>9. next \in Seq(Seq(D) \ {<<>>})
  <2>. DEFINE N == Seq(D) \ {<<>>}
  <2>1. acc.groups \in Seq(N) /\ more \in Seq(N)
    BY <1>1, <1>8
  <2>. HIDE DEF N
  <2>2. next \in Seq(N)
    BY <2>1, ConcatProperties
  <2>. QED
    BY <2>2 DEF N
<1>10. OneType(spans, next)
  BY <1>1, <1>6, <1>8, ConcatTypes
<1>11. TakenBy(tokens, spans, acc, ms, mode) = [used |-> acc.used \cup S, groups |-> next]
  BY <1>2 DEF TakenBy, more
<1>. HIDE DEF next, D
<1>12. acc.used \cup S \in SUBSET D
  BY <1>1, <1>2
<1>13. [used |-> acc.used \cup S, groups |-> next] \in ChainsTook(spans)
  <2>. DEFINE N == Seq(DOMAIN spans) \ {<<>>}
              r == [used |-> acc.used \cup S, groups |-> next]
  <2>1. next \in Seq(N) /\ acc.used \cup S \in SUBSET DOMAIN spans
    BY <1>9, <1>12 DEF D
  <2>. HIDE DEF N
  <2>2. r \in [used : SUBSET DOMAIN spans, groups : Seq(N)]
    BY <2>1
  <2>3. Parts(r.groups, r.used) /\ OneType(spans, r.groups)
    BY <1>7, <1>10
  <2>. HIDE DEF r
  <2>4. r \in ChainsTook(spans)
    BY <2>2, <2>3 DEF ChainsTook, N
  <2>. QED
    BY <2>4 DEF r
<1>. QED
  BY <1>11, <1>13

(* Spans that no chain took are entities of their own. *)
LEMMA AloneParts ==
  ASSUME NEW R, NEW spans \in Seq(R), NEW acc \in ChainsTook(spans)
  PROVE  Parts(Alone(spans, acc), DOMAIN spans) /\ OneType(spans, Alone(spans, acc))
<1>. DEFINE n == Len(spans)
            D == DOMAIN spans
            U == D \ acc.used
            id == [i \in 1 .. n |-> i]
            one == [i \in D |-> <<i>>]
            firsts == Filter(id, U)
            singles == Filter([i \in D |-> <<i>>], {<<i>> : i \in U})
<1>1. n \in Nat /\ D = 1 .. n /\ U \in SUBSET (1 .. n)
  OBVIOUS
<1>2. firsts \in Seq(U) /\ ItemsOf(firsts) = U /\ IsInjective(firsts)
  <2>. HIDE DEF U
  <2>. QED
    BY <1>1, Firsts
<1>3. singles = Mapped(one, firsts)
  <2>1. id \in Seq(D) /\ DOMAIN id = D /\ \A i \in D : id[i] = i
    BY <1>1
  <2>2. Mapped(one, id) = one
    BY <1>1, <2>1 DEF Mapped
  <2>3. {i \in D : one[i] \in {<<j>> : j \in U}} = U
    <3>1. \A i, j \in D : <<i>> = <<j>> => i = j
      OBVIOUS
    <3>. QED
      BY <3>1
  <2>4. Filter(Mapped(one, id), {<<j>> : j \in U})
        = Mapped(one, Filter(id, {i \in D : one[i] \in {<<j>> : j \in U}}))
    <3>. DEFINE V == {<<j>> : j \in U}
    <3>. HIDE DEF V, one, id, D
    <3>1. Filter(Mapped(one, id), V) = Mapped(one, Filter(id, {i \in D : one[i] \in V}))
      BY <2>1, FilterMapped
    <3>. QED
      BY <3>1 DEF V
  <2>. QED
    BY <2>2, <2>3, <2>4
<1>4. DOMAIN firsts = 1 .. Len(firsts) /\ Len(firsts) \in Nat /\ \A k \in 1 .. Len(firsts) : firsts[k] \in U
  <2>. HIDE DEF firsts, U
  <2>. QED
    BY <1>2
<1>5. DOMAIN singles = 1 .. Len(firsts) /\ \A k \in 1 .. Len(firsts) : singles[k] = <<firsts[k]>>
  <2>. HIDE DEF firsts, singles
  <2>. QED
    BY <1>1, <1>3, <1>4 DEF Mapped
<1>6. Parts(singles, U) /\ OneType(spans, singles)
  <2>. DEFINE N == Seq(U) \ {<<>>}
  <2>. HIDE DEF singles, firsts, U
  <2>1. \A i \in U : <<i>> \in N
    OBVIOUS
  <2>2. singles \in Seq(N)
    <3>1. singles = [k \in 1 .. Len(firsts) |-> singles[k]]
      BY <1>3, <1>5 DEF Mapped
    <3>2. \A k \in 1 .. Len(firsts) : singles[k] \in N
      BY <1>4, <1>5, <2>1
    <3>. HIDE DEF N
    <3>3. singles \in [1 .. Len(firsts) -> N]
      BY <3>1, <3>2
    <3>. QED
      BY <1>4, <3>3
  <2>3. ASSUME NEW i \in U PROVE \E k \in DOMAIN singles : i \in ToSet(singles[k])
    <3>1. PICK k \in 1 .. Len(firsts) : firsts[k] = i
      BY <1>2, <1>4 DEF ItemsOf
    <3>2. i \in ToSet(<<i>>)
      BY DEF ToSet
    <3>. QED
      BY <1>5, <3>1, <3>2
  <2>4. ASSUME NEW k \in DOMAIN singles, NEW l \in DOMAIN singles, NEW x \in DOMAIN singles[k],
               NEW y \in DOMAIN singles[l], singles[k][x] = singles[l][y]
        PROVE  k = l /\ x = y
    <3>1. x = 1 /\ y = 1 /\ firsts[k] = firsts[l]
      <4>1. singles[k] = <<firsts[k]>> /\ singles[l] = <<firsts[l]>>
        BY <1>5
      <4>. QED
        BY <2>4, <4>1
    <3>. QED
      BY <1>2, <1>4, <1>5, <3>1 DEF IsInjective
  <2>5. OneType(spans, singles)
    <3>. SUFFICES ASSUME NEW k \in DOMAIN singles, NEW x \in DOMAIN singles[k], NEW y \in DOMAIN singles[k]
                  PROVE  x = y
      BY DEF OneType
    <3>1. singles[k] = <<firsts[k]>>
      BY <1>5
    <3>. QED
      BY <3>1
  <2>. QED
    BY <2>2, <2>3, <2>4, <2>5 DEF Parts
<1>7. /\ acc.used \in SUBSET D /\ acc.groups \in Seq(Seq(D) \ {<<>>})
      /\ Parts(acc.groups, acc.used) /\ OneType(spans, acc.groups)
  BY DEF ChainsTook
<1>8. Alone(spans, acc) = acc.groups \o singles
  BY DEF Alone
<1>. HIDE DEF singles
<1>9. Parts(acc.groups \o singles, acc.used \cup U)
  <2>1. acc.used \cap U = {}
    OBVIOUS
  <2>. HIDE DEF U
  <2>. QED
    BY <1>6, <1>7, <2>1, ConcatParts
<1>10. acc.used \cup U = D
  BY <1>7
<1>11. singles \in Seq(Seq(D) \ {<<>>})
  <2>1. U \in SUBSET D
    OBVIOUS
  <2>. HIDE DEF U
  <2>. QED
    BY <1>6, <2>1, WiderParts
<1>12. OneType(spans, acc.groups \o singles)
  BY <1>6, <1>7, <1>11, ConcatTypes
<1>. QED
  BY <1>8, <1>9, <1>10, <1>12

(* Step 2 of build_entities parts the spans, each group of one type. *)
LEMMA ChainsPart ==
  ASSUME NEW tokens, NEW R, NEW spans \in Seq(R), NEW Q, NEW chains \in Seq(Seq(Q)), NEW mode
  PROVE  /\ Parts(GroupByChains(tokens, spans, chains, mode), DOMAIN spans)
         /\ OneType(spans, GroupByChains(tokens, spans, chains, mode))
<1>. DEFINE seq == IF mode = "none" THEN <<>> ELSE chains
            n == Len(seq)
            X == ChainsTook(spans)
            base == [used |-> {}, groups |-> <<>>]
            Next1(acc, chain) == TakenBy(tokens, spans, acc, MembersOf(spans, chain, acc.used), mode)
            step == [k \in 1 .. n |-> [x \in X |-> Next1(x, seq[k])]]
            Taken(it) == it = [S \in SUBSET (DOMAIN seq) |->
                                 IF S = {} THEN base ELSE Next1(it[S \ {Max(S)}], seq[Max(S)])]
            fold == CHOOSE it : Taken(it)
<1>1. n \in Nat /\ DOMAIN seq = 1 .. n /\ \A k \in 1 .. n : seq[k] \in Seq(Q)
  <2>1. seq \in Seq(Seq(Q))
    OBVIOUS
  <2>. HIDE DEF seq
  <2>. QED
    BY <2>1
<1>2. base \in X
  <2>1. Parts(<<>>, {}) /\ OneType(spans, <<>>)
    BY DEF Parts, OneType
  <2>2. <<>> \in Seq(Seq(DOMAIN spans) \ {<<>>}) /\ {} \in SUBSET DOMAIN spans
    OBVIOUS
  <2>. QED
    BY <2>1, <2>2 DEF ChainsTook
<1>3. ASSUME NEW acc \in X, NEW k \in 1 .. n PROVE Next1(acc, seq[k]) \in X
  <2>1. /\ MembersOf(spans, seq[k], acc.used) \in Seq(DOMAIN spans \ acc.used)
        /\ IsInjective(MembersOf(spans, seq[k], acc.used))
    <3>. HIDE DEF seq
    <3>. QED
      BY <1>1, MembersAreUnused
  <2>. HIDE DEF seq
  <2>. QED
    BY <2>1, ChainTakes
<1>. HIDE DEF X, Next1, seq, base
<1>4. step \in [1 .. n -> [X -> X]]
  BY <1>3
<1>5. Taken(fold)
  <2>1. PICK it \in [SUBSET (1 .. n) -> X] : TakesGreatest(it, n, base, step)
    <3>. HIDE DEF n, step
    <3>. QED
      BY <1>1, <1>2, <1>4, TakingExists
  <2>2. ASSUME NEW S \in SUBSET (1 .. n)
        PROVE  it[S] = IF S = {} THEN base ELSE Next1(it[S \ {Max(S)}], seq[Max(S)])
    <3>1. CASE S # {}
      <4>1. Max(S) \in S /\ it[S \ {Max(S)}] \in X
        <5>. HIDE DEF n
        <5>1. Max(S) \in S
          BY <1>1, <3>1, GreatestIsThere
        <5>. QED
          BY <5>1
      <4>. QED
        BY <2>1, <3>1, <4>1 DEF TakesGreatest
    <3>. QED
      BY <2>1, <3>1 DEF TakesGreatest
  <2>3. Taken(it)
    <3>. HIDE DEF n
    <3>. QED
      BY <1>1, <2>2
  <2>. HIDE DEF Taken
  <2>. QED
    BY <2>3
<1>6. PICK f \in [0 .. n -> X] : FoldsTo(f, n, base, step) /\ fold[1 .. n] = f[n]
  <2>1. fold = [S \in SUBSET (1 .. n) |-> IF S = {} THEN base ELSE Next1(fold[S \ {Max(S)}], seq[Max(S)])]
    <3>. HIDE DEF fold
    <3>. QED
      BY <1>1, <1>5
  <2>. HIDE DEF fold
  <2>2. fold[{}] = base
    BY <2>1
  <2>3. ASSUME NEW S \in SUBSET (1 .. n), S # {}, fold[S \ {Max(S)}] \in X
        PROVE  fold[S] = step[Max(S)][fold[S \ {Max(S)}]]
    <3>. HIDE DEF n
    <3>1. Max(S) \in S
      BY <1>1, <2>3, GreatestIsThere
    <3>2. fold[S] = Next1(fold[S \ {Max(S)}], seq[Max(S)])
      BY <2>1, <2>3
    <3>3. step[Max(S)] = [x \in X |-> Next1(x, seq[Max(S)])]
      BY <3>1
    <3>. QED
      BY <2>3, <3>2, <3>3
  <2>. HIDE DEF n, step
  <2>4. \A S \in SUBSET (1 .. n) :
          S # {} /\ fold[S \ {Max(S)}] \in X => fold[S] = step[Max(S)][fold[S \ {Max(S)}]]
    BY <2>3
  <2>5. TakesSteps(fold, n, X, base, step)
    BY <2>2, <2>4 DEF TakesSteps
  <2>. QED
    BY <1>1, <1>2, <1>4, <2>5, TakingFolds
<1>7. GroupByChains(tokens, spans, chains, mode) = Alone(spans, fold[DOMAIN seq])
  BY DEF GroupByChains, FoldLeft, MapThenFoldSet, Next1, TakenBy, seq, base
<1>8. fold[DOMAIN seq] \in X
  <2>. HIDE DEF fold
  <2>. QED
    BY <1>1, <1>6
<1>9. fold[DOMAIN seq] \in ChainsTook(spans)
  BY <1>8 DEF X
<1>. HIDE DEF fold
<1>. QED
  BY <1>7, <1>9, AloneParts

(* Groups apart from each other, each of different items. *)
LEMMA PartsByItems ==
  ASSUME NEW S, NEW g \in Seq(Seq(S) \ {<<>>}),
         \A i \in S : \E k \in DOMAIN g : i \in ItemsOf(g[k]),
         \A k \in DOMAIN g : IsInjective(g[k]),
         \A k, l \in DOMAIN g : k # l => ItemsOf(g[k]) \cap ItemsOf(g[l]) = {}
  PROVE  Parts(g, S)
<1>1. \A i \in S : \E k \in DOMAIN g : i \in ToSet(g[k])
  BY DEF ItemsOf, ToSet
<1>2. ASSUME NEW k \in DOMAIN g, NEW l \in DOMAIN g, NEW x \in DOMAIN g[k], NEW y \in DOMAIN g[l],
             g[k][x] = g[l][y]
      PROVE  k = l /\ x = y
  <2>1. g[k][x] \in ItemsOf(g[k]) /\ g[k][x] \in ItemsOf(g[l])
    BY <1>2 DEF ItemsOf
  <2>2. k = l
    BY <2>1
  <2>. QED
    BY <1>2, <2>2 DEF IsInjective
<1>. QED
  BY <1>1, <1>2 DEF Parts

(* What Parts says of each group and of two of them.                       *)
LEMMA ItemsOfParts ==
  ASSUME NEW S, NEW g, Parts(g, S)
  PROVE  /\ \A k \in DOMAIN g : g[k] \in Seq(S) /\ g[k] # <<>> /\ IsInjective(g[k]) /\ ItemsOf(g[k]) \subseteq S
         /\ \A k, l \in DOMAIN g : k # l => ItemsOf(g[k]) \cap ItemsOf(g[l]) = {}
<1>. DEFINE N == Seq(S) \ {<<>>}
<1>1. g \in Seq(N)
  BY DEF Parts
<1>2. \A k \in DOMAIN g : g[k] \in N
  <2>. HIDE DEF N
  <2>. QED
    BY <1>1
<1>3. ASSUME NEW k \in DOMAIN g PROVE IsInjective(g[k])
  BY DEF Parts, IsInjective
<1>4. ASSUME NEW k \in DOMAIN g, NEW l \in DOMAIN g, NEW i \in ItemsOf(g[k]), i \in ItemsOf(g[l])
      PROVE  k = l
  <2>1. PICK x \in DOMAIN g[k] : g[k][x] = i
    BY DEF ItemsOf
  <2>2. PICK y \in DOMAIN g[l] : g[l][y] = i
    BY <1>4 DEF ItemsOf
  <2>. QED
    BY <2>1, <2>2 DEF Parts
<1>5. \A k \in DOMAIN g : ItemsOf(g[k]) \subseteq S
  BY <1>2, ItemsAreIn
<1>. QED
  BY <1>2, <1>3, <1>4, <1>5

(* Groups with one of them extended by a sequence of other items.          *)
LEMMA JoinParts ==
  ASSUME NEW S, NEW T, S \cap T = {}, NEW m, Parts(m, S), NEW g \in Seq(T), IsInjective(g),
         ItemsOf(g) = T, NEW c \in DOMAIN m
  PROVE  Parts([m EXCEPT ![c] = @ \o g], S \cup T)
<1>. DEFINE U == S \cup T
            N == Seq(U) \ {<<>>}
            h == [m EXCEPT ![c] = @ \o g]
<1>1. /\ \A k \in DOMAIN m : m[k] \in Seq(S) /\ m[k] # <<>> /\ IsInjective(m[k]) /\ ItemsOf(m[k]) \subseteq S
      /\ \A k, l \in DOMAIN m : k # l => ItemsOf(m[k]) \cap ItemsOf(m[l]) = {}
  BY ItemsOfParts
<1>2. /\ \A k \in DOMAIN m : m[k] \in N
      /\ g \in Seq(U)
  BY <1>1, SeqMonotonic
<1>3. m \in Seq(N) /\ DOMAIN m = 1 .. Len(m) /\ Len(m) \in Nat
  <2>1. m \in Seq(Seq(S) \ {<<>>})
    BY DEF Parts
  <2>2. DOMAIN m = 1 .. Len(m) /\ Len(m) \in Nat /\ m = [k \in 1 .. Len(m) |-> m[k]]
    BY <2>1
  <2>. HIDE DEF N
  <2>. QED
    BY <1>2, <2>2
<1>4. DOMAIN h = DOMAIN m /\ h[c] = m[c] \o g /\ \A k \in DOMAIN m : k # c => h[k] = m[k]
  BY <1>3
<1>5. /\ h[c] \in Seq(U) /\ h[c] # <<>> /\ IsInjective(h[c]) /\ ItemsOf(h[c]) = ItemsOf(m[c]) \cup T
  <2>1. m[c] \in Seq(U) /\ IsInjective(m[c]) /\ m[c] # <<>> /\ ItemsOf(m[c]) \cap ItemsOf(g) = {}
    BY <1>1, <1>2
  <2>2. m[c] \o g # <<>>
    <3>1. Len(m[c]) > 0 /\ Len(g) >= 0 /\ Len(m[c] \o g) = Len(m[c]) + Len(g)
      BY <1>2, <2>1
    <3>. QED
      BY <3>1
  <2>3. m[c] \o g \in Seq(U) /\ IsInjective(m[c] \o g) /\ ItemsOf(m[c] \o g) = ItemsOf(m[c]) \cup ItemsOf(g)
    <3>. HIDE DEF U
    <3>. QED
      BY <1>2, <2>1, ConcatDistinct
  <2>. QED
    BY <1>4, <2>2, <2>3
<1>. HIDE DEF h
<1>6. h \in Seq(N)
  <2>1. \A k \in 1 .. Len(m) : h[k] \in N
    BY <1>2, <1>3, <1>4, <1>5
  <2>2. h = [k \in 1 .. Len(m) |-> h[k]]
    BY <1>3 DEF h
  <2>. HIDE DEF N
  <2>3. h \in [1 .. Len(m) -> N]
    BY <2>1, <2>2
  <2>. QED
    BY <1>3, <2>3
<1>7. ASSUME NEW i \in U PROVE \E k \in DOMAIN h : i \in ItemsOf(h[k])
  <2>1. CASE i \in T
    BY <1>4, <1>5, <2>1
  <2>2. CASE i \in S
    <3>1. PICK k \in DOMAIN m : i \in ItemsOf(m[k])
      BY <2>2 DEF Parts, ItemsOf, ToSet
    <3>2. i \in ItemsOf(h[k])
      BY <1>4, <1>5, <3>1
    <3>. QED
      BY <1>4, <3>2
  <2>. QED
    BY <2>1, <2>2
<1>8. \A k \in DOMAIN h : IsInjective(h[k])
  BY <1>1, <1>4, <1>5
<1>9. ASSUME NEW k \in DOMAIN h, NEW l \in DOMAIN h, k # l PROVE ItemsOf(h[k]) \cap ItemsOf(h[l]) = {}
  <2>1. ItemsOf(m[k]) \cap ItemsOf(m[l]) = {} /\ ItemsOf(m[k]) \cap T = {} /\ ItemsOf(m[l]) \cap T = {}
    BY <1>1, <1>4, <1>9
  <2>2. /\ ItemsOf(h[k]) = ItemsOf(m[k]) \/ (ItemsOf(h[k]) = ItemsOf(m[k]) \cup T /\ k = c)
        /\ ItemsOf(h[l]) = ItemsOf(m[l]) \/ (ItemsOf(h[l]) = ItemsOf(m[l]) \cup T /\ l = c)
    BY <1>4, <1>5
  <2>. QED
    BY <1>9, <2>1, <2>2
<1>10. Parts(h, U)
  <2>. HIDE DEF U
  <2>. QED
    BY <1>6, <1>7, <1>8, <1>9, PartsByItems DEF N
<1>. QED
  BY <1>10 DEF h, U

(* Groups merged so far, and the names known for them. *)
KeyOf(tokens, spans, g) == <<spans[g[1]].type, Surface(tokens, spans[g[1]].span)>>

MergeOne(tokens, spans, acc, g) ==
  LET mergeable == spans[g[1]].type \in Mergeable
      known == {k \in acc.named : k[1] = KeyOf(tokens, spans, g)}
  IN  IF mergeable /\ Letters(tokens, spans[g[1]].span) > 2 /\ known # {}
      THEN [merged |-> [acc.merged EXCEPT ![(CHOOSE k \in known : TRUE)[2]] = @ \o g], named |-> acc.named]
      ELSE [merged |-> Append(acc.merged, g),
            named  |-> IF ~mergeable THEN acc.named
                       ELSE (acc.named \ known) \cup {<<KeyOf(tokens, spans, g), Len(acc.merged) + 1>>}]

Keys(tokens, spans) == {<<spans[i].type, Surface(tokens, spans[i].span)>> : i \in DOMAIN spans}

MergedSoFar(tokens, spans) ==
  {acc \in [merged : Seq(Seq(DOMAIN spans) \ {<<>>}), named : SUBSET (Keys(tokens, spans) \X Nat)] :
     /\ OneType(spans, acc.merged)
     /\ \A e \in acc.named : e[2] \in DOMAIN acc.merged /\ e[1][1] = spans[acc.merged[e[2]][1]].type}

(* MergeNames joins a group to the one of its name, or lists it.           *)
LEMMA MergeOneCases ==
  ASSUME NEW tokens, NEW spans, NEW acc \in MergedSoFar(tokens, spans), NEW g
  PROVE  \/ \E e \in acc.named :
              /\ e[1] = KeyOf(tokens, spans, g)
              /\ MergeOne(tokens, spans, acc, g) = [merged |-> [acc.merged EXCEPT ![e[2]] = @ \o g], named |-> acc.named]
         \/ \E named : /\ MergeOne(tokens, spans, acc, g) = [merged |-> Append(acc.merged, g), named |-> named]
                       /\ named \subseteq acc.named \cup {<<KeyOf(tokens, spans, g), Len(acc.merged) + 1>>}
<1>. DEFINE mergeable == spans[g[1]].type \in Mergeable
            key == KeyOf(tokens, spans, g)
            known == {k \in acc.named : k[1] = key}
            joins == mergeable /\ Letters(tokens, spans[g[1]].span) > 2 /\ known # {}
            named == IF ~mergeable THEN acc.named
                     ELSE (acc.named \ known) \cup {<<key, Len(acc.merged) + 1>>}
            e == CHOOSE k \in known : TRUE
<1>1. MergeOne(tokens, spans, acc, g)
      = IF joins THEN [merged |-> [acc.merged EXCEPT ![e[2]] = @ \o g], named |-> acc.named]
        ELSE [merged |-> Append(acc.merged, g), named |-> named]
  BY DEF MergeOne
<1>2. known # {} => e \in acc.named /\ e[1] = key
  OBVIOUS
<1>3. named \subseteq acc.named \cup {<<key, Len(acc.merged) + 1>>}
  OBVIOUS
<1>4. joins => known # {}
  OBVIOUS
<1>. HIDE DEF joins, named, e, known
<1>5. CASE joins
  BY <1>1, <1>2, <1>4, <1>5
<1>6. CASE ~joins
  BY <1>1, <1>3, <1>6
<1>. QED
  BY <1>5, <1>6

(* One merge keeps the types apart and the names true. *)
LEMMA MergeStays ==
  ASSUME NEW tokens, NEW spans, NEW acc \in MergedSoFar(tokens, spans),
         NEW g \in Seq(DOMAIN spans) \ {<<>>}, \A x \in DOMAIN g : spans[g[x]].type = spans[g[1]].type
  PROVE  MergeOne(tokens, spans, acc, g) \in MergedSoFar(tokens, spans)
<1>. DEFINE N == Seq(DOMAIN spans) \ {<<>>}
            K == Keys(tokens, spans)
            m == acc.merged
            key == KeyOf(tokens, spans, g)
            M == MergedSoFar(tokens, spans)
<1>1. /\ m \in Seq(N) /\ acc.named \in SUBSET (K \X Nat) /\ OneType(spans, m)
      /\ \A e \in acc.named : e[2] \in DOMAIN m /\ e[1][1] = spans[m[e[2]][1]].type
  BY DEF MergedSoFar
<1>2. key \in K /\ key[1] = spans[g[1]].type /\ 1 \in DOMAIN g /\ DOMAIN g = 1 .. Len(g) /\ Len(g) \in Nat
  <2>1. 1 \in DOMAIN g /\ g[1] \in DOMAIN spans
    OBVIOUS
  <2>. QED
    BY <2>1 DEF KeyOf, Keys
<1>3. g \in N /\ Len(m) \in Nat /\ DOMAIN m = 1 .. Len(m) /\ \A k \in DOMAIN m : m[k] \in N
  <2>1. g \in N
    OBVIOUS
  <2>. HIDE DEF N
  <2>. QED
    BY <1>1, <2>1
<1>4. \A k \in DOMAIN m : m[k] \in Seq(DOMAIN spans) /\ 1 \in DOMAIN m[k]
  BY <1>3
<1>5. ASSUME NEW merged \in Seq(N), NEW named \in SUBSET (K \X Nat), OneType(spans, merged),
             \A e \in named : e[2] \in DOMAIN merged /\ e[1][1] = spans[merged[e[2]][1]].type
      PROVE  [merged |-> merged, named |-> named] \in M
  BY <1>5 DEF MergedSoFar
<1>6. ASSUME NEW e \in acc.named, e[1] = key PROVE [merged |-> [acc.merged EXCEPT ![e[2]] = @ \o g], named |-> acc.named] \in M
  <2>. DEFINE c == e[2]
              h == [m EXCEPT ![c] = @ \o g]
  <2>1. c \in DOMAIN m /\ spans[m[c][1]].type = spans[g[1]].type
    BY <1>1, <1>2, <1>6
  <2>3. DOMAIN h = DOMAIN m /\ h[c] = m[c] \o g /\ \A k \in DOMAIN m : k # c => h[k] = m[k]
    BY <2>1
  <2>4. /\ m[c] \in Seq(DOMAIN spans) /\ m[c] # <<>> /\ m[c] \o g \in N
        /\ DOMAIN (m[c] \o g) = 1 .. Len(m[c]) + Len(g) /\ Len(m[c]) \in Nat /\ Len(g) \in Nat
        /\ \A x \in 1 .. Len(m[c]) + Len(g) :
             (m[c] \o g)[x] = IF x <= Len(m[c]) THEN m[c][x] ELSE g[x - Len(m[c])]
        /\ 1 <= Len(m[c]) /\ DOMAIN m[c] = 1 .. Len(m[c])
    <3>1. m[c] \in Seq(DOMAIN spans) /\ m[c] # <<>> /\ g \in Seq(DOMAIN spans)
      BY <1>3, <2>1
    <3>. HIDE DEF m, c
    <3>2. 1 <= Len(m[c]) /\ DOMAIN m[c] = 1 .. Len(m[c]) /\ Len(m[c]) \in Nat /\ Len(g) \in Nat
      BY <3>1
    <3>3. m[c] \o g \in Seq(DOMAIN spans) /\ Len(m[c] \o g) = Len(m[c]) + Len(g) /\ m[c] \o g # <<>>
      BY <3>1, <3>2
    <3>4. \A x \in 1 .. Len(m[c]) + Len(g) :
             (m[c] \o g)[x] = IF x <= Len(m[c]) THEN m[c][x] ELSE g[x - Len(m[c])]
      BY <3>1, ConcatProperties
    <3>. QED
      BY <3>1, <3>2, <3>3, <3>4
  <2>. HIDE DEF h
  <2>5. h \in Seq(N)
    <3>. HIDE DEF N
    <3>1. h = [k \in 1 .. Len(m) |-> h[k]]
      BY <1>3 DEF h
    <3>2. \A k \in 1 .. Len(m) : h[k] \in N
      BY <1>3, <2>3, <2>4
    <3>3. h \in [1 .. Len(m) -> N]
      BY <3>1, <3>2
    <3>. QED
      BY <1>3, <3>3
  <2>6. h[c][1] = m[c][1]
    BY <2>3, <2>4
  <2>7. \A x \in DOMAIN h[c] : spans[h[c][x]].type = spans[g[1]].type
    <3>. TAKE x \in DOMAIN h[c]
    <3>1. x \in 1 .. Len(m[c]) + Len(g)
      BY <2>3, <2>4
    <3>2. CASE x <= Len(m[c])
      <4>1. h[c][x] = m[c][x] /\ x \in DOMAIN m[c] /\ 1 \in DOMAIN m[c]
        BY <2>3, <2>4, <3>1, <3>2
      <4>2. spans[m[c][x]].type = spans[m[c][1]].type
        BY <1>1, <2>1, <4>1 DEF OneType
      <4>. QED
        BY <2>1, <4>1, <4>2
    <3>3. CASE x > Len(m[c])
      <4>1. h[c][x] = g[x - Len(m[c])] /\ x - Len(m[c]) \in DOMAIN g
        BY <1>2, <2>3, <2>4, <3>1, <3>3
      <4>. QED
        BY <4>1
    <3>. QED
      BY <2>4, <3>1, <3>2, <3>3
  <2>8. OneType(spans, h)
    <3>. SUFFICES ASSUME NEW k \in DOMAIN h, NEW x \in DOMAIN h[k], NEW y \in DOMAIN h[k]
                  PROVE  spans[h[k][x]].type = spans[h[k][y]].type
      BY DEF OneType
    <3>1. CASE k = c
      BY <2>7, <3>1
    <3>2. CASE k # c
      BY <1>1, <2>3, <3>2 DEF OneType
    <3>. QED
      BY <3>1, <3>2
  <2>9. \A d \in acc.named : d[2] \in DOMAIN h /\ d[1][1] = spans[h[d[2]][1]].type
    BY <1>1, <2>3, <2>6
  <2>10. [merged |-> h, named |-> acc.named] \in M
    <3>. HIDE DEF M, N, K
    <3>. QED
      BY <1>1, <1>5, <2>5, <2>8, <2>9
  <2>. QED
    BY <2>10 DEF h
<1>7. ASSUME NEW named, named \subseteq acc.named \cup {<<key, Len(m) + 1>>}
      PROVE  [merged |-> Append(m, g), named |-> named] \in M
  <2>. DEFINE h == Append(m, g)
  <2>1. /\ h \in Seq(N) /\ DOMAIN h = 1 .. Len(m) + 1 /\ h[Len(m) + 1] = g
        /\ \A k \in 1 .. Len(m) : h[k] = m[k]
    <3>. HIDE DEF N, m
    <3>. QED
      BY <1>1, <1>3
  <2>. HIDE DEF h
  <2>2. OneType(spans, h)
    <3>. SUFFICES ASSUME NEW k \in DOMAIN h, NEW x \in DOMAIN h[k], NEW y \in DOMAIN h[k]
                  PROVE  spans[h[k][x]].type = spans[h[k][y]].type
      BY DEF OneType
    <3>1. CASE k = Len(m) + 1
      BY <2>1, <3>1
    <3>2. CASE k # Len(m) + 1
      <4>1. k \in DOMAIN m /\ h[k] = m[k]
        BY <1>3, <2>1, <3>2
      <4>. QED
        BY <1>1, <4>1 DEF OneType
    <3>. QED
      BY <3>1, <3>2
  <2>3. named \in SUBSET (K \X Nat)
    BY <1>1, <1>2, <1>3, <1>7
  <2>4. ASSUME NEW d \in named PROVE d[2] \in DOMAIN h /\ d[1][1] = spans[h[d[2]][1]].type
    <3>1. CASE d \in acc.named
      <4>1. d[2] \in 1 .. Len(m) /\ d[1][1] = spans[m[d[2]][1]].type
        BY <1>1, <1>3, <3>1
      <4>. HIDE DEF m, key
      <4>2. d[2] \in DOMAIN h /\ h[d[2]] = m[d[2]]
        BY <1>3, <2>1, <4>1
      <4>. QED
        BY <4>1, <4>2
    <3>2. CASE d = <<key, Len(m) + 1>>
      BY <1>2, <1>3, <2>1, <3>2
    <3>. QED
      BY <1>7, <3>1, <3>2
  <2>5. [merged |-> h, named |-> named] \in M
    <3>. HIDE DEF M, N, K
    <3>. QED
      BY <1>5, <2>1, <2>2, <2>3, <2>4
  <2>. QED
    BY <2>5 DEF h
<1>8. \/ \E e \in acc.named : e[1] = key /\ MergeOne(tokens, spans, acc, g) = [merged |-> [acc.merged EXCEPT ![e[2]] = @ \o g], named |-> acc.named]
      \/ \E named : /\ MergeOne(tokens, spans, acc, g) = [merged |-> Append(m, g), named |-> named]
                    /\ named \subseteq acc.named \cup {<<key, Len(m) + 1>>}
  BY MergeOneCases
<1>9. MergeOne(tokens, spans, acc, g) \in M
  <2>. HIDE DEF M, key, m
  <2>1. CASE \E e \in acc.named : e[1] = key /\ MergeOne(tokens, spans, acc, g) = [merged |-> [acc.merged EXCEPT ![e[2]] = @ \o g], named |-> acc.named]
    BY <1>6, <2>1
  <2>2. CASE \E named : /\ MergeOne(tokens, spans, acc, g) = [merged |-> Append(m, g), named |-> named]
                        /\ named \subseteq acc.named \cup {<<key, Len(m) + 1>>}
    BY <1>7, <2>2
  <2>. QED
    BY <1>8, <2>1, <2>2
<1>. QED
  BY <1>9

(* One merge keeps the groups apart. *)
LEMMA MergeParts ==
  ASSUME NEW tokens, NEW spans, NEW acc \in MergedSoFar(tokens, spans), NEW S, NEW T, S \cap T = {},
         Parts(acc.merged, S), NEW g \in Seq(T), g # <<>>, IsInjective(g), ItemsOf(g) = T
  PROVE  Parts(MergeOne(tokens, spans, acc, g).merged, S \cup T)
<1>1. \A e \in acc.named : e[2] \in DOMAIN acc.merged
  BY DEF MergedSoFar
<1>2. ASSUME NEW e \in acc.named PROVE Parts([merged |-> [acc.merged EXCEPT ![e[2]] = @ \o g], named |-> acc.named].merged, S \cup T)
  <2>3. e[2] \in DOMAIN acc.merged
    BY <1>1
  <2>. QED
    BY <2>3, JoinParts
<1>3. Parts(Append(acc.merged, g), S \cup T)
  <2>1. Parts(<<g>>, T)
    <3>. DEFINE N == Seq(T) \ {<<>>}
    <3>1. g \in N
      OBVIOUS
    <3>. HIDE DEF N
    <3>2. <<g>> \in Seq(N)
      BY <3>1
    <3>3. DOMAIN <<g>> = {1} /\ <<g>>[1] = g
      OBVIOUS
    <3>. QED
      BY <3>2, <3>3, PartsByItems DEF N
  <2>2. Append(acc.merged, g) = acc.merged \o <<g>>
    <3>1. acc.merged \in Seq(Seq(S) \ {<<>>})
      BY DEF Parts
    <3>2. DOMAIN acc.merged = 1 .. Len(acc.merged) /\ Len(acc.merged) \in Nat
      BY <3>1
    <3>. QED
      BY <3>1, <3>2
  <2>. QED
    BY <2>1, <2>2, ConcatParts
<1>4. \/ \E e \in acc.named : MergeOne(tokens, spans, acc, g) = [merged |-> [acc.merged EXCEPT ![e[2]] = @ \o g], named |-> acc.named]
      \/ \E named : MergeOne(tokens, spans, acc, g) = [merged |-> Append(acc.merged, g), named |-> named]
  BY MergeOneCases
<1>5. CASE \E e \in acc.named : MergeOne(tokens, spans, acc, g) = [merged |-> [acc.merged EXCEPT ![e[2]] = @ \o g], named |-> acc.named]
  BY <1>2, <1>5
<1>6. CASE \E named : MergeOne(tokens, spans, acc, g) = [merged |-> Append(acc.merged, g), named |-> named]
  BY <1>3, <1>6
<1>. QED
  BY <1>4, <1>5, <1>6

(* Step 3 of build_entities parts them still. *)
LEMMA MergedParts ==
  ASSUME NEW tokens, NEW spans, NEW groups, Parts(groups, DOMAIN spans), OneType(spans, groups)
  PROVE  /\ Parts(MergeNames(tokens, spans, groups), DOMAIN spans)
         /\ OneType(spans, MergeNames(tokens, spans, groups))
<1>. DEFINE D == DOMAIN spans
            n == Len(groups)
            X == MergedSoFar(tokens, spans)
            base == [merged |-> <<>>, named |-> {}]
            Next1(acc, g) == MergeOne(tokens, spans, acc, g)
            step == [k \in 1 .. n |-> [x \in X |-> Next1(x, groups[k])]]
            Taken(it) == it = [S \in SUBSET (DOMAIN groups) |->
                                 IF S = {} THEN base ELSE Next1(it[S \ {Max(S)}], groups[Max(S)])]
            fold == CHOOSE it : Taken(it)
            Items(k) == UNION {ItemsOf(groups[j]) : j \in 1 .. k}
<1>1. /\ n \in Nat /\ DOMAIN groups = 1 .. n
      /\ \A k \in 1 .. n : groups[k] \in Seq(D) /\ groups[k] # <<>>
  <2>. DEFINE N == Seq(D) \ {<<>>}
  <2>1. groups \in Seq(N)
    BY DEF Parts
  <2>2. n \in Nat /\ DOMAIN groups = 1 .. n /\ \A k \in 1 .. n : groups[k] \in N
    <3>. HIDE DEF N
    <3>. QED
      BY <2>1
  <2>. QED
    BY <2>2
<1>2. base \in X
  <2>1. OneType(spans, <<>>)
    BY DEF OneType
  <2>2. <<>> \in Seq(Seq(D) \ {<<>>})
    OBVIOUS
  <2>3. base \in [merged : Seq(Seq(D) \ {<<>>}), named : SUBSET (Keys(tokens, spans) \X Nat)]
    <3>. DEFINE N == Seq(D) \ {<<>>}
    <3>1. <<>> \in Seq(N)
      OBVIOUS
    <3>. HIDE DEF N
    <3>2. base \in [merged : Seq(N), named : SUBSET (Keys(tokens, spans) \X Nat)]
      BY <3>1
    <3>. QED
      BY <3>2 DEF N
  <2>. QED
    BY <2>1, <2>3 DEF MergedSoFar
<1>3. ASSUME NEW acc \in X, NEW k \in 1 .. n PROVE Next1(acc, groups[k]) \in X
  <2>1. groups[k] \in Seq(DOMAIN spans) \ {<<>>}
    BY <1>1
  <2>2. 1 \in DOMAIN groups[k]
    BY <1>1
  <2>3. \A x \in DOMAIN groups[k] : spans[groups[k][x]].type = spans[groups[k][1]].type
    BY <1>1, <2>2 DEF OneType
  <2>. DEFINE g == groups[k]
  <2>. HIDE DEF g
  <2>4. Next1(acc, g) \in X
    BY <2>1, <2>3, MergeStays DEF g
  <2>. QED
    BY <2>4 DEF g
<1>. HIDE DEF X, Next1, base
<1>4. step \in [1 .. n -> [X -> X]]
  BY <1>3
<1>5. Taken(fold)
  <2>1. PICK it \in [SUBSET (1 .. n) -> X] : TakesGreatest(it, n, base, step)
    <3>. HIDE DEF n, step
    <3>. QED
      BY <1>1, <1>2, <1>4, TakingExists
  <2>2. ASSUME NEW S \in SUBSET (1 .. n)
        PROVE  it[S] = IF S = {} THEN base ELSE Next1(it[S \ {Max(S)}], groups[Max(S)])
    <3>1. CASE S # {}
      <4>1. Max(S) \in S /\ it[S \ {Max(S)}] \in X
        <5>. HIDE DEF n
        <5>1. Max(S) \in S
          BY <1>1, <3>1, GreatestIsThere
        <5>. QED
          BY <5>1
      <4>. QED
        BY <2>1, <3>1, <4>1 DEF TakesGreatest
    <3>. QED
      BY <2>1, <3>1 DEF TakesGreatest
  <2>3. Taken(it)
    <3>. HIDE DEF n
    <3>. QED
      BY <1>1, <2>2
  <2>. HIDE DEF Taken
  <2>. QED
    BY <2>3
<1>6. PICK f \in [0 .. n -> X] : FoldsTo(f, n, base, step) /\ fold[1 .. n] = f[n]
  <2>1. fold = [S \in SUBSET (1 .. n) |-> IF S = {} THEN base ELSE Next1(fold[S \ {Max(S)}], groups[Max(S)])]
    <3>. HIDE DEF fold
    <3>. QED
      BY <1>1, <1>5
  <2>. HIDE DEF fold
  <2>2. fold[{}] = base
    BY <2>1
  <2>3. ASSUME NEW S \in SUBSET (1 .. n), S # {}, fold[S \ {Max(S)}] \in X
        PROVE  fold[S] = step[Max(S)][fold[S \ {Max(S)}]]
    <3>. HIDE DEF n
    <3>1. Max(S) \in S
      BY <1>1, <2>3, GreatestIsThere
    <3>2. fold[S] = Next1(fold[S \ {Max(S)}], groups[Max(S)])
      BY <2>1, <2>3
    <3>3. step[Max(S)] = [x \in X |-> Next1(x, groups[Max(S)])]
      BY <3>1
    <3>. QED
      BY <2>3, <3>2, <3>3
  <2>. HIDE DEF n, step
  <2>4. \A S \in SUBSET (1 .. n) :
          S # {} /\ fold[S \ {Max(S)}] \in X => fold[S] = step[Max(S)][fold[S \ {Max(S)}]]
    BY <2>3
  <2>5. TakesSteps(fold, n, X, base, step)
    BY <2>2, <2>4 DEF TakesSteps
  <2>. QED
    BY <1>1, <1>2, <1>4, <2>5, TakingFolds
<1>7. MergeNames(tokens, spans, groups) = f[n].merged
  <2>1. MergeNames(tokens, spans, groups) = fold[DOMAIN groups].merged
    BY DEF MergeNames, FoldLeft, MapThenFoldSet, Next1, MergeOne, KeyOf, base
  <2>. HIDE DEF fold
  <2>. QED
    BY <1>1, <1>6, <2>1
<1>. HIDE DEF fold
<1>8. /\ \A k \in 1 .. n : IsInjective(groups[k]) /\ ItemsOf(groups[k]) \subseteq D
      /\ \A k, l \in 1 .. n : k # l => ItemsOf(groups[k]) \cap ItemsOf(groups[l]) = {}
      /\ \A i \in D : \E k \in 1 .. n : i \in ItemsOf(groups[k])
  <2>1. \A i \in D : \E k \in 1 .. n : i \in ItemsOf(groups[k])
    BY <1>1 DEF Parts, ItemsOf, ToSet
  <2>. QED
    BY <1>1, <2>1, ItemsOfParts
<1>9. \A k \in 0 .. n : Parts(f[k].merged, Items(k))
  <2>. DEFINE T == {k \in Nat : k <= n => Parts(f[k].merged, Items(k))}
  <2>1. 0 \in T
    <3>1. f[0].merged = <<>>
      BY <1>6 DEF FoldsTo, base
    <3>2. Items(0) = {}
      OBVIOUS
    <3>3. Parts(<<>>, {})
      BY DEF Parts
    <3>. QED
      BY <3>1, <3>2, <3>3
  <2>2. ASSUME NEW k \in Nat, k \in T PROVE k + 1 \in T
    <3>. SUFFICES ASSUME k + 1 <= n PROVE Parts(f[k + 1].merged, Items(k + 1))
      OBVIOUS
    <3>. DEFINE g == groups[k + 1]
                S == Items(k)
    <3>1. k + 1 \in 1 .. n /\ (k + 1) - 1 = k /\ k \in 0 .. n /\ k <= n
      BY <1>1
    <3>2. f[k] \in X /\ Parts(f[k].merged, S)
      BY <2>2, <3>1
    <3>3. f[k + 1] = Next1(f[k], g)
      <4>1. f[k + 1] = step[k + 1][f[k]]
        BY <1>6, <3>1 DEF FoldsTo
      <4>2. step[k + 1] = [x \in X |-> Next1(x, g)]
        BY <3>1
      <4>. QED
        BY <3>2, <4>1, <4>2
    <3>4. Items(k + 1) = S \cup ItemsOf(g) /\ S \cap ItemsOf(g) = {}
      <4>1. 1 .. (k + 1) = (1 .. k) \cup {k + 1}
        OBVIOUS
      <4>2. \A j \in 1 .. k : j \in 1 .. n /\ j # k + 1
        BY <3>1, <1>1
      <4>. HIDE DEF D
      <4>3. S \cap ItemsOf(g) = {}
        <5>1. \A j \in 1 .. k : ItemsOf(groups[j]) \cap ItemsOf(groups[k + 1]) = {}
          BY <1>8, <3>1, <4>2
        <5>. QED
          BY <5>1
      <4>4. Items(k + 1) = S \cup ItemsOf(g)
        BY <4>1
      <4>. QED
        BY <4>3, <4>4
    <3>5. g \in Seq(ItemsOf(g)) /\ g # <<>> /\ IsInjective(g)
      BY <1>1, <1>8, <3>1, ItemsAreIn
    <3>. HIDE DEF g, S, Items
    <3>6. Parts(MergeOne(tokens, spans, f[k], g).merged, S \cup ItemsOf(g))
      BY <3>2, <3>4, <3>5, MergeParts DEF X
    <3>. QED
      BY <3>3, <3>4, <3>6 DEF Next1
  <2>. HIDE DEF T
  <2>3. \A k \in Nat : k \in T
    BY <2>1, <2>2, NatInductive
  <2>4. \A k \in Nat : k <= n => Parts(f[k].merged, Items(k))
    BY <2>3 DEF T
  <2>. HIDE DEF Items, n
  <2>. QED
    BY <1>1, <2>4
<1>10. Items(n) = D
  <2>1. Items(n) \subseteq D
    BY <1>8
  <2>2. D \subseteq Items(n)
    BY <1>8
  <2>. QED
    BY <2>1, <2>2
<1>11. n \in 0 .. n /\ f[n] \in X
  BY <1>1
<1>12. OneType(spans, f[n].merged)
  BY <1>11 DEF X, MergedSoFar
<1>13. Parts(f[n].merged, Items(n))
  BY <1>9, <1>11
<1>. QED
  BY <1>7, <1>10, <1>12, <1>13

(* Of each group what is inside, and no group that is empty then. *)
LEMMA CutParts ==
  ASSUME NEW S, NEW g, Parts(g, S), NEW inside \in SUBSET S
  PROVE  Parts(InSentences(g, inside), inside) /\ Finer(InSentences(g, inside), g)
<1>. DEFINE n == Len(g)
            cut == [k \in DOMAIN g |-> Filter(g[k], inside)]
            id == [k \in 1 .. n |-> k]
            K == {k \in 1 .. n : cut[k] \in ToSet(cut) \ {<<>>}}
            firsts == Filter(id, K)
            kept == Filter(cut, ToSet(cut) \ {<<>>})
<1>1. n \in Nat /\ DOMAIN g = 1 .. n
  <2>. DEFINE N == Seq(S) \ {<<>>}
  <2>1. g \in Seq(N)
    BY DEF Parts
  <2>. HIDE DEF N
  <2>. QED
    BY <2>1
<1>2. /\ \A k \in 1 .. n : g[k] \in Seq(S) /\ IsInjective(g[k])
      /\ \A k, l \in 1 .. n : k # l => ItemsOf(g[k]) \cap ItemsOf(g[l]) = {}
  BY <1>1, ItemsOfParts
<1>3. DOMAIN cut = 1 .. n /\ \A k \in 1 .. n : cut[k] = Filter(g[k], inside)
  BY <1>1
<1>4. ASSUME NEW k \in 1 .. n
      PROVE  cut[k] \in Seq(inside) /\ IsInjective(cut[k]) /\ ItemsOf(cut[k]) = ItemsOf(g[k]) \cap inside
  <2>1. Filter(g[k], inside) \in Seq(S \cap inside)
    BY <1>2, FilterType
  <2>2. S \cap inside = inside
    OBVIOUS
  <2>3. IsInjective(Filter(g[k], inside))
    BY <1>2, FilterDistinct
  <2>4. ItemsOf(Filter(g[k], inside)) = ItemsOf(g[k]) \cap inside
    BY <1>2, FilterItems
  <2>. QED
    BY <1>3, <2>1, <2>2, <2>3, <2>4
<1>5. firsts \in Seq(K) /\ ItemsOf(firsts) = K /\ IsInjective(firsts)
  <2>1. K \in SUBSET (1 .. n)
    OBVIOUS
  <2>. HIDE DEF K
  <2>. QED
    BY <1>1, <2>1, Firsts
<1>6. kept = Mapped(cut, firsts)
  <2>1. id \in Seq(1 .. n) /\ DOMAIN id = 1 .. n /\ \A k \in 1 .. n : id[k] = k
    BY <1>1
  <2>2. Mapped(cut, id) = cut
    <3>1. cut = [k \in 1 .. n |-> cut[k]]
      BY <1>1
    <3>. HIDE DEF cut
    <3>. QED
      BY <2>1, <3>1 DEF Mapped
  <2>. DEFINE V == ToSet(cut) \ {<<>>}
  <2>3. Filter(Mapped(cut, id), V) = Mapped(cut, Filter(id, {k \in 1 .. n : cut[k] \in V}))
    <3>. HIDE DEF V, cut, id
    <3>. QED
      BY <2>1, FilterMapped
  <2>. QED
    BY <2>2, <2>3
<1>7. DOMAIN firsts = 1 .. Len(firsts) /\ Len(firsts) \in Nat /\ \A k \in 1 .. Len(firsts) : firsts[k] \in K
  <2>. HIDE DEF firsts, K
  <2>. QED
    BY <1>5
<1>8. \A k \in K : k \in 1 .. n /\ cut[k] # <<>>
  OBVIOUS
<1>9. \A k \in 1 .. n : cut[k] # <<>> => k \in K
  BY <1>3 DEF ToSet
<1>. HIDE DEF cut, firsts, K, kept
<1>10. DOMAIN kept = 1 .. Len(firsts) /\ \A k \in 1 .. Len(firsts) : kept[k] = cut[firsts[k]]
  BY <1>6, <1>7 DEF Mapped
<1>11. kept \in Seq(Seq(inside) \ {<<>>})
  <2>1. kept = [k \in 1 .. Len(firsts) |-> kept[k]]
    BY <1>6, <1>7, <1>10 DEF Mapped
  <2>2. \A k \in 1 .. Len(firsts) : kept[k] \in Seq(inside) \ {<<>>}
    BY <1>4, <1>7, <1>8, <1>10
  <2>. DEFINE N == Seq(inside) \ {<<>>}
  <2>. HIDE DEF N
  <2>3. kept \in [1 .. Len(firsts) -> N]
    BY <2>1, <2>2 DEF N
  <2>4. kept \in Seq(N)
    BY <1>7, <2>3
  <2>. QED
    BY <2>4 DEF N
<1>12. ASSUME NEW i \in inside PROVE \E k \in DOMAIN kept : i \in ItemsOf(kept[k])
  <2>1. PICK k \in 1 .. n : i \in ItemsOf(g[k])
    BY <1>1 DEF Parts, ItemsOf, ToSet
  <2>2. i \in ItemsOf(cut[k])
    BY <1>4, <2>1
  <2>3. cut[k] # <<>>
    BY <2>2 DEF ItemsOf
  <2>4. PICK j \in 1 .. Len(firsts) : firsts[j] = k
    BY <1>5, <1>7, <1>9, <2>3 DEF ItemsOf
  <2>. QED
    BY <1>10, <2>2, <2>4
<1>13. \A k \in DOMAIN kept : IsInjective(kept[k])
  BY <1>4, <1>7, <1>8, <1>10
<1>14. ASSUME NEW k \in DOMAIN kept, NEW l \in DOMAIN kept, k # l
       PROVE  ItemsOf(kept[k]) \cap ItemsOf(kept[l]) = {}
  <2>1. firsts[k] # firsts[l]
    BY <1>5, <1>7, <1>10, <1>14 DEF IsInjective
  <2>2. firsts[k] \in 1 .. n /\ firsts[l] \in 1 .. n
    BY <1>7, <1>8, <1>10
  <2>3. ItemsOf(g[firsts[k]]) \cap ItemsOf(g[firsts[l]]) = {}
    BY <1>2, <2>1, <2>2
  <2>4. ItemsOf(kept[k]) \subseteq ItemsOf(g[firsts[k]]) /\ ItemsOf(kept[l]) \subseteq ItemsOf(g[firsts[l]])
    BY <1>4, <1>10, <2>2
  <2>. QED
    BY <2>3, <2>4
<1>15. Parts(kept, inside)
  BY <1>11, <1>12, <1>13, <1>14, PartsByItems
<1>16. Finer(kept, g)
  <2>. SUFFICES ASSUME NEW k \in DOMAIN kept PROVE \E j \in DOMAIN g : ItemsOf(kept[k]) \subseteq ItemsOf(g[j])
    BY DEF Finer
  <2>1. firsts[k] \in 1 .. n
    BY <1>7, <1>8, <1>10
  <2>. QED
    BY <1>1, <1>4, <1>10, <2>1
<1>17. InSentences(g, inside) = kept
  BY DEF InSentences, kept, cut
<1>. QED
  BY <1>15, <1>16, <1>17

(* Coarsened gives a sequence of spans.                                    *)
LEMMA CoarsenedType ==
  ASSUME NEW R, NEW typed \in Seq(R)
  PROVE  \E Q : Coarsened(typed) \in Seq(Q)
<1>. DEFINE S == {s \in ToSet(typed) : s.type \notin Dropped}
            named == Filter(typed, S)
            f == [i \in DOMAIN named |-> [named[i] EXCEPT !.type = CoarseOf(@)]]
<1>1. named \in Seq(R \cap S)
  BY FilterType
<1>2. f = Coarsened(typed)
  BY DEF Coarsened
<1>3. Len(named) \in Nat /\ DOMAIN named = 1 .. Len(named)
  <2>. HIDE DEF named, S
  <2>. QED
    BY <1>1
<1>4. DOMAIN f = 1 .. Len(named) /\ f = [i \in 1 .. Len(named) |-> f[i]]
  BY <1>3
<1>5. f \in Seq({f[i] : i \in 1 .. Len(named)})
  <2>. HIDE DEF f, named
  <2>. QED
    BY <1>3, <1>4
<1>. QED
  BY <1>2, <1>5

(* The entities of a window, for any mentions, chains, sentences and mode  *)
(* of grouping: every mention that lies in one sentence is in one entity,  *)
(* once, and no entity mixes types (entities.rs, build_entities).          *)
THEOREM MentionsArePart ==
  ASSUME NEW tokens, NEW sentences, NEW R, NEW typed \in Seq(R), NEW Q, NEW chains \in Seq(Seq(Q)), NEW mode
  PROVE  EntitiesPartMentions(tokens, sentences, typed, chains, mode)
<1>. DEFINE spans == Coarsened(typed)
            grouped == GroupByChains(tokens, spans, chains, mode)
            merged == MergeNames(tokens, spans, grouped)
            inside == InOneSentence(spans, sentences)
            entities == InSentences(merged, inside)
<1>1. PICK P : spans \in Seq(P)
  BY CoarsenedType
<1>. HIDE DEF spans
<1>2. Parts(grouped, DOMAIN spans) /\ OneType(spans, grouped)
  BY <1>1, ChainsPart
<1>. HIDE DEF grouped
<1>3. Parts(merged, DOMAIN spans) /\ OneType(spans, merged)
  BY <1>2, MergedParts
<1>4. inside \in SUBSET DOMAIN spans
  BY DEF InOneSentence
<1>. HIDE DEF inside, merged
<1>5. Parts(entities, inside) /\ Finer(entities, merged)
  BY <1>3, <1>4, CutParts
<1>6. OneType(spans, entities)
  <2>. HIDE DEF entities
  <2>. QED
    BY <1>3, <1>5, FinerKeepsTypes
<1>. QED
  BY <1>5, <1>6 DEF EntitiesPartMentions, EntitiesOf, entities, inside, merged, grouped, spans

(***************************************************************************)
(* The markers of the relation pass.  Participants' nodes come first; the  *)
(* rewritten window is a sequence of blocks, one per word, and a marker is *)
(* found in the block of the word that it opens.                           *)
(***************************************************************************)
(* What filtering the numbers up to n by Firsts gives, indexed. *)
LEMMA FirstsIndexed ==
  ASSUME NEW n \in Nat, NEW F \in SUBSET (1 .. n)
  PROVE  LET firsts == Filter([x \in 1 .. n |-> x], F)
         IN  /\ Len(firsts) \in Nat /\ DOMAIN firsts = 1 .. Len(firsts)
             /\ \A k \in 1 .. Len(firsts) : firsts[k] \in F
             /\ \A x \in F : \E k \in 1 .. Len(firsts) : firsts[k] = x
<1>. DEFINE firsts == Filter([x \in 1 .. n |-> x], F)
<1>1. firsts \in Seq(F) /\ ItemsOf(firsts) = F
  BY Firsts
<1>. HIDE DEF firsts
<1>2. Len(firsts) \in Nat /\ DOMAIN firsts = 1 .. Len(firsts) /\ \A k \in 1 .. Len(firsts) : firsts[k] \in F
  BY <1>1
<1>3. \A x \in F : \E k \in 1 .. Len(firsts) : firsts[k] = x
  BY <1>1, <1>2 DEF ItemsOf
<1>. QED
  BY <1>2, <1>3 DEF firsts

(* The sentences of a window. *)
LEMMA SentencesTyped ==
  ASSUME NEW w \in WindowsOfWords
  PROVE  /\ Len(w.sentences) \in Nat /\ DOMAIN w.sentences = 1 .. Len(w.sentences)
         /\ \A j \in 1 .. Len(w.sentences) : w.sentences[j].start \in Nat /\ w.sentences[j].speaker \in STRING
         /\ \A i, j \in 1 .. Len(w.sentences) : w.sentences[i].start = w.sentences[j].start => i = j
<1>. DEFINE s == w.sentences
            R == [start : Nat, end : Nat, unit : Nat, speaker : STRING]
<1>1. s \in Seq(R) /\ \A i, j \in DOMAIN s : s[i].start = s[j].start => i = j
  BY DEF WindowsOfWords
<1>2. Len(s) \in Nat /\ DOMAIN s = 1 .. Len(s) /\ \A j \in 1 .. Len(s) : s[j] \in R
  <2>. HIDE DEF s, R
  <2>. QED
    BY <1>1
<1>3. \A r \in R : r.start \in Nat /\ r.speaker \in STRING
  OBVIOUS
<1>. HIDE DEF s, R
<1>4. \A j \in 1 .. Len(s) : s[j].start \in Nat /\ s[j].speaker \in STRING
  BY <1>2, <1>3
<1>. QED
  BY <1>1, <1>2, <1>4 DEF s

(* Participants are somebody. *)
LEMMA ParticipantsSpeak ==
  ASSUME NEW w \in WindowsOfWords
  PROVE  /\ Len(Participants(w)) \in Nat /\ DOMAIN Participants(w) = 1 .. Len(Participants(w))
         /\ Participants(w) \in Seq(STRING)
         /\ \A p \in DOMAIN Participants(w) : Participants(w)[p] # "nobody"
<1>. DEFINE s == w.sentences
            n == Len(s)
            speakers == [j \in DOMAIN s |-> s[j].speaker]
            F == {j \in DOMAIN speakers :
                    speakers[j] # "nobody" /\ \A k \in 1 .. (j - 1) : speakers[k] # speakers[j]}
            firsts == Filter([j \in DOMAIN speakers |-> j], F)
            P == [i \in DOMAIN firsts |-> speakers[firsts[i]]]
<1>1. Participants(w) = P
  BY DEF Participants
<1>2. n \in Nat /\ DOMAIN s = 1 .. n /\ \A j \in 1 .. n : s[j].speaker \in STRING
  BY SentencesTyped
<1>3. DOMAIN speakers = 1 .. n /\ \A j \in 1 .. n : speakers[j] \in STRING
  BY <1>2
<1>4. /\ Len(firsts) \in Nat /\ DOMAIN firsts = 1 .. Len(firsts)
      /\ \A k \in 1 .. Len(firsts) : firsts[k] \in F
  <2>1. F \in SUBSET (1 .. n) /\ firsts = Filter([j \in 1 .. n |-> j], F)
    BY <1>3
  <2>. HIDE DEF F, firsts, n
  <2>. QED
    BY <1>2, <2>1, FirstsIndexed
<1>5. \A j \in F : j \in 1 .. n /\ speakers[j] # "nobody"
  BY <1>3
<1>. HIDE DEF F, firsts, speakers, n
<1>6. \A k \in 1 .. Len(firsts) : P[k] \in STRING /\ P[k] # "nobody"
  BY <1>3, <1>4, <1>5
<1>7. P \in [1 .. Len(firsts) -> STRING] /\ DOMAIN P = 1 .. Len(firsts)
  BY <1>4, <1>6
<1>. HIDE DEF P
<1>8. P \in Seq(STRING) /\ Len(P) = Len(firsts)
  BY <1>4, <1>7
<1>. QED
  BY <1>1, <1>4, <1>6, <1>7, <1>8

(* Turns by the words that they start at: one at most starts at a word. *)
TurnsTell(turns, words, n) ==
  /\ turns \in Seq(words \X (1 .. n))
  /\ \A t, u \in ItemsOf(turns) : t[1] = u[1] => t = u

(* speaker_turns: one turn at most starts at a word, and a participant     *)
(* takes it.                                                               *)
LEMMA TurnsOfWindow ==
  ASSUME NEW w \in WindowsOfWords, NEW P, NEW n \in Nat, DOMAIN P = 1 .. n,
         NEW found, found = SpeakerTurns(w, P)
  PROVE  TurnsTell([i \in DOMAIN found |-> <<found[i][1] + 1, found[i][2]>>], Nat, n)
<1>. DEFINE s == w.sentences
            m == Len(s)
            O == {j \in DOMAIN s : /\ \E p \in DOMAIN P : P[p] = s[j].speaker
                                   /\ j = 1 \/ s[j - 1].speaker # s[j].speaker}
            opens == Filter([j \in DOMAIN s |-> j], O)
            Of(j) == CHOOSE p \in DOMAIN P : P[p] = s[j].speaker
            all == [i \in DOMAIN opens |-> <<s[opens[i]].start, Of(opens[i])>>]
            turns == [i \in DOMAIN all |-> <<all[i][1] + 1, all[i][2]>>]
<1>1. all = found
  BY DEF SpeakerTurns
<1>2. /\ m \in Nat /\ DOMAIN s = 1 .. m /\ \A j \in 1 .. m : s[j].start \in Nat
      /\ \A i, j \in 1 .. m : s[i].start = s[j].start => i = j
  BY SentencesTyped
<1>3. /\ Len(opens) \in Nat /\ DOMAIN opens = 1 .. Len(opens)
      /\ \A k \in 1 .. Len(opens) : opens[k] \in O
  <2>1. O \in SUBSET (1 .. m) /\ opens = Filter([j \in 1 .. m |-> j], O)
    BY <1>2
  <2>. HIDE DEF O, opens, m
  <2>. QED
    BY <1>2, <2>1, FirstsIndexed
<1>4. \A j \in O : j \in 1 .. m /\ Of(j) \in 1 .. n
  BY <1>2
<1>. HIDE DEF O, opens, s, m, Of
<1>5. DOMAIN turns = 1 .. Len(opens) /\ \A i \in 1 .. Len(opens) : turns[i] = <<s[opens[i]].start + 1, Of(opens[i])>>
  BY <1>3
<1>6. \A i \in 1 .. Len(opens) : turns[i] \in Nat \X (1 .. n)
  BY <1>2, <1>3, <1>4, <1>5
<1>7. turns \in Seq(Nat \X (1 .. n))
  <2>. HIDE DEF all
  <2>1. turns = [i \in 1 .. Len(opens) |-> turns[i]]
    BY <1>5
  <2>. HIDE DEF turns
  <2>2. turns \in [1 .. Len(opens) -> Nat \X (1 .. n)]
    BY <1>6, <2>1
  <2>. QED
    BY <1>3, <2>2
<1>8. ASSUME NEW t \in ItemsOf(turns), NEW u \in ItemsOf(turns), t[1] = u[1] PROVE t = u
  <2>. HIDE DEF turns
  <2>1. PICK i \in 1 .. Len(opens) : t = turns[i]
    BY <1>5 DEF ItemsOf
  <2>2. PICK j \in 1 .. Len(opens) : u = turns[j]
    BY <1>5 DEF ItemsOf
  <2>3. opens[i] \in 1 .. m /\ opens[j] \in 1 .. m
    BY <1>3, <1>4
  <2>4. s[opens[i]].start + 1 = s[opens[j]].start + 1
    BY <1>5, <1>8, <2>1, <2>2
  <2>5. s[opens[i]].start = s[opens[j]].start
    BY <1>2, <2>3, <2>4
  <2>6. opens[i] = opens[j]
    BY <1>2, <2>3, <2>5
  <2>. QED
    BY <1>5, <2>1, <2>2, <2>6
<1>9. TurnsTell(turns, Nat, n)
  BY <1>7, <1>8 DEF TurnsTell
<1>. QED
  BY <1>1, <1>9

(* Turns that are kept start at words that are kept.                       *)
LEMMA FilterTurns ==
  ASSUME NEW turns, NEW words, NEW n, TurnsTell(turns, words, n), NEW S, NEW kept,
         \A t \in S : t \in words \X (1 .. n) => t[1] \in kept
  PROVE  TurnsTell(Filter(turns, S), words \cap kept, n)
<1>. DEFINE A == words \X (1 .. n)
            B == (words \cap kept) \X (1 .. n)
<1>1. turns \in Seq(A)
  BY DEF TurnsTell
<1>2. Filter(turns, S) \in Seq(A \cap S) /\ ItemsOf(Filter(turns, S)) = ItemsOf(turns) \cap S
  <2>. HIDE DEF A
  <2>. QED
    BY <1>1, FilterType, FilterItems
<1>3. A \cap S \subseteq B
  OBVIOUS
<1>4. Filter(turns, S) \in Seq(B)
  <2>. HIDE DEF A, B
  <2>. QED
    BY <1>2, <1>3, SeqMonotonic
<1>. QED
  BY <1>2, <1>4 DEF TurnsTell

(* Analysed words are words of the window. *)
LEMMA AnalysedAreWords ==
  ASSUME window \in WindowsOfWords
  PROVE  Analysed \subseteq 1 .. Len(window.pieces) /\ window.pieces \in Seq(Nat) /\ Alignment.limit \in Nat
<1>. DEFINE a == Align(window.pieces, MaxSubwords)
<1>1. window.pieces \in Seq(Nat)
  BY DEF WindowsOfWords
<1>2. IsAlignment(a, window.pieces, MaxSubwords, SubwordStarts(window.pieces))
  BY <1>1, BudgetType, AlignAligns
<1>. HIDE DEF a
<1>3. a.limit \in 0 .. Len(window.pieces) /\ a.first \in Seq(Int) /\ Len(a.first) = a.limit
  BY <1>2 DEF IsAlignment
<1>4. Len(window.pieces) \in Nat
  BY <1>1
<1>5. DOMAIN a.first = 1 .. a.limit
  BY <1>3
<1>6. Analysed \subseteq 1 .. a.limit
  BY <1>5 DEF Analysed, Alignment, a
<1>. QED
  BY <1>1, <1>3, <1>4, <1>6 DEF Alignment, a

(* The analysed turns start at analysed words, one at most at each.        *)
LEMMA TurnsAreTurns ==
  ASSUME window \in WindowsOfWords
  PROVE  TurnsTell(Turns, Analysed, Len(Participants(window)))
<1>. DEFINE P == Participants(window)
            n == Len(P)
            all == SpeakerTurns(window, P)
            turns == [i \in DOMAIN all |-> <<all[i][1] + 1, all[i][2]>>]
            S == {t \in ToSet(turns) : t[1] \in Analysed}
<1>1. n \in Nat /\ DOMAIN P = 1 .. n
  BY ParticipantsSpeak
<1>2. TurnsTell(turns, Nat, n)
  <2>. HIDE DEF P, n
  <2>. QED
    BY <1>1, TurnsOfWindow
<1>3. Turns = Filter(turns, S)
  BY DEF Turns
<1>4. \A t \in S : t[1] \in Analysed
  OBVIOUS
<1>. HIDE DEF S, turns, n, P
<1>5. TurnsTell(Filter(turns, S), Nat \cap Analysed, n)
  BY <1>2, <1>4, FilterTurns
<1>6. Nat \cap Analysed = Analysed
  <2>1. Len(window.pieces) \in Nat
    BY DEF WindowsOfWords
  <2>. QED
    BY <2>1, AnalysedAreWords
<1>. QED
  BY <1>3, <1>5, <1>6 DEF n, P

(* Who is heard, and whose nodes come first. *)
LEMMA HeardAreParticipants ==
  ASSUME window \in WindowsOfWords
  PROVE  /\ Heard \subseteq 1 .. Len(Participants(window))
         /\ \A t \in ItemsOf(Turns) : t[2] \in Heard
<1>1. Turns \in Seq(Analysed \X (1 .. Len(Participants(window))))
  BY TurnsAreTurns DEF TurnsTell
<1>. QED
  BY <1>1 DEF Heard, ItemsOf

(* Numbers that come with all before them are the first ones.              *)
LEMMA ClosedIsRange ==
  ASSUME NEW n \in Nat, NEW H \in SUBSET (1 .. n), \A p \in H : 1 .. p \subseteq H
  PROVE  \E h \in 0 .. n : H = 1 .. h
<1>1. CASE H = {}
  <2>1. 0 \in 0 .. n /\ H = 1 .. 0
    BY <1>1
  <2>. QED
    BY <2>1
<1>2. CASE H # {}
  <2>1. H \in SUBSET (0 .. n)
    OBVIOUS
  <2>2. Max(H) \in H /\ \A y \in H : Max(H) >= y
    BY <1>2, GreatestIsThere
  <2>. DEFINE m == Max(H)
  <2>3. m \in H /\ (\A y \in H : m >= y) /\ m \in 1 .. n
    BY <2>2
  <2>. HIDE DEF m
  <2>4. 1 .. m \subseteq H
    BY <2>3
  <2>5. H \subseteq 1 .. m
    <3>1. \A y \in H : y \in 1 .. n /\ m >= y
      BY <2>3
    <3>. QED
      BY <2>3, <3>1
  <2>6. m \in 0 .. n /\ H = 1 .. m
    <3>1. m \in 0 .. n
      BY <2>3
    <3>2. H = 1 .. m
      BY <2>4, <2>5, Zenon
    <3>. QED
      BY <3>1, <3>2
  <2>. QED
    BY <2>6
<1>. QED
  BY <1>1, <1>2

(* Then the participants who are heard are the first ones, in order.       *)
LEMMA SpeakingInOrder ==
  ASSUME window \in WindowsOfWords, \A p \in Heard : 1 .. p \subseteq Heard
  PROVE  \E h \in 0 .. Len(Participants(window)) : Heard = 1 .. h /\ Speaking = [p \in 1 .. h |-> p]
<1>. DEFINE n == Len(Participants(window))
            id == [p \in 1 .. n |-> p]
<1>1. n \in Nat /\ DOMAIN Participants(window) = 1 .. n
  BY ParticipantsSpeak
<1>2. Heard \in SUBSET (1 .. n)
  BY HeardAreParticipants
<1>3. PICK h \in 0 .. n : Heard = 1 .. h
  <2>. HIDE DEF n
  <2>. QED
    BY <1>1, <1>2, ClosedIsRange
<1>. DEFINE front == [p \in 1 .. h |-> p]
            rest == [p \in 1 .. (n - h) |-> p + h]
<1>4. Speaking = Filter(id, 1 .. h)
  BY <1>1, <1>3 DEF Speaking
<1>. HIDE DEF n
<1>5. h \in Nat /\ n - h \in Nat /\ h <= n
  BY <1>1
<1>6. front \in Seq(1 .. h) /\ rest \in Seq((h + 1) .. n) /\ Len(front) = h /\ Len(rest) = n - h
  <2>1. front \in [1 .. h -> 1 .. h]
    OBVIOUS
  <2>2. rest \in [1 .. (n - h) -> (h + 1) .. n]
    <3>1. \A p \in 1 .. (n - h) : p + h \in (h + 1) .. n
      BY <1>1, <1>5
    <3>. QED
      BY <3>1
  <2>3. front \in Seq(1 .. h) /\ Len(front) = h
    BY <1>5, <2>1
  <2>4. rest \in Seq((h + 1) .. n) /\ Len(rest) = n - h
    <3>. DEFINE B == (h + 1) .. n
                l == n - h
    <3>1. rest \in [1 .. l -> B] /\ l \in Nat /\ DOMAIN rest = 1 .. l
      BY <1>5, <2>2
    <3>. HIDE DEF B, l, rest
    <3>2. rest \in Seq(B) /\ Len(rest) = l
      BY <3>1
    <3>. QED
      BY <3>2 DEF B, l
  <2>. QED
    BY <2>3, <2>4
<1>7. front \in Seq(1 .. n) /\ rest \in Seq(1 .. n)
  <2>1. 1 .. h \subseteq 1 .. n /\ (h + 1) .. n \subseteq 1 .. n
    BY <1>1, <1>5
  <2>. HIDE DEF front, rest
  <2>. QED
    BY <1>6, <2>1, SeqMonotonic
<1>8. id = front \o rest
  <2>1. front \o rest \in Seq(1 .. n) /\ Len(front \o rest) = n
    <3>1. h + (n - h) = n
      BY <1>1, <1>5
    <3>. HIDE DEF front, rest
    <3>. QED
      BY <1>6, <1>7, <3>1, ConcatProperties
  <2>2. \A i \in 1 .. n : (front \o rest)[i] = i
    <3>. TAKE i \in 1 .. n
    <3>1. (front \o rest)[i] = IF i <= h THEN front[i] ELSE rest[i - h]
      <4>1. \A j \in 1 .. Len(front) + Len(rest) :
              (front \o rest)[j] = IF j <= Len(front) THEN front[j] ELSE rest[j - Len(front)]
        <5>. HIDE DEF front, rest
        <5>. QED
          BY <1>7, ConcatProperties
      <4>. HIDE DEF front, rest
      <4>. QED
        BY <1>1, <1>5, <1>6, <4>1
    <3>2. CASE i <= h
      BY <3>1, <3>2, <1>5
    <3>3. CASE ~(i <= h)
      <4>1. i - h \in 1 .. (n - h) /\ (i - h) + h = i
        BY <1>1, <1>5, <3>3
      <4>. QED
        BY <3>1, <3>3, <4>1
    <3>. QED
      BY <3>2, <3>3
  <2>3. DOMAIN (front \o rest) = 1 .. n /\ front \o rest = [i \in 1 .. n |-> (front \o rest)[i]]
    <3>. DEFINE f == front \o rest
    <3>. HIDE DEF front, rest, f
    <3>1. f \in Seq(1 .. n) /\ Len(f) = n
      BY <2>1 DEF f
    <3>2. DOMAIN f = 1 .. n /\ f = [i \in 1 .. n |-> f[i]]
      BY <1>1, <3>1
    <3>. QED
      BY <3>2 DEF f
  <2>. QED
    BY <2>2, <2>3
<1>9. Filter(front, 1 .. h) = front
  <2>. HIDE DEF front
  <2>. QED
    BY <1>6, FilterAll
<1>10. Filter(rest, 1 .. h) = <<>>
  <2>1. ((h + 1) .. n) \cap (1 .. h) = {}
    BY <1>1, <1>5
  <2>. HIDE DEF rest
  <2>. QED
    BY <1>6, <2>1, FilterNone
<1>11. Filter(id, 1 .. h) = front \o <<>>
  <2>. HIDE DEF front, rest
  <2>1. Filter(front \o rest, 1 .. h) = Filter(front, 1 .. h) \o Filter(rest, 1 .. h)
    BY <1>7, FilterConcat
  <2>. QED
    BY <1>8, <1>9, <1>10, <2>1
<1>12. front \o <<>> = front
  <2>. HIDE DEF front
  <2>. QED
    BY <1>7, ConcatEmptySeq
<1>. QED
  BY <1>3, <1>4, <1>11, <1>12 DEF n

(* A block of items begins with h, and no turn opens behind it. *)
Leads(b, h) ==
  /\ Len(h) <= Len(b) /\ \A x \in 1 .. Len(h) : b[x] = h[x]
  /\ \A x \in 1 .. Len(b) : x > Len(h) => b[x][1] # "turn"

(* Items without a turn can follow a block.                                *)
LEMMA LeadsConcat ==
  ASSUME NEW A, NEW b \in Seq(A), NEW h \in Seq(A), Leads(b, h), NEW t \in Seq(A),
         \A y \in 1 .. Len(t) : t[y][1] # "turn"
  PROVE  /\ b \o t \in Seq(A) /\ Leads(b \o t, h) /\ Len(b \o t) = Len(b) + Len(t)
         /\ \A x \in 1 .. Len(b) : (b \o t)[x] = b[x]
         /\ \A y \in 1 .. Len(t) : (b \o t)[Len(b) + y] = t[y]
<1>. DEFINE f == b \o t
<1>1. /\ Len(b) \in Nat /\ Len(t) \in Nat /\ Len(h) \in Nat /\ f \in Seq(A) /\ Len(f) = Len(b) + Len(t)
      /\ \A x \in 1 .. Len(b) + Len(t) : f[x] = IF x <= Len(b) THEN b[x] ELSE t[x - Len(b)]
  BY LenProperties, ConcatProperties
<1>. HIDE DEF f
<1>2. \A x \in 1 .. Len(b) : f[x] = b[x]
  BY <1>1
<1>3. \A y \in 1 .. Len(t) : f[Len(b) + y] = t[y]
  <2>. TAKE y \in 1 .. Len(t)
  <2>1. Len(b) + y \in 1 .. Len(b) + Len(t) /\ ~(Len(b) + y <= Len(b)) /\ (Len(b) + y) - Len(b) = y
    BY <1>1
  <2>. QED
    BY <1>1, <2>1
<1>4. ASSUME NEW x \in 1 .. Len(f), x > Len(h) PROVE f[x][1] # "turn"
  <2>1. CASE x <= Len(b)
    <3>1. x \in 1 .. Len(b) /\ f[x] = b[x]
      BY <1>1, <1>2, <2>1
    <3>. QED
      BY <1>4, <3>1 DEF Leads
  <2>2. CASE ~(x <= Len(b))
    <3>1. x - Len(b) \in 1 .. Len(t) /\ f[x] = t[x - Len(b)]
      BY <1>1, <2>2
    <3>. QED
      BY <3>1
  <2>. QED
    BY <2>1, <2>2
<1>5. \A x \in 1 .. Len(h) : f[x] = h[x]
  <2>. TAKE x \in 1 .. Len(h)
  <2>1. x \in 1 .. Len(b) /\ b[x] = h[x]
    BY <1>1 DEF Leads
  <2>. QED
    BY <1>2, <2>1
<1>6. Len(h) <= Len(f)
  BY <1>1 DEF Leads
<1>7. Leads(f, h)
  BY <1>4, <1>5, <1>6 DEF Leads
<1>. QED
  BY <1>1, <1>2, <1>3, <1>7 DEF f

(* Items of a rewritten window of n words. *)
MarkItems(n) ==
  ({"turn", "open"} \X Nat) \cup ({"name"} \X STRING) \cup ({"mark", "colon"} \X {0}) \cup ({"word"} \X (1 .. n))

(* The block of a word: its turn's announcement, its opening mark, the     *)
(* word and its closing mark.                                              *)
LEMMA BlockOfWord ==
  ASSUME NEW n \in Nat, NEW i \in 1 .. n, NEW h \in Seq(MarkItems(n)),
         NEW o \in {<<>>, <<<<"open", i>>>>}, NEW c \in {<<>>, <<<<"mark", 0>>>>}
  PROVE  LET b == h \o o \o <<<<"word", i>>>> \o c
         IN  /\ b \in Seq(MarkItems(n)) /\ Leads(b, h)
             /\ o # <<>> => \E x \in 1 .. Len(b) : b[x] = <<"open", i>>
<1>. DEFINE A == MarkItems(n)
            w == <<<<"word", i>>>>
            b1 == h \o o
            b2 == b1 \o w
            b3 == b2 \o c
<1>1. o \in Seq(A) /\ w \in Seq(A) /\ c \in Seq(A)
  <2>1. <<"open", i>> \in A /\ <<"word", i>> \in A /\ <<"mark", 0>> \in A
    BY DEF MarkItems
  <2>2. <<>> \in Seq(A) /\ \A x \in A : <<x>> \in Seq(A)
    <3>. HIDE DEF A
    <3>. QED
      OBVIOUS
  <2>. HIDE DEF A
  <2>. QED
    BY <2>1, <2>2
<1>2. /\ \A y \in 1 .. Len(o) : o[y][1] # "turn"
      /\ \A y \in 1 .. Len(w) : w[y][1] # "turn"
      /\ \A y \in 1 .. Len(c) : c[y][1] # "turn"
  OBVIOUS
<1>3. Leads(h, h) /\ Len(h) \in Nat
  <2>1. Len(h) \in Nat
    OBVIOUS
  <2>. QED
    BY <2>1 DEF Leads
<1>4. o # <<>> => Len(o) = 1 /\ o[1] = <<"open", i>>
  OBVIOUS
<1>. HIDE DEF A, w
<1>5. /\ b1 \in Seq(A) /\ Leads(b1, h) /\ Len(b1) = Len(h) + Len(o)
      /\ \A y \in 1 .. Len(o) : b1[Len(h) + y] = o[y]
  BY <1>1, <1>2, <1>3, LeadsConcat DEF A
<1>6. o # <<>> => \E x \in 1 .. Len(b1) : b1[x] = <<"open", i>>
  <2>. SUFFICES ASSUME o # <<>> PROVE \E x \in 1 .. Len(b1) : b1[x] = <<"open", i>>
    OBVIOUS
  <2>1. Len(o) = 1 /\ o[1] = <<"open", i>>
    BY <1>4
  <2>2. Len(h) + 1 \in 1 .. Len(b1) /\ b1[Len(h) + 1] = o[1]
    BY <1>3, <1>5, <2>1
  <2>. QED
    BY <2>1, <2>2
<1>. HIDE DEF b1
<1>7. /\ b2 \in Seq(A) /\ Leads(b2, h) /\ Len(b2) = Len(b1) + Len(w) /\ Len(w) \in Nat /\ Len(b1) \in Nat
      /\ \A x \in 1 .. Len(b1) : b2[x] = b1[x]
  <2>1. h \in Seq(A)
    BY DEF A
  <2>2. Len(w) \in Nat /\ Len(b1) \in Nat
    BY <1>1, <1>5, LenProperties
  <2>3. b2 \in Seq(A) /\ Leads(b2, h) /\ Len(b2) = Len(b1) + Len(w) /\ \A x \in 1 .. Len(b1) : b2[x] = b1[x]
    <3>1. b1 \in Seq(A) /\ w \in Seq(A) /\ Leads(b1, h) /\ \A y \in 1 .. Len(w) : w[y][1] # "turn"
      BY <1>1, <1>2, <1>5
    <3>. QED
      BY <2>1, <3>1, LeadsConcat
  <2>. QED
    BY <2>2, <2>3
<1>. HIDE DEF b2
<1>8. /\ b3 \in Seq(A) /\ Leads(b3, h) /\ Len(b3) = Len(b2) + Len(c) /\ Len(c) \in Nat
      /\ \A x \in 1 .. Len(b2) : b3[x] = b2[x]
  <2>1. h \in Seq(A)
    BY DEF A
  <2>2. Len(c) \in Nat
    BY <1>1, LenProperties
  <2>3. b3 \in Seq(A) /\ Leads(b3, h) /\ Len(b3) = Len(b2) + Len(c) /\ \A x \in 1 .. Len(b2) : b3[x] = b2[x]
    <3>1. b2 \in Seq(A) /\ c \in Seq(A) /\ Leads(b2, h) /\ \A y \in 1 .. Len(c) : c[y][1] # "turn"
      BY <1>1, <1>2, <1>7
    <3>. QED
      BY <2>1, <3>1, LeadsConcat
  <2>. QED
    BY <2>2, <2>3
<1>. HIDE DEF b3
<1>9. o # <<>> => \E x \in 1 .. Len(b3) : b3[x] = <<"open", i>>
  <2>1. \A x \in 1 .. Len(b1) : x \in 1 .. Len(b3) /\ b3[x] = b1[x]
    BY <1>7, <1>8
  <2>. QED
    BY <1>6, <2>1
<1>10. b3 = h \o o \o <<<<"word", i>>>> \o c
  BY DEF b3, b2, b1, w
<1>. QED
  BY <1>8, <1>9, <1>10 DEF A

(* The blocks of a rewritten window: a turn is announced at its word, with *)
(* the name of who takes it, and a mention opens at its first word.        *)
MarkedWell(items, n, spans, turns, names) ==
  /\ items \in Seq(MarkItems(n))
  /\ \A k \in 1 .. Len(items) : items[k][1] = "turn" =>
       \E t \in ItemsOf(turns) : /\ items[k] = <<"turn", t[1]>>
                                 /\ k + 1 \in 1 .. Len(items) /\ items[k + 1] = <<"name", names[t[2]]>>
  /\ \A t \in ItemsOf(turns) : \E k \in 1 .. Len(items) : items[k] = <<"turn", t[1]>>
  /\ \A s \in DOMAIN spans : \A m \in DOMAIN spans[s] : spans[s][m][1] \in 1 .. n =>
       \E k \in 1 .. Len(items) : items[k] = <<"open", spans[s][m][1]>>

(* So MarkedItems announces every turn at its word, by its speaker, and    *)
(* opens every mention.                                                    *)
LEMMA ItemsAreMarked ==
  ASSUME window \in WindowsOfWords, NEW spans, NEW names \in Seq(STRING), NEW turns,
         NEW words \in SUBSET (1 .. Len(window.pieces)), TurnsTell(turns, words, Len(names))
  PROVE  MarkedWell(MarkedItems(spans, turns, names), Len(window.pieces), spans, turns, names)
<1>. DEFINE n == Len(window.pieces)
            A == MarkItems(n)
            Opens(i) == \E k \in DOMAIN spans : \E m \in DOMAIN spans[k] : spans[k][m][1] = i
            Closes(i) == \E k \in DOMAIN spans : \E m \in DOMAIN spans[k] : spans[k][m][2] = i + 1
            Turn(i) == Filter(turns, {t \in ToSet(turns) : t[1] = i /\ t[2] \in DOMAIN names})
            Announced(i, turn) == IF turn = <<>> THEN <<>>
                             ELSE <<<<"turn", i>>, <<"name", names[turn[1][2]]>>, <<"mark", 0>>, <<"colon", 0>>>>
            Open(i) == IF Opens(i) THEN <<<<"open", i>>>> ELSE <<>>
            Close(i) == IF Closes(i) THEN <<<<"mark", 0>>>> ELSE <<>>
            Block(i) == Announced(i, Turn(i)) \o Open(i) \o <<<<"word", i>>>> \o Close(i)
            q == [i \in DOMAIN window.pieces |-> Block(i)]
            items == FlattenSeq(q)
            L == 1 .. Len(names)
<1>1. MarkedItems(spans, turns, names) = items
  BY DEF MarkedItems
<1>2. n \in Nat /\ DOMAIN window.pieces = 1 .. n
  <2>1. window.pieces \in Seq(Nat)
    BY DEF WindowsOfWords
  <2>. QED
    BY <2>1
<1>3. /\ turns \in Seq(words \X L) /\ DOMAIN names = L /\ \A p \in L : names[p] \in STRING
      /\ \A t, u \in ItemsOf(turns) : t[1] = u[1] => t = u
  BY DEF TurnsTell
<1>4. \A t \in ItemsOf(turns) : t \in words \X L
  <2>. HIDE DEF L
  <2>. QED
    BY <1>3, ItemsAreIn
<1>. HIDE DEF L
<1>5. ASSUME NEW i \in 1 .. n
      PROVE  /\ \A t \in ItemsOf(turns) : t[1] = i => Turn(i) # <<>>
             /\ Turn(i) # <<>> => Turn(i)[1] \in ItemsOf(turns) /\ Turn(i)[1][1] = i
  <2>. DEFINE K == {t \in ToSet(turns) : t[1] = i /\ t[2] \in DOMAIN names}
              W == words \X L
  <2>1. ToSet(turns) = ItemsOf(turns)
    BY DEF ToSet, ItemsOf
  <2>2. /\ Filter(turns, K) \in Seq(W \cap K)
        /\ ItemsOf(Filter(turns, K)) = ItemsOf(turns) \cap K
    <3>. HIDE DEF K, W
    <3>1. turns \in Seq(W)
      BY <1>3 DEF W
    <3>. QED
      BY <3>1, FilterType, FilterItems
  <2>3. \A t \in ItemsOf(turns) : t[1] = i => t \in K
    BY <1>3, <1>4, <2>1
  <2>4. ItemsOf(<<>>) = {}
    BY DEF ItemsOf
  <2>5. \A t \in K : t \in ItemsOf(turns) /\ t[1] = i
    BY <2>1
  <2>6. Filter(turns, K) # <<>> => Filter(turns, K)[1] \in K
    <3>. HIDE DEF K, W
    <3>1. \A B : \A f \in Seq(B) : f # <<>> => f[1] \in B
      OBVIOUS
    <3>. QED
      BY <2>2, <3>1
  <2>7. \A t \in ItemsOf(turns) : t[1] = i => Filter(turns, K) # <<>>
    <3>. HIDE DEF K
    <3>. QED
      BY <2>2, <2>3, <2>4
  <2>8. Turn(i) = Filter(turns, K)
    OBVIOUS
  <2>. HIDE DEF Turn, K
  <2>. QED
    BY <2>5, <2>6, <2>7, <2>8
<1>. HIDE DEF Turn
<1>6. ASSUME NEW i \in 1 .. n
      PROVE  /\ Announced(i, Turn(i)) \in Seq(A)
             /\ Turn(i) = <<>> => Len(Announced(i, Turn(i))) = 0
             /\ Turn(i) # <<>> => /\ Len(Announced(i, Turn(i))) = 4 /\ Announced(i, Turn(i))[1] = <<"turn", i>>
                                  /\ Announced(i, Turn(i))[2] = <<"name", names[Turn(i)[1][2]]>>
                                  /\ Announced(i, Turn(i))[3] = <<"mark", 0>> /\ Announced(i, Turn(i))[4] = <<"colon", 0>>
  <2>1. CASE Turn(i) = <<>>
    BY <2>1
  <2>2. CASE Turn(i) # <<>>
    <3>1. Turn(i)[1] \in words \X L
      BY <1>4, <1>5, <2>2
    <3>2. names[Turn(i)[1][2]] \in STRING
      BY <1>3, <3>1
    <3>. DEFINE who == names[Turn(i)[1][2]]
    <3>3. <<"turn", i>> \in A /\ <<"name", who>> \in A /\ <<"mark", 0>> \in A /\ <<"colon", 0>> \in A
      BY <3>2 DEF MarkItems
    <3>4. Announced(i, Turn(i)) = <<<<"turn", i>>, <<"name", who>>, <<"mark", 0>>, <<"colon", 0>>>>
      BY <2>2
    <3>. HIDE DEF A, Announced, who
    <3>5. Announced(i, Turn(i)) \in Seq(A)
      BY <3>3, <3>4
    <3>6. /\ Len(Announced(i, Turn(i))) = 4 /\ Announced(i, Turn(i))[1] = <<"turn", i>>
          /\ Announced(i, Turn(i))[2] = <<"name", who>>
          /\ Announced(i, Turn(i))[3] = <<"mark", 0>> /\ Announced(i, Turn(i))[4] = <<"colon", 0>>
      BY <3>4
    <3>. QED
      BY <2>2, <3>5, <3>6 DEF who
  <2>. QED
    BY <2>1, <2>2
<1>7. ASSUME NEW i \in 1 .. n
      PROVE  /\ Block(i) \in Seq(A) /\ Leads(Block(i), Announced(i, Turn(i)))
             /\ Opens(i) => \E x \in 1 .. Len(Block(i)) : Block(i)[x] = <<"open", i>>
  <2>. DEFINE h == Announced(i, Turn(i))
              o == Open(i)
              c == Close(i)
  <2>1. h \in Seq(MarkItems(n))
    BY <1>6
  <2>2. o \in {<<>>, <<<<"open", i>>>>} /\ c \in {<<>>, <<<<"mark", 0>>>>} /\ (Opens(i) => o # <<>>)
    OBVIOUS
  <2>. DEFINE b == h \o o \o <<<<"word", i>>>> \o c
  <2>. HIDE DEF h, o, c, n
  <2>3. b \in Seq(MarkItems(n)) /\ Leads(b, h) /\ (o # <<>> => \E x \in 1 .. Len(b) : b[x] = <<"open", i>>)
    BY <1>2, <2>1, <2>2, BlockOfWord
  <2>4. Block(i) = b
    BY DEF h, o, c
  <2>. HIDE DEF b, Block, Opens
  <2>. QED
    BY <2>2, <2>3, <2>4 DEF h
<1>. HIDE DEF A, Announced, Opens
<1>8. q \in Seq(Seq(A)) /\ Len(q) = n /\ \A i \in 1 .. n : q[i] = Block(i)
  <2>. HIDE DEF Block
  <2>1. q \in [1 .. n -> Seq(A)] /\ \A i \in 1 .. n : q[i] = Block(i)
    BY <1>2, <1>7
  <2>. HIDE DEF q, n
  <2>. QED
    BY <1>2, <2>1
<1>. HIDE DEF q, Block
<1>9. items \in Seq(A) /\ \E at \in [1 .. n -> Nat] : InPlace(items, q, at, n)
  BY <1>8, FlattenPlaces
<1>10. PICK at \in [1 .. n -> Nat] : InPlace(items, q, at, n)
  BY <1>9
<1>. HIDE DEF items
<1>11. /\ \A i \in 1 .. n : \A x \in 1 .. Len(Block(i)) :
            at[i] + x \in 1 .. Len(items) /\ items[at[i] + x] = Block(i)[x]
       /\ \A k \in 1 .. Len(items) : \E i \in 1 .. n : \E x \in 1 .. Len(Block(i)) : k = at[i] + x
  BY <1>8, <1>10 DEF InPlace
<1>12. ASSUME NEW i \in 1 .. n, Turn(i) # <<>>
       PROVE  /\ at[i] + 1 \in 1 .. Len(items) /\ items[at[i] + 1] = <<"turn", i>>
              /\ at[i] + 2 \in 1 .. Len(items) /\ items[at[i] + 2] = <<"name", names[Turn(i)[1][2]]>>
  <2>1. Len(Announced(i, Turn(i))) = 4 /\ Announced(i, Turn(i))[1] = <<"turn", i>> /\ Announced(i, Turn(i))[2] = <<"name", names[Turn(i)[1][2]]>>
    BY <1>6, <1>12
  <2>2. Len(Block(i)) \in Nat
    BY <1>7, LenProperties
  <2>3. /\ 1 \in 1 .. Len(Block(i)) /\ 2 \in 1 .. Len(Block(i))
        /\ Block(i)[1] = Announced(i, Turn(i))[1] /\ Block(i)[2] = Announced(i, Turn(i))[2]
    <3>1. Leads(Block(i), Announced(i, Turn(i)))
      BY <1>7
    <3>2. 4 <= Len(Block(i)) /\ \A x \in 1 .. 4 : Block(i)[x] = Announced(i, Turn(i))[x]
      BY <2>1, <3>1 DEF Leads
    <3>. QED
      BY <2>2, <3>2
  <2>. QED
    BY <1>11, <2>1, <2>3
<1>13. ASSUME NEW k \in 1 .. Len(items), items[k][1] = "turn"
       PROVE  \E t \in ItemsOf(turns) : /\ items[k] = <<"turn", t[1]>>
                                        /\ k + 1 \in 1 .. Len(items) /\ items[k + 1] = <<"name", names[t[2]]>>
  <2>1. PICK i \in 1 .. n : \E x \in 1 .. Len(Block(i)) : k = at[i] + x
    BY <1>11
  <2>2. PICK x \in 1 .. Len(Block(i)) : k = at[i] + x
    BY <2>1
  <2>3. Block(i)[x][1] = "turn" /\ Len(Block(i)) \in Nat /\ Block(i) \in Seq(A)
    BY <1>7, <1>11, <1>13, <2>2, LenProperties
  <2>. DEFINE h == Announced(i, Turn(i))
  <2>4. ~(x > Len(h)) /\ \A y \in 1 .. Len(h) : Block(i)[y] = h[y]
    BY <1>7, <2>3 DEF Leads
  <2>5. Turn(i) # <<>> /\ x = 1
    <3>1. Turn(i) # <<>>
      BY <1>6, <2>4
    <3>2. Len(h) = 4 /\ h[2] = <<"name", names[Turn(i)[1][2]]>> /\ h[3] = <<"mark", 0>> /\ h[4] = <<"colon", 0>>
      BY <1>6, <3>1
    <3>3. x \in 1 .. 4 /\ Block(i)[x] = h[x]
      BY <2>2, <2>4, <3>2
    <3>4. x = 1 \/ x = 2 \/ x = 3 \/ x = 4
      BY <3>3
    <3>5. h[x][1] = "turn"
      BY <2>3, <3>3
    <3>6. h[2][1] = "name" /\ h[3][1] = "mark" /\ h[4][1] = "colon"
      BY <3>2
    <3>. HIDE DEF h
    <3>7. x = 1
      BY <3>4, <3>5, <3>6
    <3>. QED
      BY <3>1, <3>7
  <2>6. at[i] \in Nat /\ k + 1 = at[i] + 2
    BY <2>2, <2>5
  <2>7. Turn(i)[1] \in ItemsOf(turns) /\ Turn(i)[1][1] = i
    BY <1>5, <2>5
  <2>. QED
    BY <1>12, <2>2, <2>5, <2>6, <2>7
<1>14. ASSUME NEW t \in ItemsOf(turns) PROVE \E k \in 1 .. Len(items) : items[k] = <<"turn", t[1]>>
  <2>1. t[1] \in 1 .. n
    BY <1>4
  <2>2. Turn(t[1]) # <<>>
    BY <1>5, <2>1
  <2>. QED
    BY <1>12, <2>1, <2>2
<1>15. ASSUME NEW s \in DOMAIN spans, NEW m \in DOMAIN spans[s], spans[s][m][1] \in 1 .. n
       PROVE  \E k \in 1 .. Len(items) : items[k] = <<"open", spans[s][m][1]>>
  <2>. DEFINE i == spans[s][m][1]
  <2>1. Opens(i)
    BY DEF Opens
  <2>. HIDE DEF i
  <2>2. i \in 1 .. n
    BY <1>15 DEF i
  <2>3. PICK x \in 1 .. Len(Block(i)) : Block(i)[x] = <<"open", i>>
    BY <1>7, <2>1, <2>2
  <2>. QED
    BY <1>11, <2>2, <2>3 DEF i
<1>16. MarkedWell(items, n, spans, turns, names)
  <2>1. items \in Seq(MarkItems(n))
    BY <1>9 DEF A
  <2>. HIDE DEF n
  <2>. QED
    BY <1>13, <1>14, <1>15, <2>1 DEF MarkedWell
<1>. QED
  BY <1>1, <1>16

(* The nodes of entities: their mentions start in analysed words. *)
EntityNodes ==
  [speaker : {"nobody"}, mentions : Seq({m \in ItemsOf(SpansInOrder) : m[1] \in Analysed})]

SpeakerNodes == [i \in DOMAIN Speaking |-> SpeakerNode(Speaking[i])]

NodesAreMade == \E kept \in Seq(EntityNodes) : nodes = SpeakerNodes \o kept

(* EntityNode gives such a node.                                           *)
LEMMA EntityNodeType ==
  ASSUME window \in WindowsOfWords, NEW mentions
  PROVE  EntityNode(mentions) \in EntityNodes
<1>. DEFINE analysed == Analysed
            Z == {m \in {mentions[i].span : i \in DOMAIN mentions} :
                    m[2] <= Alignment.limit + 1 /\ m[1] \in analysed}
            all == SpansInOrder
            M == {m \in ItemsOf(all) : m[1] \in analysed}
            e == (Len(window.pieces) + 1) * (Len(window.pieces) + 1)
<1>1. EntityNode(mentions) = [speaker |-> "nobody", mentions |-> Filter(all, Z)]
  BY DEF EntityNode
<1>2. all \in Seq(ItemsOf(all))
  <2>1. Len(window.pieces) \in Nat
    BY DEF WindowsOfWords
  <2>2. e \in Nat /\ DOMAIN all = 1 .. e /\ all = [k \in 1 .. e |-> all[k]]
    <3>1. \A x \in Nat : x * x \in Nat
      OBVIOUS
    <3>2. Len(window.pieces) + 1 \in Nat
      BY <2>1
    <3>3. e \in Nat
      BY <3>1, <3>2
    <3>4. DOMAIN all = 1 .. e
      BY DEF SpansInOrder
    <3>5. all = [k \in DOMAIN all |-> all[k]]
      BY DEF SpansInOrder
    <3>. HIDE DEF all, e
    <3>. QED
      BY <3>3, <3>4, <3>5
  <2>. HIDE DEF all, e
  <2>3. all \in [1 .. e -> ItemsOf(all)]
    BY <2>2 DEF ItemsOf
  <2>. QED
    BY <2>2, <2>3
<1>3. ItemsOf(all) \cap Z \subseteq M
  OBVIOUS
<1>4. Filter(all, Z) \in Seq(M)
  <2>. HIDE DEF all, Z, M
  <2>1. Filter(all, Z) \in Seq(ItemsOf(all) \cap Z)
    BY <1>2, FilterType
  <2>. QED
    BY <1>3, <2>1, SeqMonotonic
<1>. HIDE DEF Z
<1>5. EntityNodes = [speaker : {"nobody"}, mentions : Seq(M)]
  BY DEF EntityNodes
<1>. HIDE DEF M, all
<1>. QED
  BY <1>1, <1>4, <1>5

(* build_entities gives a sequence. *)
LEMMA EntitiesAreListed ==
  ASSUME NEW tokens, NEW sentences, NEW R, NEW typed \in Seq(R), NEW Q, NEW chains \in Seq(Seq(Q)), NEW mode
  PROVE  LET grouped == BuildEntities(tokens, sentences, typed, chains, mode)
         IN  \E n \in Nat : DOMAIN grouped = 1 .. n
<1>. DEFINE spans == Coarsened(typed)
            kept == EntitiesOf(tokens, sentences, spans, chains, mode)
            inside == InOneSentence(spans, sentences)
<1>1. Parts(kept, inside)
  BY MentionsArePart DEF EntitiesPartMentions
<1>. HIDE DEF spans, inside
<1>2. kept \in Seq(Seq(inside) \ {<<>>})
  BY <1>1 DEF Parts
<1>. HIDE DEF kept
<1>3. Len(kept) \in Nat /\ DOMAIN kept = 1 .. Len(kept)
  BY <1>2
<1>4. BuildEntities(tokens, sentences, typed, chains, mode) = Grouped(spans, kept)
  BY DEF BuildEntities, spans, kept
<1>5. DOMAIN Grouped(spans, kept) = 1 .. 0 \/ DOMAIN Grouped(spans, kept) = 1 .. Len(kept)
  BY <1>3 DEF Grouped
<1>. QED
  BY <1>3, <1>4, <1>5

(* Where the nodes come from. *)
LEMMA GroupMakesNodes ==
  ASSUME window \in WindowsOfWords, coref \in Seq(Seq(Nat \X Nat)), Group
  PROVE  \/ stage' = "failed"
         \/ stage' = "markers" /\ \E kept \in Seq(EntityNodes) : nodes' = SpeakerNodes \o kept
<1>1. CASE stage' = "failed"
  BY <1>1
<1>2. CASE stage' # "failed"
  <2>. DEFINE tokens == [w \in DOMAIN window.pieces |-> [lower |-> w, capital |-> FALSE, size |-> 3]]
              limit == Alignment.limit
              here(typed) == Filter(typed, {s \in ToSet(typed) : s.span[2] <= limit + 1})
              grouped(typed) == BuildEntities(tokens, Spans, here(typed), coref, CorefMode)
              entities(typed) == [k \in DOMAIN grouped(typed) |-> EntityNode(grouped(typed)[k])]
              listed(typed) == {n \in ToSet(entities(typed)) : n.mentions # <<>>}
  <2>1. /\ stage' = "markers"
        /\ \E typed \in Typings : nodes' = SpeakerNodes \o Filter(entities(typed), listed(typed))
    BY <1>2 DEF Group, Fail, SpeakerNodes
  <2>2. PICK typed \in Typings : nodes' = SpeakerNodes \o Filter(entities(typed), listed(typed))
    BY <2>1
  <2>3. here(typed) \in Seq([span : Nat \X Nat, type : STRING])
    <3>. DEFINE R == [span : Nat \X Nat, type : STRING]
                K == {s \in ToSet(typed) : s.span[2] <= limit + 1}
    <3>1. typed \in Seq(R)
      BY DecodedType
    <3>. HIDE DEF R, K
    <3>2. Filter(typed, K) \in Seq(R \cap K)
      BY <3>1, FilterType
    <3>3. Filter(typed, K) \in Seq(R)
      BY <3>2, SeqMonotonic
    <3>. QED
      BY <3>3 DEF R, K
  <2>. HIDE DEF here, tokens
  <2>4. PICK n \in Nat : DOMAIN grouped(typed) = 1 .. n
    BY <2>3, EntitiesAreListed
  <2>. HIDE DEF grouped
  <2>5. entities(typed) \in [1 .. n -> EntityNodes]
    BY <2>4, EntityNodeType
  <2>6. entities(typed) \in Seq(EntityNodes)
    <3>. HIDE DEF entities
    <3>. QED
      BY <2>4, <2>5
  <2>. HIDE DEF entities, listed
  <2>7. Filter(entities(typed), listed(typed)) \in Seq(EntityNodes)
    <3>1. Filter(entities(typed), listed(typed)) \in Seq(EntityNodes \cap listed(typed))
      BY <2>6, FilterType
    <3>. QED
      BY <3>1, SeqMonotonic
  <2>. QED
    BY <2>1, <2>2, <2>7
<1>. QED
  BY <1>1, <1>2

(* While everybody before one who is heard is heard, node k is that of     *)
(* participant k.                                                          *)
NodesFollow(h) ==
  /\ Heard = 1 .. h /\ Len(nodes) \in Nat /\ DOMAIN nodes = 1 .. Len(nodes) /\ h <= Len(nodes)
  /\ \A k \in 1 .. h : nodes[k] = SpeakerNode(k)
  /\ \A k \in 1 .. Len(nodes) : k > h => nodes[k] \in EntityNodes
  /\ Cardinality({k \in DOMAIN nodes : nodes[k].speaker # "nobody"}) = h

(* The nodes that Group makes follow the speakers.                         *)
LEMMA NodesFollowSpeakers ==
  ASSUME window \in WindowsOfWords, NodesAreMade, \A p \in Heard : 1 .. p \subseteq Heard
  PROVE  \E h \in 0 .. Len(Participants(window)) : NodesFollow(h)
<1>1. PICK h \in 0 .. Len(Participants(window)) : Heard = 1 .. h /\ Speaking = [p \in 1 .. h |-> p]
  BY SpeakingInOrder
<1>2. PICK kept \in Seq(EntityNodes) : nodes = SpeakerNodes \o kept
  BY DEF NodesAreMade
<1>3. /\ Len(Participants(window)) \in Nat /\ DOMAIN Participants(window) = 1 .. Len(Participants(window))
      /\ \A p \in DOMAIN Participants(window) : Participants(window)[p] # "nobody"
  BY ParticipantsSpeak
<1>4. h \in Nat /\ \A p \in 1 .. h : p \in DOMAIN Participants(window)
  BY <1>3
<1>5. SpeakerNodes = [p \in 1 .. h |-> SpeakerNode(p)]
  BY <1>1 DEF SpeakerNodes
<1>6. \A p \in 1 .. h : SpeakerNode(p).speaker # "nobody"
  BY <1>3, <1>4 DEF SpeakerNode
<1>7. \A e \in EntityNodes : e.speaker = "nobody"
  BY DEF EntityNodes
<1>. DEFINE E == {SpeakerNode(p) : p \in 1 .. h} \cup EntityNodes
<1>8. SpeakerNodes \in Seq(E) /\ kept \in Seq(E) /\ Len(SpeakerNodes) = h
  <2>1. SpeakerNodes \in [1 .. h -> E]
    BY <1>5
  <2>2. EntityNodes \subseteq E
    OBVIOUS
  <2>. HIDE DEF E
  <2>3. kept \in Seq(E)
    BY <2>2, SeqMonotonic
  <2>. QED
    BY <1>4, <2>1, <2>3
<1>. HIDE DEF E
<1>9. /\ Len(nodes) \in Nat /\ DOMAIN nodes = 1 .. Len(nodes) /\ Len(nodes) = h + Len(kept) /\ Len(kept) \in Nat
      /\ \A k \in 1 .. h + Len(kept) : nodes[k] = IF k <= h THEN SpeakerNodes[k] ELSE kept[k - h]
  <2>1. nodes \in Seq(E) /\ Len(kept) \in Nat
    BY <1>2, <1>8, ConcatProperties
  <2>2. Len(nodes) \in Nat /\ DOMAIN nodes = 1 .. Len(nodes)
    BY <2>1
  <2>. QED
    BY <1>2, <1>8, <2>1, <2>2, ConcatProperties
<1>10. \A k \in 1 .. h : nodes[k] = SpeakerNode(k)
  BY <1>4, <1>5, <1>9
<1>11. ASSUME NEW k \in 1 .. Len(nodes), k > h PROVE nodes[k] \in EntityNodes
  <2>1. k - h \in 1 .. Len(kept) /\ nodes[k] = kept[k - h]
    BY <1>4, <1>9, <1>11
  <2>. QED
    BY <2>1
<1>12. {k \in DOMAIN nodes : nodes[k].speaker # "nobody"} = 1 .. h
  <2>1. \A k \in 1 .. h : k \in DOMAIN nodes /\ nodes[k].speaker # "nobody"
    BY <1>4, <1>6, <1>9, <1>10
  <2>2. \A k \in DOMAIN nodes : k \notin 1 .. h => nodes[k].speaker = "nobody"
    <3>. TAKE k \in DOMAIN nodes
    <3>. HAVE k \notin 1 .. h
    <3>1. k \in 1 .. Len(nodes) /\ k > h
      BY <1>4, <1>9
    <3>. QED
      BY <1>7, <1>11, <3>1
  <2>. QED
    BY <2>1, <2>2
<1>13. Cardinality(1 .. h) = h
  BY <1>4, FS_Interval
<1>14. NodesFollow(h)
  <2>1. h <= Len(nodes)
    BY <1>4, <1>9
  <2>2. Cardinality({k \in DOMAIN nodes : nodes[k].speaker # "nobody"}) = h
    BY <1>12, <1>13
  <2>3. Heard = 1 .. h
    BY <1>1
  <2>. QED
    BY <1>9, <1>10, <1>11, <2>1, <2>2, <2>3, Zenon DEF NodesFollow
<1>. QED
  BY <1>14

(* Where marker_input finds an item among those that the budget keeps. *)
PlaceOf(items, fit, item) ==
  LET found == {k \in 1 .. fit : items[k] = item}
  IN  IF found = {} THEN 0 ELSE CHOOSE k \in found : TRUE

(* An item of the rewritten window is found unless the budget is exceeded. *)
LEMMA PlaceIsFound ==
  ASSUME window \in WindowsOfWords, NEW items \in Seq(MarkItems(Len(window.pieces))), NEW item,
         \E k \in 1 .. Len(items) : items[k] = item,
         NEW at, at = PlaceOf(items, Fit(items), item)
  PROVE  IF at = 0 THEN Subwords(PiecesOf(items)) > MarkerBudget
         ELSE at \in 1 .. Len(items) /\ items[at] = item
<1>. DEFINE n == Len(window.pieces)
            A == MarkItems(n)
            p == PiecesOf(items)
            a == Align(p, MarkerBudget)
            found == {k \in 1 .. a.limit : items[k] = item}
<1>1. n \in Nat /\ \A i \in 1 .. n : window.pieces[i] \in Nat
  <2>1. window.pieces \in Seq(Nat)
    BY DEF WindowsOfWords
  <2>. QED
    BY <2>1
<1>2. Len(items) \in Nat /\ DOMAIN items = 1 .. Len(items) /\ \A k \in 1 .. Len(items) : items[k] \in A
  <2>1. items \in Seq(A)
    OBVIOUS
  <2>. HIDE DEF A
  <2>. QED
    BY <2>1
<1>3. \A x \in A : x[1] = "word" => x[2] \in 1 .. n
  BY DEF MarkItems
<1>4. p \in Seq(Nat) /\ Len(p) = Len(items)
  <2>. HIDE DEF A, n
  <2>1. \A k \in 1 .. Len(items) : (IF items[k][1] = "word" THEN window.pieces[items[k][2]] ELSE 1) \in Nat
    BY <1>1, <1>2, <1>3
  <2>2. p \in [1 .. Len(items) -> Nat]
    BY <1>2, <2>1 DEF PiecesOf
  <2>. HIDE DEF p
  <2>. QED
    BY <1>2, <2>2
<1>5. a.limit \in 0 .. Len(items) /\ (~(Subwords(p) > MarkerBudget) => a.limit = Len(items))
  <2>. HIDE DEF p
  <2>1. IsAlignment(a, p, MarkerBudget, SubwordStarts(p))
    BY <1>4, BudgetType, AlignAligns
  <2>2. a.limit \in 0 .. Len(p)
    <3>. HIDE DEF a
    <3>. QED
      BY <2>1 DEF IsAlignment
  <2>3. ~(Subwords(p) > MarkerBudget) => a.limit = Len(p)
    BY DEF Align
  <2>. HIDE DEF a
  <2>. QED
    BY <1>4, <2>2, <2>3
<1>6. at = IF found = {} THEN 0 ELSE CHOOSE k \in found : TRUE
  BY DEF PlaceOf, Fit
<1>7. CASE found = {}
  <2>1. at = 0
    BY <1>6, <1>7
  <2>2. a.limit # Len(items)
    BY <1>7
  <2>. HIDE DEF a, p, found
  <2>. QED
    BY <1>5, <2>1, <2>2 DEF p
<1>8. CASE found # {}
  <2>1. at \in found
    BY <1>6, <1>8
  <2>2. at \in 1 .. a.limit /\ items[at] = item
    BY <2>1
  <2>. HIDE DEF a, p, found
  <2>3. at \in 1 .. Len(items) /\ at # 0
    BY <1>2, <1>5, <2>2
  <2>. QED
    BY <2>2, <2>3
<1>. QED
  BY <1>7, <1>8

(* MarkersOpenOwnTurns of given markers. *)
MarkerOpens(items, at, node, m) ==
  IF at = 0 THEN Subwords(PiecesOf(items)) > MarkerBudget
  ELSE IF node.speaker # "nobody"
       THEN items[at] = <<"turn", m[1]>> /\ items[at + 1] = <<"name", node.speaker>>
       ELSE items[at] = <<"open", m[1]>>

(* What relations passes to marker_input for h speakers. *)
SpansOf(h) == [k \in 1 .. (Len(nodes) - h) |-> nodes[h + k].mentions]
TurnsUpTo(h) == Filter(Turns, {t \in ToSet(Turns) : t[2] <= h})
NamesUpTo(h) == SubSeq(Participants(window), 1, h)
ItemsUpTo(h) == MarkedItems(SpansOf(h), TurnsUpTo(h), NamesUpTo(h))

(* Mark passes on all turns, the names of who takes them, and so a well-   *)
(* marked window.                                                          *)
LEMMA PassedOn ==
  ASSUME window \in WindowsOfWords, NEW h \in 0 .. Len(Participants(window)), NodesFollow(h)
  PROVE  /\ TurnsUpTo(h) = Turns /\ TurnsTell(Turns, Analysed, h)
         /\ NamesUpTo(h) \in Seq(STRING) /\ Len(NamesUpTo(h)) = h /\ h \in Nat
         /\ \A k \in 1 .. h : NamesUpTo(h)[k] = Participants(window)[k] /\ Participants(window)[k] # "nobody"
         /\ MarkedWell(ItemsUpTo(h), Len(window.pieces), SpansOf(h), Turns, NamesUpTo(h))
<1>. DEFINE P == Participants(window)
            K == {t \in ToSet(Turns) : t[2] <= h}
<1>1. Len(P) \in Nat /\ DOMAIN P = 1 .. Len(P) /\ P \in Seq(STRING) /\ \A p \in DOMAIN P : P[p] # "nobody"
  BY ParticipantsSpeak
<1>2. h \in Nat /\ h <= Len(P)
  BY <1>1
<1>3. TurnsTell(Turns, Analysed, Len(P)) /\ \A t \in ItemsOf(Turns) : t[2] \in 1 .. h
  BY TurnsAreTurns, HeardAreParticipants DEF NodesFollow
<1>4. Turns \in Seq(Analysed \X (1 .. Len(P))) /\ \A t, u \in ItemsOf(Turns) : t[1] = u[1] => t = u
  BY <1>3 DEF TurnsTell
<1>. HIDE DEF P
<1>5. Turns \in Seq(ItemsOf(Turns)) /\ ItemsOf(Turns) \subseteq Analysed \X (1 .. Len(P))
  <2>. DEFINE R == Analysed \X (1 .. Len(P))
  <2>. HIDE DEF R
  <2>1. Turns \in Seq(R)
    BY <1>4 DEF R
  <2>2. Turns \in Seq(ItemsOf(Turns)) /\ ItemsOf(Turns) \subseteq R
    BY <2>1, ItemsAreIn
  <2>. QED
    BY <2>2 DEF R
<1>6. ItemsOf(Turns) \subseteq Analysed \X (1 .. h)
  BY <1>3, <1>5
<1>7. TurnsTell(Turns, Analysed, h)
  <2>. DEFINE R == Analysed \X (1 .. h)
  <2>. HIDE DEF R
  <2>1. ItemsOf(Turns) \subseteq R
    BY <1>6 DEF R
  <2>2. Turns \in Seq(R)
    BY <1>5, <2>1, SeqMonotonic
  <2>. QED
    BY <1>4, <2>2 DEF TurnsTell, R
<1>8. TurnsUpTo(h) = Turns
  <2>1. ItemsOf(Turns) \subseteq K
    <3>1. ToSet(Turns) = ItemsOf(Turns)
      BY DEF ToSet, ItemsOf
    <3>2. \A t \in ItemsOf(Turns) : t[2] <= h
      BY <1>2, <1>3
    <3>. QED
      BY <3>1, <3>2
  <2>2. TurnsUpTo(h) = Filter(Turns, K)
    BY DEF TurnsUpTo
  <2>. HIDE DEF K
  <2>3. Turns \in Seq(K)
    BY <1>5, <2>1, SeqMonotonic
  <2>. QED
    BY <2>2, <2>3, FilterAll
<1>9. /\ NamesUpTo(h) \in Seq(STRING) /\ Len(NamesUpTo(h)) = h
      /\ \A k \in 1 .. h : NamesUpTo(h)[k] = P[k] /\ P[k] # "nobody"
  <2>1. \A k \in 1 .. h : k \in DOMAIN P
    BY <1>1, <1>2
  <2>2. /\ SubSeq(P, 1, h) \in Seq(STRING) /\ Len(SubSeq(P, 1, h)) = h
        /\ \A k \in 1 .. h : SubSeq(P, 1, h)[k] = P[k]
    BY <1>1, <1>2, <2>1
  <2>. QED
    BY <1>1, <2>1, <2>2 DEF NamesUpTo, P
<1>10. Analysed \in SUBSET (1 .. Len(window.pieces))
  BY AnalysedAreWords
<1>11. MarkedWell(MarkedItems(SpansOf(h), Turns, NamesUpTo(h)), Len(window.pieces), SpansOf(h), Turns, NamesUpTo(h))
  BY <1>7, <1>9, <1>10, ItemsAreMarked
<1>. QED
  BY <1>2, <1>7, <1>8, <1>9, <1>11 DEF ItemsUpTo, P

(* A speaker's marker. *)
LEMMA TurnIsOpened ==
  ASSUME window \in WindowsOfWords, NEW h \in 0 .. Len(Participants(window)), NodesFollow(h),
         NEW k \in 1 .. h, NEW j \in DOMAIN TurnsOf(Turns, k),
         NEW at, at = PlaceOf(ItemsUpTo(h), Fit(ItemsUpTo(h)), <<"turn", TurnsOf(Turns, k)[j][1]>>)
  PROVE  MarkerOpens(ItemsUpTo(h), at, nodes[k], nodes[k].mentions[j])
<1>. DEFINE items == ItemsUpTo(h)
            names == NamesUpTo(h)
            own == TurnsOf(Turns, k)
            K == {t \in ToSet(Turns) : t[2] = k}
<1>1. /\ TurnsTell(Turns, Analysed, h) /\ h \in Nat
      /\ names[k] = Participants(window)[k] /\ Participants(window)[k] # "nobody"
      /\ MarkedWell(items, Len(window.pieces), SpansOf(h), Turns, names)
  BY PassedOn
<1>2. own[j] \in ItemsOf(Turns) /\ own[j][2] = k
  <2>. DEFINE R == Analysed \X (1 .. h)
  <2>1. Turns \in Seq(R)
    BY <1>1 DEF TurnsTell
  <2>2. own = Filter(Turns, K)
    BY DEF TurnsOf
  <2>3. ItemsOf(own) = ItemsOf(Turns) \cap K
    <3>. HIDE DEF R, K, own
    <3>. QED
      BY <2>1, <2>2, FilterItems
  <2>4. own[j] \in ItemsOf(own)
    BY DEF ItemsOf
  <2>. QED
    BY <2>3, <2>4
<1>3. nodes[k].speaker = Participants(window)[k] /\ nodes[k].mentions[j] = <<own[j][1], own[j][1] + 1>>
  <2>1. nodes[k] = SpeakerNode(k)
    BY DEF NodesFollow
  <2>. QED
    BY <2>1 DEF SpeakerNode
<1>. HIDE DEF items, names, own
<1>4. /\ items \in Seq(MarkItems(Len(window.pieces)))
      /\ \E x \in 1 .. Len(items) : items[x] = <<"turn", own[j][1]>>
  BY <1>1, <1>2 DEF MarkedWell
<1>5. IF at = 0 THEN Subwords(PiecesOf(items)) > MarkerBudget
      ELSE at \in 1 .. Len(items) /\ items[at] = <<"turn", own[j][1]>>
  <2>1. at = PlaceOf(items, Fit(items), <<"turn", own[j][1]>>)
    BY DEF items, own
  <2>. QED
    BY <1>4, <2>1, PlaceIsFound
<1>6. CASE at = 0
  BY <1>5, <1>6 DEF MarkerOpens, items
<1>7. CASE at # 0
  <2>1. at \in 1 .. Len(items) /\ items[at] = <<"turn", own[j][1]>> /\ items[at][1] = "turn"
    BY <1>5, <1>7
  <2>2. PICK t \in ItemsOf(Turns) : items[at] = <<"turn", t[1]>> /\ items[at + 1] = <<"name", names[t[2]]>>
    BY <1>1, <2>1 DEF MarkedWell
  <2>3. t[1] = own[j][1]
    BY <2>1, <2>2
  <2>4. t = own[j]
    BY <1>1, <1>2, <2>3 DEF TurnsTell
  <2>5. items[at + 1] = <<"name", nodes[k].speaker>>
    BY <1>1, <1>2, <1>3, <2>2, <2>4
  <2>6. nodes[k].mentions[j][1] = own[j][1] /\ nodes[k].speaker # "nobody"
    BY <1>1, <1>3
  <2>. QED
    BY <1>7, <2>1, <2>5, <2>6 DEF MarkerOpens, items
<1>. QED
  BY <1>6, <1>7

(* An entity's marker. *)
LEMMA MentionIsOpened ==
  ASSUME window \in WindowsOfWords, NEW h \in 0 .. Len(Participants(window)), NodesFollow(h),
         NEW k \in 1 .. Len(nodes), k > h, NEW j \in DOMAIN nodes[k].mentions,
         NEW at, at = PlaceOf(ItemsUpTo(h), Fit(ItemsUpTo(h)), <<"open", nodes[k].mentions[j][1]>>)
  PROVE  MarkerOpens(ItemsUpTo(h), at, nodes[k], nodes[k].mentions[j])
<1>. DEFINE items == ItemsUpTo(h)
            n == Len(window.pieces)
            m == nodes[k].mentions[j]
<1>1. h \in Nat /\ MarkedWell(items, n, SpansOf(h), Turns, NamesUpTo(h))
  BY PassedOn
<1>2. Len(nodes) \in Nat /\ nodes[k] \in EntityNodes
  BY DEF NodesFollow
<1>3. nodes[k].speaker = "nobody" /\ m[1] \in Analysed
  <2>. DEFINE M == {x \in ItemsOf(SpansInOrder) : x[1] \in Analysed}
  <2>1. EntityNodes = [speaker : {"nobody"}, mentions : Seq(M)]
    BY DEF EntityNodes
  <2>. HIDE DEF M
  <2>2. nodes[k].speaker = "nobody" /\ nodes[k].mentions \in Seq(M)
    BY <1>2, <2>1
  <2>3. nodes[k].mentions[j] \in M
    BY <2>2
  <2>. QED
    BY <2>2, <2>3 DEF M
<1>4. m[1] \in 1 .. n
  BY <1>3, AnalysedAreWords
<1>5. k - h \in DOMAIN SpansOf(h) /\ SpansOf(h)[k - h] = nodes[k].mentions
  <2>1. k - h \in 1 .. (Len(nodes) - h) /\ h + (k - h) = k
    BY <1>1, <1>2
  <2>. QED
    BY <2>1 DEF SpansOf
<1>6. items \in Seq(MarkItems(n)) /\ \E x \in 1 .. Len(items) : items[x] = <<"open", m[1]>>
  <2>. HIDE DEF items, n
  <2>1. items \in Seq(MarkItems(n))
    BY <1>1 DEF MarkedWell
  <2>2. \A s \in DOMAIN SpansOf(h) : \A y \in DOMAIN SpansOf(h)[s] : SpansOf(h)[s][y][1] \in 1 .. n =>
          \E x \in 1 .. Len(items) : items[x] = <<"open", SpansOf(h)[s][y][1]>>
    BY <1>1 DEF MarkedWell
  <2>3. j \in DOMAIN SpansOf(h)[k - h] /\ SpansOf(h)[k - h][j] = m
    BY <1>5
  <2>. QED
    BY <1>4, <1>5, <2>1, <2>2, <2>3
<1>7. IF at = 0 THEN Subwords(PiecesOf(items)) > MarkerBudget
      ELSE at \in 1 .. Len(items) /\ items[at] = <<"open", m[1]>>
  <2>. HIDE DEF items
  <2>1. at = PlaceOf(items, Fit(items), <<"open", m[1]>>)
    BY DEF items
  <2>. QED
    BY <1>6, <2>1, PlaceIsFound
<1>. QED
  BY <1>3, <1>7 DEF MarkerOpens

(* The positions of marker_input, by node: those of the speakers' turns,   *)
(* then those of the entities' mentions.                                   *)
PositionsUpTo(h) ==
  MarkerPositions(ItemsUpTo(h), Fit(ItemsUpTo(h)), SpansOf(h), TurnsUpTo(h), NamesUpTo(h))

(* Position j of node k is where the window has the marker of its mention  *)
(* j.                                                                      *)
LEMMA PositionsByNode ==
  ASSUME window \in WindowsOfWords, NEW h \in 0 .. Len(Participants(window)), NodesFollow(h)
  PROVE  /\ Len(PositionsUpTo(h)) = Len(nodes)
         /\ \A k \in 1 .. h : PositionsUpTo(h)[k] =
              [j \in DOMAIN TurnsOf(Turns, k) |->
                 PlaceOf(ItemsUpTo(h), Fit(ItemsUpTo(h)), <<"turn", TurnsOf(Turns, k)[j][1]>>)]
         /\ \A k \in 1 .. Len(nodes) : k > h => PositionsUpTo(h)[k] =
              [j \in DOMAIN nodes[k].mentions |->
                 PlaceOf(ItemsUpTo(h), Fit(ItemsUpTo(h)), <<"open", nodes[k].mentions[j][1]>>)]
<1>. DEFINE items == ItemsUpTo(h)
            fit == Fit(items)
            names == NamesUpTo(h)
            l == Len(nodes) - h
            ofTurns == [p \in 1 .. h |-> [j \in DOMAIN TurnsOf(Turns, p) |->
                                            PlaceOf(items, fit, <<"turn", TurnsOf(Turns, p)[j][1]>>)]]
            ofSpans == [s \in 1 .. l |-> [j \in DOMAIN SpansOf(h)[s] |->
                                            PlaceOf(items, fit, <<"open", SpansOf(h)[s][j][1]>>)]]
            E == {ofTurns[p] : p \in 1 .. h} \cup {ofSpans[s] : s \in 1 .. l}
<1>1. /\ TurnsUpTo(h) = Turns /\ names \in Seq(STRING) /\ Len(names) = h /\ h \in Nat
      /\ Len(nodes) \in Nat /\ h <= Len(nodes)
  BY PassedOn DEF NodesFollow
<1>2. l \in Nat /\ h + l = Len(nodes) /\ DOMAIN names = 1 .. h /\ DOMAIN SpansOf(h) = 1 .. l
  <2>1. l \in Nat /\ h + l = Len(nodes)
    BY <1>1
  <2>2. DOMAIN names = 1 .. h
    BY <1>1
  <2>3. DOMAIN SpansOf(h) = 1 .. l
    BY DEF SpansOf
  <2>. QED
    BY <2>1, <2>2, <2>3
<1>3. PositionsUpTo(h) = ofTurns \o ofSpans
  <2>1. PositionsUpTo(h) = MarkerPositions(items, fit, SpansOf(h), Turns, names)
    BY <1>1 DEF PositionsUpTo
  <2>. HIDE DEF items, fit, names, l
  <2>2. MarkerPositions(items, fit, SpansOf(h), Turns, names) = ofTurns \o ofSpans
    BY <1>2 DEF MarkerPositions, PlaceOf
  <2>. QED
    BY <2>1, <2>2
<1>. HIDE DEF items, fit, names, l
<1>4. ofTurns \in Seq(E) /\ Len(ofTurns) = h /\ ofSpans \in Seq(E) /\ Len(ofSpans) = l
  <2>1. ofTurns \in [1 .. h -> E] /\ ofSpans \in [1 .. l -> E]
    OBVIOUS
  <2>. HIDE DEF ofTurns, ofSpans, E
  <2>. QED
    BY <1>1, <1>2, <2>1
<1>5. /\ Len(PositionsUpTo(h)) = Len(nodes)
      /\ \A k \in 1 .. Len(nodes) : PositionsUpTo(h)[k] = IF k <= h THEN ofTurns[k] ELSE ofSpans[k - h]
  <2>. HIDE DEF ofTurns, ofSpans, E
  <2>. QED
    BY <1>2, <1>3, <1>4, ConcatProperties
<1>6. \A k \in 1 .. h : PositionsUpTo(h)[k] = ofTurns[k]
  <2>. HIDE DEF ofTurns, ofSpans
  <2>. QED
    BY <1>1, <1>5
<1>7. \A k \in 1 .. Len(nodes) : k > h => PositionsUpTo(h)[k] = ofSpans[k - h] /\ k - h \in 1 .. l
  <2>. HIDE DEF ofTurns, ofSpans
  <2>. QED
    BY <1>1, <1>2, <1>5
<1>8. \A k \in 1 .. Len(nodes) : k > h => SpansOf(h)[k - h] = nodes[k].mentions
  <2>. TAKE k \in 1 .. Len(nodes)
  <2>. HAVE k > h
  <2>1. k - h \in 1 .. (Len(nodes) - h) /\ h + (k - h) = k
    BY <1>1
  <2>. QED
    BY <2>1 DEF SpansOf
<1>. QED
  BY <1>5, <1>6, <1>7, <1>8 DEF items, fit

(* The markers of a window whose speakers are heard in their order. *)
LEMMA MarksAreTheirs ==
  ASSUME window \in WindowsOfWords, NEW h \in 0 .. Len(Participants(window)), NodesFollow(h),
         NEW k \in DOMAIN nodes, NEW j \in DOMAIN nodes[k].mentions,
         NEW at, at = IF k <= Len(PositionsUpTo(h)) /\ j <= Len(PositionsUpTo(h)[k])
                      THEN PositionsUpTo(h)[k][j] ELSE 0
  PROVE  MarkerOpens(ItemsUpTo(h), at, nodes[k], nodes[k].mentions[j])
<1>. DEFINE positions == PositionsUpTo(h)
            items == ItemsUpTo(h)
            Place(item) == PlaceOf(items, Fit(items), item)
<1>1. h \in Nat /\ Len(nodes) \in Nat /\ k \in 1 .. Len(nodes)
  BY PassedOn DEF NodesFollow
<1>2. k <= Len(positions)
  BY <1>1, PositionsByNode
<1>3. CASE k <= h
  <2>. DEFINE own == TurnsOf(Turns, k)
  <2>1. k \in 1 .. h
    BY <1>1, <1>3
  <2>2. nodes[k] = SpeakerNode(k)
    BY <2>1 DEF NodesFollow
  <2>3. j \in DOMAIN own
    BY <2>2 DEF SpeakerNode
  <2>4. positions[k] = [i \in DOMAIN own |-> Place(<<"turn", own[i][1]>>)]
    BY <2>1, PositionsByNode
  <2>5. Len(own) \in Nat /\ DOMAIN own = 1 .. Len(own)
    <3>. DEFINE R == Analysed \X (1 .. h)
                K == {t \in ToSet(Turns) : t[2] = k}
    <3>1. Turns \in Seq(R)
      BY PassedOn DEF TurnsTell
    <3>2. own = Filter(Turns, K)
      BY DEF TurnsOf
    <3>. HIDE DEF R, K, own
    <3>3. own \in Seq(R \cap K)
      BY <3>1, <3>2, FilterType
    <3>. QED
      BY <3>3
  <2>. HIDE DEF own, Place, positions
  <2>6. Len(positions[k]) = Len(own) /\ positions[k][j] = Place(<<"turn", own[j][1]>>)
    BY <2>3, <2>4, <2>5
  <2>7. at = Place(<<"turn", own[j][1]>>)
    BY <1>2, <2>3, <2>5, <2>6 DEF positions
  <2>. QED
    BY <2>1, <2>3, <2>7, TurnIsOpened DEF own, Place
<1>4. CASE ~(k <= h)
  <2>. DEFINE own == nodes[k].mentions
  <2>1. k > h
    BY <1>1, <1>4
  <2>2. positions[k] = [i \in DOMAIN own |-> Place(<<"open", own[i][1]>>)]
    BY <1>1, <2>1, PositionsByNode
  <2>3. Len(own) \in Nat /\ DOMAIN own = 1 .. Len(own)
    <3>. DEFINE M == {x \in ItemsOf(SpansInOrder) : x[1] \in Analysed}
    <3>1. nodes[k] \in [speaker : {"nobody"}, mentions : Seq(M)]
      BY <1>1, <2>1 DEF NodesFollow, EntityNodes
    <3>. HIDE DEF M
    <3>2. nodes[k].mentions \in Seq(M)
      BY <3>1
    <3>. QED
      BY <3>2
  <2>4. j \in DOMAIN own
    OBVIOUS
  <2>. HIDE DEF own, Place, positions
  <2>5. Len(positions[k]) = Len(own) /\ positions[k][j] = Place(<<"open", own[j][1]>>)
    BY <2>2, <2>3, <2>4
  <2>6. at = Place(<<"open", own[j][1]>>)
    BY <1>2, <2>3, <2>4, <2>5 DEF positions
  <2>. QED
    BY <1>1, <2>1, <2>4, <2>6, MentionIsOpened DEF own, Place
<1>. QED
  BY <1>3, <1>4

(* Mark, for h speakers. *)
LEMMA MarkFollows ==
  ASSUME window \in WindowsOfWords, NEW h \in 0 .. Len(Participants(window)), NodesFollow(h), Mark
  PROVE  \/ markers' = markers /\ stage' # "facts"
         \/ /\ markers'.items = ItemsUpTo(h)
            /\ markers'.positions =
                 [k \in DOMAIN nodes |-> [j \in DOMAIN nodes[k].mentions |->
                    IF k <= Len(PositionsUpTo(h)) /\ j <= Len(PositionsUpTo(h)[k])
                    THEN PositionsUpTo(h)[k][j] ELSE 0]]
<1>. DEFINE n == Cardinality({k \in DOMAIN nodes : nodes[k].speaker # "nobody"})
            input(x) == MarkerInput([k \in 1..(Len(nodes) - x) |-> nodes[x + k].mentions],
                                 Filter(Turns, {t \in ToSet(Turns) : t[2] <= x}),
                                 SubSeq(Participants(window), 1, x))
            marks(x) == [items |-> input(x).items,
                      positions |-> [k \in DOMAIN nodes |->
                        [j \in DOMAIN nodes[k].mentions |->
                          IF k <= Len(input(x).positions) /\ j <= Len(input(x).positions[k])
                          THEN input(x).positions[k][j] ELSE 0]]]
<1>1. \/ markers' = markers /\ stage' # "facts"
      \/ markers' = marks(n)
  BY DEF Mark, Fail
<1>2. n = h
  BY DEF NodesFollow
<1>3. input(h).items = ItemsUpTo(h) /\ input(h).positions = PositionsUpTo(h)
  BY DEF MarkerInput, ItemsUpTo, PositionsUpTo, SpansOf, TurnsUpTo, NamesUpTo
<1>. HIDE DEF input, n
<1>4. CASE markers' = marks(n)
  <2>1. markers' = marks(h)
    BY <1>2, <1>4
  <2>. QED
    BY <1>3, <2>1
<1>. QED
  BY <1>1, <1>4

(* The inductive invariant: nothing is marked before Mark, and the nodes   *)
(* that it marks are speakers, in their order, and then entities.          *)
MInv ==
  /\ window \in WindowsOfWords /\ coref \in Seq(Seq(Nat \X Nat))
  /\ stage \in {"load", "idle", "plain", "coref", "linguistic", "entities", "markers"} =>
       markers.positions = <<>>
  /\ stage = "markers" => NodesAreMade
  /\ MarkersFollowSpeakers

(* Who is heard depends on the window only.                                *)
LEMMA SameHeard ==
  ASSUME UNCHANGED window
  PROVE  Heard' = Heard
<1>1. window' = window
  OBVIOUS
<1>2. Analysed' = Analysed
  BY <1>1, Zenon DEF Analysed, Alignment
<1>3. Turns' = Turns
  BY <1>1, <1>2, Zenon DEF Turns
<1>. QED
  BY <1>3, Zenon DEF Heard

(* Nothing about markers changes while they, the nodes and the window      *)
(* stay.                                                                   *)
LEMMA SameMarkers ==
  ASSUME MarkersFollowSpeakers, UNCHANGED <<window, nodes, markers>>
  PROVE  MarkersFollowSpeakers'
<1>1. nodes' = nodes /\ markers' = markers /\ window' = window /\ Heard' = Heard
  BY SameHeard
<1>2. PiecesOf(markers.items)' = PiecesOf(markers.items)
  BY <1>1, Zenon DEF PiecesOf
<1>3. MarkersOpenOwnTurns' <=> MarkersOpenOwnTurns
  BY <1>1, <1>2, Zenon DEF MarkersOpenOwnTurns
<1>. QED
  BY <1>1, <1>3, Zenon DEF MarkersFollowSpeakers

(* Without markers there is nothing to find.                               *)
LEMMA NoMarkers ==
  ASSUME markers.positions = <<>>
  PROVE  MarkersFollowSpeakers
BY DEF MarkersFollowSpeakers, MarkersOpenOwnTurns

(* Mark keeps it: the speakers are heard in their order, or nothing is     *)
(* claimed.                                                                *)
LEMMA MarkStep ==
  ASSUME MInv, Mark
  PROVE  MInv'
<1>1. /\ window \in WindowsOfWords /\ coref \in Seq(Seq(Nat \X Nat)) /\ stage = "markers" /\ NodesAreMade
      /\ UNCHANGED <<release, request, window, plain, coref, nodes, facts>> /\ MarkersFollowSpeakers
  BY DEF MInv, Mark
<1>2. stage' \in {"done", "facts", "failed"}
  BY DEF Mark, Fail
<1>3. MarkersFollowSpeakers'
  <2>. SUFFICES ASSUME (\A p \in Heard : 1 .. p \subseteq Heard)', ~(UNCHANGED markers)
               PROVE  MarkersOpenOwnTurns'
    BY <1>1, SameMarkers DEF MarkersFollowSpeakers
  <2>1. \A p \in Heard : 1 .. p \subseteq Heard
    BY <1>1, SameHeard
  <2>2. PICK h \in 0 .. Len(Participants(window)) : NodesFollow(h)
    BY <1>1, <2>1, NodesFollowSpeakers
  <2>. DEFINE At(k, j) == IF k <= Len(PositionsUpTo(h)) /\ j <= Len(PositionsUpTo(h)[k])
                          THEN PositionsUpTo(h)[k][j] ELSE 0
  <2>3. /\ markers'.items = ItemsUpTo(h)
        /\ markers'.positions = [k \in DOMAIN nodes |-> [j \in DOMAIN nodes[k].mentions |-> At(k, j)]]
    BY <1>1, <2>2, MarkFollows
  <2>4. \A k \in DOMAIN nodes : \A j \in DOMAIN nodes[k].mentions :
          MarkerOpens(ItemsUpTo(h), At(k, j), nodes[k], nodes[k].mentions[j])
    BY <1>1, <2>2, MarksAreTheirs
  <2>. HIDE DEF At
  <2>5. PiecesOf(ItemsUpTo(h)) = PiecesOf(markers.items)'
    BY <1>1, <2>3 DEF PiecesOf
  <2>6. \A k \in DOMAIN markers'.positions : \A j \in DOMAIN markers'.positions[k] :
          MarkerOpens(ItemsUpTo(h), markers'.positions[k][j], nodes[k], nodes[k].mentions[j])
    BY <2>3, <2>4
  <2>. QED
    BY <1>1, <2>3, <2>5, <2>6 DEF MarkersOpenOwnTurns, MarkerOpens
<1>. QED
  BY <1>1, <1>2, <1>3 DEF MInv

Unmarked == {"load", "idle", "plain", "coref", "linguistic", "entities", "markers"}

(* It holds of a release that is loaded.                                   *)
LEMMA MarkersInit ==
  ASSUME AInit
  PROVE  MInv
<1>1. window \in WindowsOfWords
  <2>. DEFINE R == [start : Nat, end : Nat, unit : Nat, speaker : STRING]
  <2>1. <<>> \in Seq(Nat) /\ <<>> \in Seq(R) /\ DOMAIN <<>> = {}
    OBVIOUS
  <2>. HIDE DEF R
  <2>2. window \in [pieces : Seq(Nat), sentences : Seq(R)] /\ window.sentences = <<>>
    BY <2>1 DEF AInit
  <2>. QED
    BY <2>1, <2>2 DEF WindowsOfWords, R
<1>2. coref \in Seq(Seq(Nat \X Nat)) /\ markers.positions = <<>> /\ stage = "load"
  BY DEF AInit
<1>. QED
  BY <1>1, <1>2, NoMarkers DEF MInv

(* Steps before Mark and after it that leave markers and nodes alone. *)
LEMMA UnmarkedStep ==
  ASSUME MInv, stage \in Unmarked \ {"markers"}, stage' \notin {"markers"}, markers' = markers,
         window' \in WindowsOfWords, coref' \in Seq(Seq(Nat \X Nat))
  PROVE  MInv'
<1>1. markers.positions = <<>>
  BY DEF MInv, Unmarked
<1>2. MarkersFollowSpeakers'
  BY <1>1 DEF MarkersFollowSpeakers, MarkersOpenOwnTurns
<1>. QED
  BY <1>1, <1>2 DEF MInv

(* Group keeps it: it makes the nodes and leaves the markers.              *)
LEMMA GroupStep ==
  ASSUME MInv, Group
  PROVE  MInv'
<1>1. /\ window \in WindowsOfWords /\ coref \in Seq(Seq(Nat \X Nat)) /\ stage = "entities" /\ markers.positions = <<>>
      /\ window' = window /\ coref' = coref /\ markers' = markers
  BY DEF MInv, Group
<1>2. CASE stage' = "failed"
  <2>1. stage \in Unmarked \ {"markers"} /\ stage' \notin {"markers"}
    BY <1>1, <1>2 DEF Unmarked
  <2>. QED
    BY <1>1, <2>1, UnmarkedStep
<1>3. CASE stage' # "failed"
  <2>1. PICK kept \in Seq(EntityNodes) : nodes' = SpeakerNodes \o kept
    BY <1>1, <1>3, GroupMakesNodes
  <2>2. Analysed' = Analysed /\ Turns' = Turns /\ Heard' = Heard
    <3>1. Analysed' = Analysed
      BY <1>1, Zenon DEF Analysed, Alignment
    <3>2. Turns' = Turns
      BY <1>1, <3>1, Zenon DEF Turns
    <3>. QED
      BY <1>1, <3>1, <3>2, SameHeard
  <2>3. EntityNodes' = EntityNodes
    <3>1. SpansInOrder' = SpansInOrder
      BY <1>1, Zenon DEF SpansInOrder
    <3>. QED
      BY <2>2, <3>1, Zenon DEF EntityNodes
  <2>4. SpeakerNodes' = SpeakerNodes
    <3>1. Speaking' = Speaking
      BY <1>1, <2>2, Zenon DEF Speaking
    <3>2. \A p : SpeakerNode(p)' = SpeakerNode(p)
      BY <1>1, <2>2, Zenon DEF SpeakerNode
    <3>. QED
      BY <1>1, <2>2, <3>1, <3>2, Zenon DEF SpeakerNodes, SpeakerNode
  <2>5. NodesAreMade'
    BY <2>1, <2>3, <2>4 DEF NodesAreMade
  <2>6. MarkersFollowSpeakers'
    BY <1>1 DEF MarkersFollowSpeakers, MarkersOpenOwnTurns
  <2>. QED
    BY <1>1, <2>5, <2>6 DEF MInv
<1>. QED
  BY <1>2, <1>3

(* Every marker that the relation pass reads opens its own turn, with the  *)
(* name of its own speaker, or its own mention, and none is missing while  *)
(* the rewritten window fits its budget, for any windows, requests, typed  *)
(* spans and chains, unless a participant without an analysed turn comes   *)
(* before one that has one (align.rs, marker_input; pipeline.rs,           *)
(* relations).                                                             *)
THEOREM MarkersAreTheirs == ASpec => []MarkersFollowSpeakers
<1>1. AInit => MInv
  BY MarkersInit
<1>2. MInv /\ [ANext]_avars => MInv'
  <2>. SUFFICES ASSUME MInv, [ANext]_avars PROVE MInv'
    OBVIOUS
  <2>1. window \in WindowsOfWords /\ coref \in Seq(Seq(Nat \X Nat)) /\ MarkersFollowSpeakers
    BY DEF MInv
  <2>2. CASE AcceptRelease
    <3>1. stage = "load" /\ stage' \in {"idle", "failed"} /\ UNCHANGED <<window, coref, markers>>
      BY <2>2 DEF AcceptRelease, Fail
    <3>. QED
      BY <2>1, <3>1, UnmarkedStep DEF Unmarked
  <2>3. ASSUME NEW r \in Requests, NEW w \in Windows, Ask(r, w) PROVE MInv'
    <3>1. stage = "idle" /\ stage' \in {"done", "plain"} /\ window' = w /\ UNCHANGED <<coref, markers>>
      BY <2>3 DEF Ask
    <3>2. window' \in WindowsOfWords
      BY <3>1, WindowsType
    <3>. QED
      BY <2>1, <3>1, <3>2, UnmarkedStep DEF Unmarked
  <2>4. CASE RunPlain
    <3>1. stage = "plain" /\ stage' \in {"coref", "linguistic", "failed"} /\ UNCHANGED <<window, coref, markers>>
      BY <2>4 DEF RunPlain, Fail
    <3>. QED
      BY <2>1, <3>1, UnmarkedStep DEF Unmarked
  <2>5. CASE Coref
    <3>1. /\ stage = "coref" /\ stage' \in {"linguistic", "failed"} /\ UNCHANGED <<window, markers>>
          /\ coref' \in Chains \/ coref' = coref
      BY <2>5 DEF Coref, Fail
    <3>2. coref' \in Seq(Seq(Nat \X Nat))
      BY <2>1, <3>1, DecodedType
    <3>. QED
      BY <2>1, <3>1, <3>2, UnmarkedStep DEF Unmarked
  <2>6. CASE Analyse
    <3>1. stage = "linguistic" /\ stage' \in {"entities", "done", "failed"} /\ UNCHANGED <<window, coref, markers>>
      BY <2>6 DEF Analyse, Fail
    <3>. QED
      BY <2>1, <3>1, UnmarkedStep DEF Unmarked
  <2>7. CASE Group
    BY <2>7, GroupStep
  <2>8. CASE Mark
    BY <2>8, MarkStep
  <2>9. CASE Relate
    <3>1. stage = "facts" /\ stage' \in {"done", "failed"} /\ UNCHANGED <<window, coref, nodes, markers>>
      BY <2>9 DEF Relate, Fail
    <3>2. MarkersFollowSpeakers'
      BY <2>1, <3>1, SameMarkers
    <3>. QED
      BY <2>1, <3>1, <3>2 DEF MInv
  <2>10. CASE UNCHANGED avars
    <3>1. UNCHANGED <<stage, window, coref, nodes, markers>>
      BY <2>10 DEF avars
    <3>2. MarkersFollowSpeakers'
      BY <2>1, <3>1, SameMarkers
    <3>3. NodesAreMade' <=> NodesAreMade
      <4>1. Analysed' = Analysed /\ Turns' = Turns /\ Heard' = Heard
        <5>1. Analysed' = Analysed
          BY <3>1, Zenon DEF Analysed, Alignment
        <5>2. Turns' = Turns
          BY <3>1, <5>1, Zenon DEF Turns
        <5>. QED
          BY <3>1, <5>1, <5>2, SameHeard
      <4>. QED
        BY <3>1, <4>1, Zenon DEF NodesAreMade, EntityNodes, SpansInOrder, SpeakerNodes, Speaking, SpeakerNode
    <3>. QED
      BY <2>1, <3>1, <3>2, <3>3 DEF MInv
  <2>. QED
    BY <2>2, <2>3, <2>4, <2>5, <2>6, <2>7, <2>8, <2>9, <2>10 DEF ANext
<1>3. MInv => MarkersFollowSpeakers
  BY DEF MInv
<1>. QED
  BY <1>1, <1>2, <1>3, PTL DEF ASpec

-----------------------------------------------------------------------------
(***************************************************************************)
(* NlpTags: the Viterbi path.  The forward pass keeps, for each tag, what  *)
(* the best path that ends in it scores; the path read back reaches the    *)
(* best of these, so that no path scores more, and a path that strays from *)
(* the constraints is worse than one that obeys them.                      *)
(***************************************************************************)
(* The argmax of a row (argmax_f64) is one of its places, and nothing in   *)
(* the row is larger.                                                      *)
LEMMA ArgMaxIsThere ==
  ASSUME NEW c \in Nat \ {0}, NEW row \in [1 .. c -> Int]
  PROVE  ArgMax(row) \in 1 .. c /\ \A j \in 1 .. c : row[j] <= row[ArgMax(row)]
<1>. DEFINE Top(i, m) == (\A j \in 1 .. m : row[j] <= row[i]) /\ (\A j \in 1 .. (i - 1) : row[j] < row[i])
            T == {m \in Nat : m + 1 <= c => \E i \in 1 .. m + 1 : Top(i, m + 1)}
<1>0. \A i \in 1 .. c : row[i] \in Int
  OBVIOUS
<1>1. 0 \in T
  <2>1. 1 <= c => Top(1, 1)
    BY <1>0
  <2>. QED
    BY <2>1
<1>2. ASSUME NEW m \in Nat, m \in T PROVE m + 1 \in T
  <2>. SUFFICES ASSUME (m + 1) + 1 <= c PROVE \E i \in 1 .. (m + 1) + 1 : Top(i, (m + 1) + 1)
    OBVIOUS
  <2>1. PICK i \in 1 .. m + 1 : Top(i, m + 1)
    BY <1>2
  <2>. DEFINE n == (m + 1) + 1
  <2>2. n \in 1 .. c /\ (\A j \in 1 .. n : j \in 1 .. c) /\ (\A j \in 1 .. n : j \in 1 .. m + 1 \/ j = n) /\ i \in 1 .. n
    OBVIOUS
  <2>3. CASE row[n] <= row[i]
    <3>1. Top(i, n)
      BY <2>1, <2>2, <2>3
    <3>. QED
      BY <2>2, <3>1
  <2>4. CASE ~(row[n] <= row[i])
    <3>1. \A j \in 1 .. m + 1 : row[j] < row[n]
      <4>. TAKE j \in 1 .. m + 1
      <4>1. j \in 1 .. c /\ row[j] <= row[i]
        BY <2>1
      <4>2. row[j] \in Int /\ row[i] \in Int /\ row[n] \in Int
        BY <1>0, <2>2, <4>1
      <4>. QED
        BY <2>4, <4>1, <4>2
    <3>2. \A j \in 1 .. (n - 1) : j \in 1 .. m + 1
      OBVIOUS
    <3>3. \A j \in 1 .. n : row[j] <= row[n]
      BY <1>0, <2>2, <3>1
    <3>4. Top(n, n)
      BY <3>1, <3>2, <3>3
    <3>. QED
      BY <2>2, <3>4
  <2>. QED
    BY <2>3, <2>4
<1>3. \A m \in Nat : m \in T
  <2>. HIDE DEF T
  <2>. QED
    BY <1>1, <1>2, NatInductive
<1>4. \E i \in 1 .. c : Top(i, c)
  <2>1. c - 1 \in Nat /\ (c - 1) + 1 = c
    OBVIOUS
  <2>2. c - 1 \in T
    BY <1>3, <2>1
  <2>3. \E i \in 1 .. (c - 1) + 1 : Top(i, (c - 1) + 1)
    BY <2>1, <2>2
  <2>. HIDE DEF Top
  <2>. QED
    BY <2>1, <2>3
<1>. QED
  BY <1>4 DEF ArgMax

(* What viterbi is called with: n positions scored over c tags, which tags *)
(* may open and follow one another, and which are kept where.              *)
Scored(c, n, logp, bio, keep) ==
  /\ c \in Nat \ {0} /\ n \in Nat \ {0} /\ logp \in Seq([1 .. c -> Int]) /\ Len(logp) = n
  /\ bio \in [allowed : [1 .. c -> [1 .. c -> BOOLEAN]], start : [1 .. c -> BOOLEAN]]
  /\ keep \in [1 .. n -> [1 .. c -> BOOLEAN]]

(* What a position, an opening and a passage add to a path are integers.   *)
LEMMA ScoresTyped ==
  ASSUME NEW c, NEW n, NEW logp, NEW bio, NEW keep, Scored(c, n, logp, bio, keep)
  PROVE  /\ c \in Nat \ {0} /\ n \in Nat \ {0} /\ Len(logp) = n /\ DOMAIN bio.start = 1 .. c
         /\ \A t \in 1 .. n, k \in 1 .. c : Lp(logp, keep, t, k) \in Int
         /\ \A k \in 1 .. c : Opening(logp, bio, keep, k) \in Int
         /\ \A i, j \in 1 .. c : Passing(bio, i, j) \in Int
<1>. DEFINE R == [1 .. c -> Int]
<1>1. c \in Nat \ {0} /\ n \in Nat \ {0} /\ Len(logp) = n /\ DOMAIN bio.start = 1 .. c /\ logp \in Seq(R)
  BY DEF Scored
<1>2. \A t \in 1 .. n : logp[t] \in R
  <2>. HIDE DEF R
  <2>. QED
    BY <1>1
<1>3. \A t \in 1 .. n, k \in 1 .. c : logp[t][k] \in Int
  BY <1>2
<1>4. Forbidden \in Int
  BY DEF Forbidden
<1>5. \A t \in 1 .. n, k \in 1 .. c : Lp(logp, keep, t, k) \in Int
  BY <1>3, <1>4 DEF Lp
<1>6. \A k \in 1 .. c : Opening(logp, bio, keep, k) \in Int
  <2>1. 1 \in 1 .. n
    BY <1>1
  <2>2. \A k \in 1 .. c : Lp(logp, keep, 1, k) \in Int
    BY <1>5, <2>1
  <2>. QED
    BY <1>4, <2>2 DEF Opening
<1>7. \A i, j \in 1 .. c : Passing(bio, i, j) \in Int
  BY <1>4 DEF Passing
<1>. QED
  BY <1>1, <1>5, <1>6, <1>7

(* What BestScores is defined by: the scores of the first position, and of *)
(* each position from those before.                                        *)
ScoresAfter(prev, logp, bio, keep, t) ==
  [j \in DOMAIN bio.start |->
     LET via == Via(prev, bio, j) IN via[ArgMax(via)] + Lp(logp, keep, t, j)]
AreBest(h, logp, bio, keep) ==
  h = [t \in 1 .. Len(logp) |->
         IF t = 1 THEN [k \in DOMAIN bio.start |-> Opening(logp, bio, keep, k)]
         ELSE ScoresAfter(h[t - 1], logp, bio, keep, t)]

(* The scores of a tag behind each tag, and the best of them.              *)
Weighed(prev, bio, j, c) ==
  /\ Via(prev, bio, j) \in [1 .. c -> Int]
  /\ \A i \in 1 .. c : Via(prev, bio, j)[i] = prev[i] + Passing(bio, i, j)
  /\ ArgMax(Via(prev, bio, j)) \in 1 .. c
  /\ \A i \in 1 .. c : Via(prev, bio, j)[i] <= Via(prev, bio, j)[ArgMax(Via(prev, bio, j))]

(* What viterbi compares behind a tag is typed, and so is what it chooses. *)
LEMMA ViaTyped ==
  ASSUME NEW c, NEW n, NEW logp, NEW bio, NEW keep, Scored(c, n, logp, bio, keep),
         NEW prev \in [1 .. c -> Int], NEW j \in 1 .. c
  PROVE  Weighed(prev, bio, j, c)
<1>. DEFINE via == Via(prev, bio, j)
<1>1. c \in Nat \ {0} /\ \A i \in 1 .. c : Passing(bio, i, j) \in Int
  BY ScoresTyped
<1>2. via = [i \in 1 .. c |-> prev[i] + Passing(bio, i, j)]
  BY DEF Via
<1>3. via \in [1 .. c -> Int] /\ \A i \in 1 .. c : via[i] = prev[i] + Passing(bio, i, j)
  <2>1. \A i \in 1 .. c : prev[i] + Passing(bio, i, j) \in Int
    BY <1>1
  <2>. HIDE DEF via
  <2>. QED
    BY <1>2, <2>1
<1>. HIDE DEF via
<1>4. ArgMax(via) \in 1 .. c /\ \A i \in 1 .. c : via[i] <= via[ArgMax(via)]
  BY <1>1, <1>3, ArgMaxIsThere
<1>. QED
  BY <1>3, <1>4 DEF via, Weighed

(* The scores of a position are integers, each the best one behind and     *)
(* what the tag adds.                                                      *)
LEMMA ScoresAfterTyped ==
  ASSUME NEW c, NEW n, NEW logp, NEW bio, NEW keep, Scored(c, n, logp, bio, keep),
         NEW prev \in [1 .. c -> Int], NEW t \in 1 .. n
  PROVE  /\ ScoresAfter(prev, logp, bio, keep, t) \in [1 .. c -> Int]
         /\ \A j \in 1 .. c : ScoresAfter(prev, logp, bio, keep, t)[j] =
              Via(prev, bio, j)[ArgMax(Via(prev, bio, j))] + Lp(logp, keep, t, j)
<1>. DEFINE after == ScoresAfter(prev, logp, bio, keep, t)
            At(j) == Via(prev, bio, j)[ArgMax(Via(prev, bio, j))] + Lp(logp, keep, t, j)
<1>1. DOMAIN bio.start = 1 .. c /\ \A j \in 1 .. c : Lp(logp, keep, t, j) \in Int
  BY ScoresTyped
<1>2. after = [j \in 1 .. c |-> At(j)]
  BY <1>1 DEF ScoresAfter
<1>3. \A j \in 1 .. c : At(j) \in Int
  <2>. TAKE j \in 1 .. c
  <2>. DEFINE via == Via(prev, bio, j)
  <2>1. via \in [1 .. c -> Int] /\ ArgMax(via) \in 1 .. c
    BY ViaTyped DEF Weighed
  <2>2. Lp(logp, keep, t, j) \in Int
    BY <1>1
  <2>. HIDE DEF via
  <2>3. via[ArgMax(via)] + Lp(logp, keep, t, j) \in Int
    BY <2>1, <2>2
  <2>. QED
    BY <2>3 DEF via
<1>. HIDE DEF At, after
<1>4. after \in [1 .. c -> Int] /\ \A j \in 1 .. c : after[j] = At(j)
  BY <1>2, <1>3
<1>. QED
  BY <1>4 DEF after, At

(* What the forward pass of viterbi leaves at each position.               *)
Scores(best, c, n, logp, bio, keep) ==
  /\ \A t \in 1 .. n : best[t] \in [1 .. c -> Int]
  /\ \A k \in 1 .. c : best[1][k] = Opening(logp, bio, keep, k)
  /\ \A t \in 2 .. n : best[t] = ScoresAfter(best[t - 1], logp, bio, keep, t)

(* BestScores, a recursive function, is what the forward pass computes:    *)
(* there is such a function, and only one.                                 *)
LEMMA BestScoresFollow ==
  ASSUME NEW c, NEW n, NEW logp, NEW bio, NEW keep, Scored(c, n, logp, bio, keep)
  PROVE  Scores(BestScores(logp, bio, keep), c, n, logp, bio, keep)
<1>. DEFINE X == [1 .. c -> Int]
            base == [k \in 1 .. c |-> Opening(logp, bio, keep, k)]
            step == [t \in 2 .. n |-> [x \in X |-> ScoresAfter(x, logp, bio, keep, t)]]
            best == BestScores(logp, bio, keep)
<1>1. /\ c \in Nat \ {0} /\ n \in Nat \ {0} /\ Len(logp) = n /\ DOMAIN bio.start = 1 .. c
      /\ \A k \in 1 .. c : Opening(logp, bio, keep, k) \in Int
  BY ScoresTyped
<1>2. base \in X
  BY <1>1
<1>3. step \in [2 .. n -> [X -> X]]
  <2>1. \A t \in 2 .. n : t \in 1 .. n
    BY <1>1
  <2>. HIDE DEF X
  <2>2. \A t \in 2 .. n : \A x \in X : ScoresAfter(x, logp, bio, keep, t) \in X
    BY <2>1, ScoresAfterTyped DEF X
  <2>. QED
    BY <2>2
<1>. HIDE DEF X, base, step
<1>4. PICK f \in [1 .. n -> X] : StepsBehind(f, n, base, step)
  BY <1>1, <1>2, <1>3, StepsBehindExist
<1>5. f = [t \in 1 .. n |-> IF t = 1 THEN base ELSE ScoresAfter(f[t - 1], logp, bio, keep, t)]
  <2>1. \A t \in 1 .. n : f[t] = IF t = 1 THEN base ELSE ScoresAfter(f[t - 1], logp, bio, keep, t)
    <3>. TAKE t \in 1 .. n
    <3>1. CASE t = 1
      BY <1>4, <3>1 DEF StepsBehind
    <3>2. CASE t # 1
      <4>1. t \in 2 .. n /\ t - 1 \in 1 .. n
        BY <1>1, <3>2
      <4>2. f[t - 1] \in X /\ f[t] = step[t][f[t - 1]]
        BY <1>4, <4>1 DEF StepsBehind
      <4>. QED
        BY <3>2, <4>1, <4>2 DEF step
    <3>. QED
      BY <3>1, <3>2
  <2>. QED
    BY <2>1
<1>6. AreBest(f, logp, bio, keep)
  BY <1>1, <1>5 DEF AreBest, base
<1>7. best = CHOOSE h : AreBest(h, logp, bio, keep)
  BY DEF BestScores, AreBest, ScoresAfter
<1>8. AreBest(best, logp, bio, keep)
  <2>. HIDE DEF best
  <2>. QED
    BY <1>6, <1>7
<1>. HIDE DEF best
<1>9. best = [t \in 1 .. n |-> IF t = 1 THEN base ELSE ScoresAfter(best[t - 1], logp, bio, keep, t)]
  BY <1>1, <1>8 DEF AreBest, base
<1>10. best[1] = base /\ \A t \in 2 .. n : best[t] = ScoresAfter(best[t - 1], logp, bio, keep, t)
  <2>1. 1 \in 1 .. n /\ \A t \in 2 .. n : t \in 1 .. n /\ t # 1
    BY <1>1
  <2>. QED
    BY <1>9, <2>1
<1>11. \A t \in 2 .. n : best[t - 1] \in X => best[t] = step[t][best[t - 1]]
  BY <1>10 DEF step
<1>12. \A t \in 1 .. n : best[t] = f[t]
  <2>1. SteppingBehind(X, n, base, step) /\ StepsBehindIn(f, X, n, base, step) /\ StepsBehindWith(best, X, n, base, step)
    BY <1>1, <1>2, <1>3, <1>4, <1>10, <1>11 DEF SteppingBehind, StepsBehindIn, StepsBehindWith
  <2>2. AgreeOn(f, best, 1 .. n)
    BY <2>1, StepsBehindAgree
  <2>. QED
    BY <2>2 DEF AgreeOn
<1>13. \A t \in 1 .. n : best[t] \in X
  BY <1>12
<1>14. \A k \in 1 .. c : best[1][k] = Opening(logp, bio, keep, k)
  BY <1>10 DEF base
<1>. QED
  BY <1>10, <1>13, <1>14 DEF best, X, Scores

(* What PathScore is defined by, and what a path adds up to with it.       *)
ScoresPath(h, logp, bio, keep, path) ==
  h = [t \in 1 .. Len(logp) |->
         IF t = 1 THEN Opening(logp, bio, keep, path[1])
         ELSE h[t - 1] + Passing(bio, path[t - 1], path[t]) + Lp(logp, keep, t, path[t])]

PathAdds(f, n, logp, bio, keep, path) ==
  /\ f \in [1 .. n -> Int] /\ f[n] = PathScore(logp, bio, keep, path)
  /\ f[1] = Opening(logp, bio, keep, path[1])
  /\ \A t \in 2 .. n : f[t] = f[t - 1] + Passing(bio, path[t - 1], path[t]) + Lp(logp, keep, t, path[t])

(* The score of a path is the sum over its positions.                      *)
LEMMA PathScoreAdds ==
  ASSUME NEW c, NEW n, NEW logp, NEW bio, NEW keep, Scored(c, n, logp, bio, keep),
         NEW path \in [1 .. n -> 1 .. c]
  PROVE  \E f : PathAdds(f, n, logp, bio, keep, path)
<1>. DEFINE Adds(t) == Passing(bio, path[t - 1], path[t]) + Lp(logp, keep, t, path[t])
            base == Opening(logp, bio, keep, path[1])
            step == [t \in 2 .. n |-> [x \in Int |-> x + Passing(bio, path[t - 1], path[t]) + Lp(logp, keep, t, path[t])]]
            g == CHOOSE h : ScoresPath(h, logp, bio, keep, path)
<1>1. /\ c \in Nat \ {0} /\ n \in Nat \ {0} /\ Len(logp) = n
      /\ \A t \in 1 .. n, k \in 1 .. c : Lp(logp, keep, t, k) \in Int
      /\ \A k \in 1 .. c : Opening(logp, bio, keep, k) \in Int
      /\ \A i, j \in 1 .. c : Passing(bio, i, j) \in Int
  BY ScoresTyped
<1>2. \A t \in 2 .. n : t \in 1 .. n /\ t - 1 \in 1 .. n /\ path[t] \in 1 .. c /\ path[t - 1] \in 1 .. c
  <2>1. \A t \in 2 .. n : t \in 1 .. n /\ t - 1 \in 1 .. n
    BY <1>1
  <2>2. \A t \in 1 .. n : path[t] \in 1 .. c
    OBVIOUS
  <2>. QED
    BY <2>1, <2>2
<1>3. 1 \in 1 .. n /\ path[1] \in 1 .. c /\ base \in Int
  BY <1>1
<1>4. step \in [2 .. n -> [Int -> Int]]
  <2>1. \A t \in 2 .. n : \A x \in Int : x + Passing(bio, path[t - 1], path[t]) + Lp(logp, keep, t, path[t]) \in Int
    <3>. TAKE t \in 2 .. n
    <3>1. Passing(bio, path[t - 1], path[t]) \in Int /\ Lp(logp, keep, t, path[t]) \in Int
      BY <1>1, <1>2
    <3>. QED
      BY <3>1
  <2>. QED
    BY <2>1
<1>. HIDE DEF base, step
<1>5. PICK f \in [1 .. n -> Int] : StepsBehind(f, n, base, step)
  BY <1>1, <1>3, <1>4, StepsBehindExist
<1>6. \A t \in 2 .. n : f[t] = f[t - 1] + Passing(bio, path[t - 1], path[t]) + Lp(logp, keep, t, path[t])
  <2>. TAKE t \in 2 .. n
  <2>1. f[t] = step[t][f[t - 1]] /\ f[t - 1] \in Int
    BY <1>2, <1>5 DEF StepsBehind
  <2>. QED
    BY <2>1 DEF step
<1>7. f = [t \in 1 .. n |-> IF t = 1 THEN base
                           ELSE f[t - 1] + Passing(bio, path[t - 1], path[t]) + Lp(logp, keep, t, path[t])]
  <2>1. \A t \in 1 .. n : t # 1 => t \in 2 .. n
    BY <1>1
  <2>2. f[1] = base
    BY <1>5 DEF StepsBehind
  <2>. QED
    BY <1>6, <2>1, <2>2
<1>8. ScoresPath(f, logp, bio, keep, path)
  BY <1>1, <1>7 DEF ScoresPath, base
<1>9. ScoresPath(g, logp, bio, keep, path)
  BY <1>8
<1>10. PathScore(logp, bio, keep, path) = g[n]
  BY <1>1 DEF PathScore, ScoresPath
<1>. HIDE DEF g
<1>11. g = [t \in 1 .. n |-> IF t = 1 THEN base
                            ELSE g[t - 1] + Passing(bio, path[t - 1], path[t]) + Lp(logp, keep, t, path[t])]
  BY <1>1, <1>9 DEF ScoresPath, base
<1>12. g[1] = base /\ \A t \in 2 .. n : g[t - 1] \in Int => g[t] = step[t][g[t - 1]]
  <2>1. g[1] = base
    BY <1>3, <1>11
  <2>2. ASSUME NEW t \in 2 .. n, g[t - 1] \in Int PROVE g[t] = step[t][g[t - 1]]
    <3>1. g[t] = g[t - 1] + Passing(bio, path[t - 1], path[t]) + Lp(logp, keep, t, path[t])
      <4>1. t \in 1 .. n /\ t # 1
        BY <1>2
      <4>. QED
        BY <1>11, <4>1
    <3>. QED
      BY <2>2, <3>1 DEF step
  <2>. QED
    BY <2>1, <2>2
<1>13. \A t \in 1 .. n : g[t] = f[t]
  <2>1. SteppingBehind(Int, n, base, step) /\ StepsBehindIn(f, Int, n, base, step) /\ StepsBehindWith(g, Int, n, base, step)
    BY <1>1, <1>3, <1>4, <1>5, <1>12 DEF SteppingBehind, StepsBehindIn, StepsBehindWith
  <2>2. AgreeOn(f, g, 1 .. n)
    BY <2>1, StepsBehindAgree
  <2>. QED
    BY <2>2 DEF AgreeOn
<1>14. f[n] = PathScore(logp, bio, keep, path) /\ f[1] = base
  <2>1. n \in 1 .. n
    BY <1>1
  <2>. QED
    BY <1>5, <1>10, <1>13, <2>1 DEF StepsBehind
<1>. QED
  BY <1>6, <1>14 DEF base, PathAdds

(* The path that Viterbi reads back: its last tag is the best one, and     *)
(* each tag before is the best behind which the next can come.             *)
ReadsBack(h, best, bio, n) ==
  h = [k \in 0 .. (n - 1) |->
         IF k = 0 THEN ArgMax(best[n])
         ELSE LET next == h[k - 1] IN ArgMax(Via(best[n - k], bio, next))]

ReadFrom(path, best, c, n, bio) ==
  /\ path \in [1 .. n -> 1 .. c] /\ path[n] = ArgMax(best[n])
  /\ \A t \in 2 .. n : path[t - 1] = ArgMax(Via(best[t - 1], bio, path[t]))

(* The path of viterbi ends in the best last tag, and each tag before is   *)
(* the one whose score the next one was given (back).                      *)
LEMMA ViterbiFollows ==
  ASSUME NEW c, NEW n, NEW logp, NEW bio, NEW keep, Scored(c, n, logp, bio, keep)
  PROVE  ReadFrom(Viterbi(logp, bio, keep), BestScores(logp, bio, keep), c, n, bio)
<1>. DEFINE path == Viterbi(logp, bio, keep)
            best == BestScores(logp, bio, keep)
            X == 1 .. c
            m == n - 1
            base == ArgMax(best[n])
            step == [k \in 1 .. m |-> [x \in X |-> ArgMax(Via(best[n - k], bio, x))]]
            back == CHOOSE h : ReadsBack(h, best, bio, n)
<1>1. c \in Nat \ {0} /\ n \in Nat \ {0} /\ Len(logp) = n /\ m \in Nat
  BY ScoresTyped
<1>2. \A t \in 1 .. n : best[t] \in [1 .. c -> Int]
  <2>1. Scores(best, c, n, logp, bio, keep)
    BY BestScoresFollow
  <2>. QED
    BY <2>1 DEF Scores
<1>. HIDE DEF best
<1>3. base \in X
  <2>1. best[n] \in [1 .. c -> Int]
    BY <1>1, <1>2
  <2>. QED
    BY <1>1, <2>1, ArgMaxIsThere
<1>4. step \in [1 .. m -> [X -> X]]
  <2>1. \A k \in 1 .. m : n - k \in 1 .. n
    BY <1>1
  <2>2. \A k \in 1 .. m : \A x \in X : ArgMax(Via(best[n - k], bio, x)) \in X
    BY <1>2, <2>1, ViaTyped DEF Weighed
  <2>. HIDE DEF X
  <2>. QED
    BY <2>2
<1>. HIDE DEF X, base, step, m
<1>5. PICK f \in [0 .. m -> X] : FoldsTo(f, m, base, step)
  BY <1>1, <1>3, <1>4, StepsExist
<1>6. f[0] = base /\ \A k \in 1 .. m : f[k] = ArgMax(Via(best[n - k], bio, f[k - 1])) /\ f[k - 1] \in X
  <2>1. f[0] = base /\ \A k \in 1 .. m : f[k] = step[k][f[k - 1]]
    BY <1>5 DEF FoldsTo
  <2>2. \A k \in 1 .. m : k - 1 \in 0 .. m
    BY <1>1
  <2>. QED
    BY <1>5, <2>1, <2>2 DEF step
<1>7. ReadsBack(f, best, bio, n)
  <2>1. \A k \in 0 .. m : k # 0 => k \in 1 .. m
    BY <1>1
  <2>2. f = [k \in 0 .. m |-> IF k = 0 THEN base ELSE ArgMax(Via(best[n - k], bio, f[k - 1]))]
    BY <1>6, <2>1
  <2>. QED
    BY <2>2 DEF ReadsBack, base, m
<1>8. ReadsBack(back, best, bio, n)
  BY <1>7
<1>9. path = [t \in 1 .. n |-> back[n - t]]
  BY <1>1 DEF Viterbi, ReadsBack, best
<1>. HIDE DEF path
<1>. HIDE DEF back
<1>10. back = [k \in 0 .. m |-> IF k = 0 THEN base ELSE ArgMax(Via(best[n - k], bio, back[k - 1]))]
  BY <1>8 DEF ReadsBack, base, m
<1>11. back[0] = base /\ \A k \in 1 .. m : back[k] = ArgMax(Via(best[n - k], bio, back[k - 1]))
  <2>1. 0 \in 0 .. m /\ \A k \in 1 .. m : k \in 0 .. m /\ k # 0
    BY <1>1
  <2>. QED
    BY <1>10, <2>1
<1>12. \A k \in 0 .. m : back[k] = f[k]
  <2>1. \A k \in 1 .. m : back[k - 1] \in X => back[k] = step[k][back[k - 1]]
    BY <1>11 DEF step
  <2>2. m \in Nat /\ back[0] = base
    BY <1>1, <1>11
  <2>3. Stepping(X, m, base, step) /\ StepsIn(f, X, m, base, step) /\ StepsWith(back, X, m, base, step)
    BY <1>3, <1>4, <1>5, <2>1, <2>2 DEF Stepping, StepsIn, StepsWith
  <2>4. AgreeOn(f, back, 0 .. m)
    BY <2>3, StepsAgree
  <2>. QED
    BY <2>4 DEF AgreeOn
<1>13. path \in [1 .. n -> X]
  <2>1. \A t \in 1 .. n : n - t \in 0 .. m
    BY <1>1 DEF m
  <2>2. \A t \in 1 .. n : back[n - t] \in X
    BY <1>5, <1>12, <2>1
  <2>. QED
    BY <1>9, <2>2
<1>14. path[n] = ArgMax(best[n])
  <2>1. n \in 1 .. n /\ n - n = 0
    BY <1>1
  <2>. QED
    BY <1>9, <1>11, <2>1 DEF base
<1>15. ASSUME NEW t \in 2 .. n PROVE path[t - 1] = ArgMax(Via(best[t - 1], bio, path[t]))
  <2>1. /\ t \in 1 .. n /\ t - 1 \in 1 .. n /\ n - (t - 1) \in 1 .. m
        /\ n - (n - (t - 1)) = t - 1 /\ (n - (t - 1)) - 1 = n - t
    BY <1>1 DEF m
  <2>2. path[t - 1] = back[n - (t - 1)] /\ path[t] = back[n - t]
    BY <1>9, <2>1
  <2>3. back[n - (t - 1)] = ArgMax(Via(best[n - (n - (t - 1))], bio, back[(n - (t - 1)) - 1]))
    BY <1>11, <2>1
  <2>. QED
    BY <2>1, <2>2, <2>3
<1>. QED
  BY <1>13, <1>14, <1>15 DEF X, ReadFrom, path, best

(* No path up to t scores more than the best one that ends in its tag: by  *)
(* induction over the positions, the passage from the tag before being one *)
(* that the forward pass compared.                                         *)
LEMMA NoPathScoresMore ==
  ASSUME NEW c, NEW n, NEW logp, NEW bio, NEW keep, Scored(c, n, logp, bio, keep),
         NEW path \in [1 .. n -> 1 .. c], NEW best, Scores(best, c, n, logp, bio, keep)
  PROVE  PathScore(logp, bio, keep, path) <= best[n][path[n]]
<1>1. c \in Nat \ {0} /\ n \in Nat \ {0} /\ \A t \in 1 .. n : best[t] \in [1 .. c -> Int] /\ path[t] \in 1 .. c
  BY ScoresTyped DEF Scores
<1>2. PICK f : PathAdds(f, n, logp, bio, keep, path)
  BY PathScoreAdds
<1>f. /\ f \in [1 .. n -> Int] /\ f[n] = PathScore(logp, bio, keep, path)
      /\ f[1] = Opening(logp, bio, keep, path[1])
      /\ \A t \in 2 .. n : f[t] = f[t - 1] + Passing(bio, path[t - 1], path[t]) + Lp(logp, keep, t, path[t])
  BY <1>2 DEF PathAdds
<1>. DEFINE T == {t \in Nat : t + 1 <= n => f[t + 1] <= best[t + 1][path[t + 1]]}
<1>3. 0 \in T
  <2>1. 1 \in 1 .. n /\ best[1][path[1]] = Opening(logp, bio, keep, path[1])
    BY <1>1 DEF Scores
  <2>2. f[1] \in Int
    BY <1>f, <2>1
  <2>. QED
    BY <1>f, <2>1, <2>2
<1>4. ASSUME NEW s \in Nat, s \in T PROVE s + 1 \in T
  <2>. DEFINE t == (s + 1) + 1
  <2>. SUFFICES ASSUME t <= n PROVE f[t] <= best[t][path[t]]
    OBVIOUS
  <2>1. t \in 2 .. n /\ t \in 1 .. n /\ t - 1 \in 1 .. n /\ t - 1 = s + 1 /\ s + 1 <= n
    BY <1>1
  <2>. HIDE DEF t
  <2>. DEFINE i == path[t - 1]
              j == path[t]
              via == Via(best[t - 1], bio, j)
  <2>2. i \in 1 .. c /\ j \in 1 .. c /\ best[t - 1] \in [1 .. c -> Int]
    BY <1>1, <2>1
  <2>3. f[t - 1] <= best[t - 1][i]
    BY <1>4, <2>1
  <2>4. f[t] = f[t - 1] + Passing(bio, i, j) + Lp(logp, keep, t, j)
    BY <1>f, <2>1
  <2>5. best[t][j] = via[ArgMax(via)] + Lp(logp, keep, t, j)
    <3>1. best[t] = ScoresAfter(best[t - 1], logp, bio, keep, t)
      BY <2>1 DEF Scores
    <3>. QED
      BY <2>1, <2>2, <3>1, ScoresAfterTyped
  <2>w. Weighed(best[t - 1], bio, j, c)
    <3>. HIDE DEF i, j
    <3>. QED
      BY <2>2, ViaTyped
  <2>6. via[i] = best[t - 1][i] + Passing(bio, i, j) /\ via[i] <= via[ArgMax(via)]
    <3>. HIDE DEF i, j
    <3>1. \A x \in 1 .. c : via[x] = best[t - 1][x] + Passing(bio, x, j) /\ via[x] <= via[ArgMax(via)]
      BY <2>w DEF Weighed
    <3>. QED
      BY <2>2, <3>1
  <2>7. f[t - 1] \in Int /\ best[t - 1][i] \in Int /\ via[i] \in Int /\ via[ArgMax(via)] \in Int
    <3>1. via \in [1 .. c -> Int] /\ ArgMax(via) \in 1 .. c
      BY <2>w DEF Weighed
    <3>. HIDE DEF via
    <3>. QED
      BY <1>f, <2>1, <2>2, <3>1
  <2>8. Passing(bio, i, j) \in Int /\ Lp(logp, keep, t, j) \in Int
    BY <2>1, <2>2, ScoresTyped
  <2>. HIDE DEF via, i, j
  <2>9. f[t] <= best[t][j]
    BY <2>3, <2>4, <2>5, <2>6, <2>7, <2>8
  <2>. QED
    BY <2>9 DEF j
<1>5. \A t \in Nat : t \in T
  <2>. HIDE DEF T
  <2>. QED
    BY <1>3, <1>4, NatInductive
<1>6. n - 1 \in T /\ (n - 1) + 1 = n
  <2>1. n - 1 \in Nat /\ (n - 1) + 1 = n
    BY <1>1
  <2>. HIDE DEF T
  <2>. QED
    BY <1>5, <2>1
<1>. QED
  BY <1>1, <1>f, <1>6

(* And the path that is read back scores as much: each tag was reached     *)
(* from the one before it.                                                 *)
LEMMA ViterbiScoresBest ==
  ASSUME NEW c, NEW n, NEW logp, NEW bio, NEW keep, Scored(c, n, logp, bio, keep),
         NEW best, Scores(best, c, n, logp, bio, keep), NEW path, ReadFrom(path, best, c, n, bio)
  PROVE  PathScore(logp, bio, keep, path) = best[n][path[n]]
<1>1. c \in Nat \ {0} /\ n \in Nat \ {0} /\ \A t \in 1 .. n : best[t] \in [1 .. c -> Int]
  BY ScoresTyped DEF Scores
<1>2. path \in [1 .. n -> 1 .. c] /\ \A t \in 2 .. n : path[t - 1] = ArgMax(Via(best[t - 1], bio, path[t]))
  BY DEF ReadFrom
<1>3. \A t \in 1 .. n : path[t] \in 1 .. c
  BY <1>2
<1>4. PICK f : PathAdds(f, n, logp, bio, keep, path)
  BY <1>2, PathScoreAdds
<1>f. /\ f \in [1 .. n -> Int] /\ f[n] = PathScore(logp, bio, keep, path)
      /\ f[1] = Opening(logp, bio, keep, path[1])
      /\ \A t \in 2 .. n : f[t] = f[t - 1] + Passing(bio, path[t - 1], path[t]) + Lp(logp, keep, t, path[t])
  BY <1>4 DEF PathAdds
<1>. DEFINE T == {t \in Nat : t + 1 <= n => f[t + 1] = best[t + 1][path[t + 1]]}
<1>5. 0 \in T
  <2>1. 1 \in 1 .. n /\ best[1][path[1]] = Opening(logp, bio, keep, path[1])
    BY <1>1, <1>3 DEF Scores
  <2>. QED
    BY <1>f, <2>1
<1>6. ASSUME NEW s \in Nat, s \in T PROVE s + 1 \in T
  <2>. DEFINE t == (s + 1) + 1
  <2>. SUFFICES ASSUME t <= n PROVE f[t] = best[t][path[t]]
    OBVIOUS
  <2>1. t \in 2 .. n /\ t \in 1 .. n /\ t - 1 \in 1 .. n /\ t - 1 = s + 1 /\ s + 1 <= n
    BY <1>1
  <2>. HIDE DEF t
  <2>. DEFINE i == path[t - 1]
              j == path[t]
              via == Via(best[t - 1], bio, j)
  <2>2. i \in 1 .. c /\ j \in 1 .. c /\ best[t - 1] \in [1 .. c -> Int]
    BY <1>1, <1>3, <2>1
  <2>3. f[t - 1] = best[t - 1][i]
    BY <1>6, <2>1
  <2>4. f[t] = f[t - 1] + Passing(bio, i, j) + Lp(logp, keep, t, j)
    BY <1>f, <2>1
  <2>5. best[t][j] = via[ArgMax(via)] + Lp(logp, keep, t, j)
    <3>1. best[t] = ScoresAfter(best[t - 1], logp, bio, keep, t)
      BY <2>1 DEF Scores
    <3>. QED
      BY <2>1, <2>2, <3>1, ScoresAfterTyped
  <2>w. Weighed(best[t - 1], bio, j, c)
    <3>. HIDE DEF i, j
    <3>. QED
      BY <2>2, ViaTyped
  <2>6. via[i] = best[t - 1][i] + Passing(bio, i, j)
    <3>. HIDE DEF i, j
    <3>1. \A x \in 1 .. c : via[x] = best[t - 1][x] + Passing(bio, x, j)
      BY <2>w DEF Weighed
    <3>. QED
      BY <2>2, <3>1
  <2>7. i = ArgMax(via)
    BY <1>2, <2>1
  <2>. HIDE DEF via, i, j
  <2>8. f[t] = best[t][j]
    BY <2>3, <2>4, <2>5, <2>6, <2>7
  <2>. QED
    BY <2>8 DEF j
<1>7. \A t \in Nat : t \in T
  <2>. HIDE DEF T
  <2>. QED
    BY <1>5, <1>6, NatInductive
<1>8. n - 1 \in T /\ (n - 1) + 1 = n
  <2>1. n - 1 \in Nat /\ (n - 1) + 1 = n
    BY <1>1
  <2>. HIDE DEF T
  <2>. QED
    BY <1>7, <2>1
<1>. QED
  BY <1>1, <1>f, <1>8

(* Every path has a score. *)
LEMMA PathScoreTyped ==
  ASSUME NEW c, NEW n, NEW logp, NEW bio, NEW keep, Scored(c, n, logp, bio, keep),
         NEW path \in [1 .. n -> 1 .. c]
  PROVE  PathScore(logp, bio, keep, path) \in Int
<1>1. n \in 1 .. n
  BY ScoresTyped
<1>2. PICK f : PathAdds(f, n, logp, bio, keep, path)
  BY PathScoreAdds
<1>. QED
  BY <1>1, <1>2 DEF PathAdds

(* viterbi returns a path, and no path scores more: whatever the scores,   *)
(* the tags that may follow one another and the ones that are kept.        *)
THEOREM ViterbiIsBest ==
  ASSUME NEW c, NEW n, NEW logp, NEW bio, NEW keep, Scored(c, n, logp, bio, keep)
  PROVE  PathIsBest(logp, bio, keep, Viterbi(logp, bio, keep))
<1>. DEFINE path == Viterbi(logp, bio, keep)
            best == BestScores(logp, bio, keep)
<1>1. c \in Nat \ {0} /\ n \in Nat \ {0} /\ Len(logp) = n /\ DOMAIN bio.start = 1 .. c
  BY ScoresTyped
<1>0. Scores(best, c, n, logp, bio, keep) /\ ReadFrom(path, best, c, n, bio)
  BY BestScoresFollow, ViterbiFollows
<1>. HIDE DEF path, best
<1>2. path \in [1 .. n -> 1 .. c] /\ path[n] = ArgMax(best[n])
  BY <1>0 DEF ReadFrom
<1>3. best[n] \in [1 .. c -> Int]
  BY <1>0, <1>1 DEF Scores
<1>4. PathScore(logp, bio, keep, path) = best[n][path[n]]
  BY <1>0, ViterbiScoresBest
<1>5. ASSUME NEW q \in [1 .. n -> 1 .. c] PROVE PathScore(logp, bio, keep, q) <= PathScore(logp, bio, keep, path)
  <2>1. PathScore(logp, bio, keep, q) <= best[n][q[n]]
    BY <1>0, NoPathScoresMore, Zenon
  <2>2. q[n] \in 1 .. c /\ path[n] \in 1 .. c
    BY <1>1, <1>2
  <2>3. best[n][q[n]] <= best[n][path[n]]
    BY <1>1, <1>2, <1>3, <2>2, ArgMaxIsThere
  <2>4. PathScore(logp, bio, keep, q) \in Int
    BY PathScoreTyped
  <2>5. best[n][q[n]] \in Int /\ best[n][path[n]] \in Int
    BY <1>3, <2>2
  <2>. QED
    BY <1>4, <2>1, <2>3, <2>4, <2>5
<1>. QED
  BY <1>1, <1>2, <1>5 DEF PathIsBest, path

(* The scores of a position differ by no more than low + high.             *)
Between(logp, c, n, low, high) ==
  \A t \in 1 .. n, k \in 1 .. c : -low <= logp[t][k] /\ logp[t][k] <= high

(* Where a path opens, follows or takes a tag that it must not. *)
Strays(bio, keep, path, t) ==
  \/ ~keep[t][path[t]]
  \/ t = 1 /\ ~bio.start[path[1]]
  \/ t > 1 /\ ~bio.allowed[path[t - 1]][path[t]]

(* A path that obeys the constraints pays no penalty: it loses at most low *)
(* at each position.                                                       *)
LEMMA LegalPathsKeepTheirScore ==
  ASSUME NEW c, NEW n, NEW logp, NEW bio, NEW keep, Scored(c, n, logp, bio, keep),
         NEW low \in Nat, NEW high \in Nat, Between(logp, c, n, low, high),
         NEW path \in [1 .. n -> 1 .. c], PathIsLegal(bio, keep, path)
  PROVE  -(n * low) <= PathScore(logp, bio, keep, path)
<1>1. c \in Nat \ {0} /\ n \in Nat \ {0} /\ \A t \in 1 .. n : path[t] \in 1 .. c
  BY ScoresTyped
<1>2. PICK f : PathAdds(f, n, logp, bio, keep, path)
  BY PathScoreAdds
<1>3. /\ f \in [1 .. n -> Int] /\ f[n] = PathScore(logp, bio, keep, path)
      /\ f[1] = Opening(logp, bio, keep, path[1])
      /\ \A t \in 2 .. n : f[t] = f[t - 1] + Passing(bio, path[t - 1], path[t]) + Lp(logp, keep, t, path[t])
  BY <1>2 DEF PathAdds
<1>4. /\ bio.start[path[1]]
      /\ \A t \in 1 .. n : keep[t][path[t]]
      /\ \A t \in 1 .. n : t > 1 => bio.allowed[path[t - 1]][path[t]]
  BY DEF PathIsLegal
<1>5. \A t \in 1 .. n : Lp(logp, keep, t, path[t]) \in Int /\ -low <= Lp(logp, keep, t, path[t])
  <2>1. \A t \in 1 .. n : Lp(logp, keep, t, path[t]) = logp[t][path[t]]
    BY <1>4 DEF Lp
  <2>2. \A t \in 1 .. n : Lp(logp, keep, t, path[t]) \in Int
    BY <1>1, ScoresTyped
  <2>3. \A t \in 1 .. n : -low <= logp[t][path[t]]
    BY <1>1 DEF Between
  <2>. QED
    BY <2>1, <2>2, <2>3
<1>6. f[1] = Lp(logp, keep, 1, path[1])
  BY <1>3, <1>4 DEF Opening
<1>7. \A t \in 2 .. n : f[t] = f[t - 1] + Lp(logp, keep, t, path[t])
  <2>. TAKE t \in 2 .. n
  <2>1. t \in 1 .. n /\ t > 1 /\ t - 1 \in 1 .. n
    BY <1>1
  <2>2. Passing(bio, path[t - 1], path[t]) = 0
    BY <1>4, <2>1 DEF Passing
  <2>3. f[t - 1] \in Int /\ Lp(logp, keep, t, path[t]) \in Int
    BY <1>3, <1>5, <2>1
  <2>4. f[t] = f[t - 1] + 0 + Lp(logp, keep, t, path[t])
    BY <1>3, <2>2
  <2>. QED
    BY <2>3, <2>4
<1>. DEFINE T == {s \in Nat : s + 1 <= n => -((s + 1) * low) <= f[s + 1]}
<1>8. 0 \in T
  <2>1. 1 \in 1 .. n
    BY <1>1
  <2>2. -low <= f[1]
    BY <1>5, <1>6, <2>1
  <2>3. (0 + 1) * low = low
    OBVIOUS
  <2>. QED
    BY <2>2, <2>3
<1>9. ASSUME NEW s \in Nat, s \in T PROVE s + 1 \in T
  <2>. SUFFICES ASSUME (s + 1) + 1 <= n PROVE -(((s + 1) + 1) * low) <= f[(s + 1) + 1]
    OBVIOUS
  <2>1. (s + 1) + 1 \in 2 .. n /\ (s + 1) + 1 \in 1 .. n /\ ((s + 1) + 1) - 1 = s + 1 /\ s + 1 \in 1 .. n /\ s + 1 <= n
    BY <1>1
  <2>2. -((s + 1) * low) <= f[s + 1] /\ f[s + 1] \in Int
    BY <1>3, <1>9, <2>1
  <2>. DEFINE kept == Lp(logp, keep, (s + 1) + 1, path[(s + 1) + 1])
  <2>3. f[(s + 1) + 1] = f[s + 1] + kept
    BY <1>7, <2>1
  <2>4. kept \in Int /\ -low <= kept
    BY <1>5, <2>1
  <2>5. ((s + 1) + 1) * low = (s + 1) * low + low /\ (s + 1) * low \in Int
    OBVIOUS
  <2>. HIDE DEF kept
  <2>. DEFINE a == (s + 1) * low
              b == f[s + 1]
  <2>6. a \in Int /\ -a <= b /\ b \in Int
    BY <2>2, <2>5
  <2>. HIDE DEF a, b
  <2>7. -(a + low) <= b + kept
    BY <2>4, <2>6
  <2>. QED
    BY <2>3, <2>5, <2>7 DEF a, b
<1>10. \A s \in Nat : s \in T
  <2>. HIDE DEF T
  <2>. QED
    BY <1>8, <1>9, NatInductive
<1>11. n - 1 \in T /\ (n - 1) + 1 = n /\ n <= n
  <2>1. n - 1 \in Nat /\ (n - 1) + 1 = n /\ n <= n
    BY <1>1
  <2>. HIDE DEF T
  <2>. QED
    BY <1>10, <2>1
<1>12. -(((n - 1) + 1) * low) <= f[(n - 1) + 1]
  BY <1>11
<1>. QED
  BY <1>3, <1>11, <1>12

(* A path that strays once pays NEG_VITERBI once: it cannot win it back at *)
(* the other positions, each of which adds at most high.                   *)
LEMMA StrayPathsLose ==
  ASSUME NEW c, NEW n, NEW logp, NEW bio, NEW keep, Scored(c, n, logp, bio, keep),
         NEW low \in Nat, NEW high \in Nat, Between(logp, c, n, low, high),
         NEW path \in [1 .. n -> 1 .. c], NEW u \in 1 .. n, Strays(bio, keep, path, u)
  PROVE  PathScore(logp, bio, keep, path) <= n * high + Forbidden
<1>1. c \in Nat \ {0} /\ n \in Nat \ {0} /\ \A t \in 1 .. n : path[t] \in 1 .. c
  BY ScoresTyped
<1>2. PICK f : PathAdds(f, n, logp, bio, keep, path)
  BY PathScoreAdds
<1>3. /\ f \in [1 .. n -> Int] /\ f[n] = PathScore(logp, bio, keep, path)
      /\ f[1] = Opening(logp, bio, keep, path[1])
      /\ \A t \in 2 .. n : f[t] = f[t - 1] + Passing(bio, path[t - 1], path[t]) + Lp(logp, keep, t, path[t])
  BY <1>2 DEF PathAdds
<1>4. Forbidden \in Int /\ Forbidden <= 0
  BY DEF Forbidden
<1>5. \A t \in 1 .. n : /\ Lp(logp, keep, t, path[t]) \in Int /\ Lp(logp, keep, t, path[t]) <= high
                        /\ ~keep[t][path[t]] => Lp(logp, keep, t, path[t]) = Forbidden
  <2>1. \A t \in 1 .. n : Lp(logp, keep, t, path[t]) \in Int
    BY <1>1, ScoresTyped
  <2>2. \A t \in 1 .. n : logp[t][path[t]] <= high
    BY <1>1 DEF Between
  <2>. QED
    BY <1>4, <2>1, <2>2 DEF Lp
<1>6. \A i, j \in 1 .. c : /\ Passing(bio, i, j) \in Int /\ Passing(bio, i, j) <= 0
                           /\ ~bio.allowed[i][j] => Passing(bio, i, j) = Forbidden
  BY <1>4 DEF Passing
<1>7. f[1] \in Int /\ f[1] <= high /\ (Strays(bio, keep, path, 1) => f[1] <= high + Forbidden)
  <2>1. 1 \in 1 .. n
    BY <1>1
  <2>2. f[1] = IF bio.start[path[1]] THEN Lp(logp, keep, 1, path[1]) ELSE Forbidden
    BY <1>3 DEF Opening
  <2>3. Strays(bio, keep, path, 1) => ~keep[1][path[1]] \/ ~bio.start[path[1]]
    BY DEF Strays
  <2>. QED
    BY <1>4, <1>5, <2>1, <2>2, <2>3
<1>8. ASSUME NEW t \in 2 .. n
      PROVE  /\ f[t] \in Int /\ f[t - 1] \in Int /\ f[t] <= f[t - 1] + high
             /\ Strays(bio, keep, path, t) => f[t] <= f[t - 1] + high + Forbidden
  <2>1. t \in 1 .. n /\ t - 1 \in 1 .. n /\ t # 1
    BY <1>1
  <2>. DEFINE p == Passing(bio, path[t - 1], path[t])
              k == Lp(logp, keep, t, path[t])
              a == f[t - 1]
  <2>2. f[t] \in Int /\ a \in Int /\ f[t] = a + p + k
    BY <1>3, <2>1
  <2>3. k \in Int /\ k <= high /\ (~keep[t][path[t]] => k = Forbidden)
    BY <1>5, <2>1
  <2>4. p \in Int /\ p <= 0 /\ (~bio.allowed[path[t - 1]][path[t]] => p = Forbidden)
    BY <1>1, <1>6, <2>1
  <2>5. Strays(bio, keep, path, t) => k = Forbidden \/ p = Forbidden
    BY <2>1, <2>3, <2>4 DEF Strays
  <2>. HIDE DEF p, k, a
  <2>6. f[t] <= a + high /\ (k = Forbidden \/ p = Forbidden => f[t] <= a + high + Forbidden)
    BY <1>4, <2>2, <2>3, <2>4
  <2>. QED
    BY <2>2, <2>5, <2>6 DEF a
<1>. DEFINE Bound(t) == t * high
            T == {s \in Nat : s + 1 <= n => /\ f[s + 1] <= Bound(s + 1)
                                            /\ u <= s + 1 => f[s + 1] <= Bound(s + 1) + Forbidden}
<1>9. 0 \in T
  <2>1. u <= 1 => u = 1
    BY <1>1
  <2>2. u = 1 => f[1] <= high + Forbidden
    BY <1>7
  <2>3. 0 + 1 = 1 /\ Bound(1) = high
    OBVIOUS
  <2>. QED
    BY <1>7, <2>1, <2>2, <2>3
<1>a. \A t \in Nat : Bound(t) \in Int /\ Bound(t + 1) = Bound(t) + high
  OBVIOUS
<1>. HIDE DEF Bound
<1>10. ASSUME NEW s \in Nat, s \in T PROVE s + 1 \in T
  <2>. DEFINE t == (s + 1) + 1
  <2>. SUFFICES ASSUME t <= n PROVE f[t] <= Bound(t) /\ (u <= t => f[t] <= Bound(t) + Forbidden)
    OBVIOUS
  <2>1. t \in 2 .. n /\ t - 1 = s + 1 /\ s + 1 <= n /\ s + 1 \in Nat /\ (u <= t => u = t \/ u <= s + 1)
    BY <1>1
  <2>0. f[s + 1] <= Bound(s + 1) /\ (u <= s + 1 => f[s + 1] <= Bound(s + 1) + Forbidden)
    <3>1. s + 1 <= n => f[s + 1] <= Bound(s + 1) /\ (u <= s + 1 => f[s + 1] <= Bound(s + 1) + Forbidden)
      BY <1>10, Zenon
    <3>. QED
      BY <2>1, <3>1
  <2>2. f[t - 1] <= Bound(s + 1) /\ (u <= s + 1 => f[t - 1] <= Bound(s + 1) + Forbidden)
    <3>. HIDE DEF t
    <3>. QED
      BY <2>0, <2>1
  <2>3. Bound(s + 1) \in Int /\ Bound(t) = Bound(s + 1) + high
    BY <1>a, <2>1
  <2>. HIDE DEF t
  <2>4. /\ f[t] \in Int /\ f[t - 1] \in Int /\ f[t] <= f[t - 1] + high
        /\ Strays(bio, keep, path, t) => f[t] <= f[t - 1] + high + Forbidden
    BY <1>8, <2>1
  <2>5. u = t => f[t] <= f[t - 1] + high + Forbidden
    BY <2>4
  <2>6. f[t] <= Bound(t)
    BY <2>2, <2>3, <2>4
  <2>7. u <= s + 1 => f[t] <= Bound(t) + Forbidden
    BY <1>4, <2>2, <2>3, <2>4
  <2>8. u = t => f[t] <= Bound(t) + Forbidden
    BY <1>4, <2>2, <2>3, <2>4, <2>5
  <2>. QED
    BY <2>1, <2>6, <2>7, <2>8
<1>11. \A s \in Nat : s \in T
  <2>. HIDE DEF T
  <2>. QED
    BY <1>9, <1>10, NatInductive
<1>12. n - 1 \in T /\ (n - 1) + 1 = n /\ n <= n /\ u <= n
  <2>1. n - 1 \in Nat /\ (n - 1) + 1 = n /\ n <= n /\ u <= n
    BY <1>1
  <2>. HIDE DEF T
  <2>. QED
    BY <1>11, <2>1
<1>13. f[n] <= Bound(n) + Forbidden
  <2>. DEFINE m == n - 1
  <2>1. m + 1 <= n => f[m + 1] <= Bound(m + 1) /\ (u <= m + 1 => f[m + 1] <= Bound(m + 1) + Forbidden)
    <3>. HIDE DEF m
    <3>. QED
      BY <1>12, Zenon DEF m
  <2>2. m + 1 = n
    BY <1>1
  <2>. HIDE DEF m
  <2>. QED
    BY <1>12, <2>1, <2>2
<1>. QED
  BY <1>3, <1>13 DEF Bound

(* With penalties in place of forbidden passages, viterbi still never      *)
(* returns a path that opens with I, lets I follow another label or takes  *)
(* a tag that the caller does not keep: as long as the penalty outweighs   *)
(* what the positions can differ by, and every position keeps a tag that   *)
(* is not an I (as in Runner::srl: the predicate keeps V, every other word *)
(* O).                                                                     *)
THEOREM ViterbiIsLegal ==
  ASSUME NEW c, NEW n, NEW logp, NEW keep, NEW tags,
         Scored(c, n, logp, BioConstraints(tags), keep),
         NEW low \in Nat, NEW high \in Nat, Between(logp, c, n, low, high), n * low + n * high < -Forbidden,
         \A t \in 1 .. n : \E k \in 1 .. c : keep[t][k] /\ tags[k][1] # "I"
  PROVE  PathIsLegal(BioConstraints(tags), keep, Viterbi(logp, BioConstraints(tags), keep))
<1>. DEFINE bio == BioConstraints(tags)
            path == Viterbi(logp, bio, keep)
            Free(t, k) == keep[t][k] /\ tags[k][1] # "I"
            free == [t \in 1 .. n |-> CHOOSE k \in 1 .. c : Free(t, k)]
<1>1. c \in Nat \ {0} /\ n \in Nat \ {0} /\ DOMAIN bio.start = 1 .. c
  BY ScoresTyped
<1>2. DOMAIN tags = 1 .. c
  BY <1>1 DEF BioConstraints
<1>3. \A t \in 1 .. n : free[t] \in 1 .. c /\ keep[t][free[t]] /\ tags[free[t]][1] # "I"
  <2>. TAKE t \in 1 .. n
  <2>1. \E k \in 1 .. c : Free(t, k)
    OBVIOUS
  <2>2. free[t] = CHOOSE k \in 1 .. c : Free(t, k)
    OBVIOUS
  <2>. HIDE DEF free, Free
  <2>3. free[t] \in 1 .. c /\ Free(t, free[t])
    BY <2>1, <2>2
  <2>. QED
    BY <2>3 DEF Free
<1>4. free \in [1 .. n -> 1 .. c] /\ DOMAIN free = 1 .. n
  BY <1>3
<1>. HIDE DEF free
<1>5. \A i, j \in 1 .. c : tags[j][1] # "I" => bio.start[j] /\ bio.allowed[i][j]
  BY <1>2 DEF BioConstraints
<1>6. PathIsLegal(bio, keep, free)
  <2>1. 1 \in 1 .. n /\ \A t \in 1 .. n : t > 1 => t - 1 \in 1 .. n
    BY <1>1
  <2>2. bio.start[free[1]]
    BY <1>3, <1>5, <2>1
  <2>3. \A t \in 1 .. n : t > 1 => bio.allowed[free[t - 1]][free[t]]
    BY <1>3, <1>5, <2>1
  <2>. QED
    BY <1>3, <1>4, <2>2, <2>3 DEF PathIsLegal
<1>. HIDE DEF bio
<1>7. Scored(c, n, logp, bio, keep)
  BY DEF bio
<1>8. -(n * low) <= PathScore(logp, bio, keep, free)
  BY <1>4, <1>6, <1>7, LegalPathsKeepTheirScore
<1>9. path \in [1 .. n -> 1 .. c] /\ PathScore(logp, bio, keep, free) <= PathScore(logp, bio, keep, path)
  <2>1. PathIsBest(logp, bio, keep, path) /\ Len(logp) = n
    BY <1>7, ViterbiIsBest, ScoresTyped
  <2>. QED
    BY <1>1, <1>4, <2>1 DEF PathIsBest
<1>. HIDE DEF path
<1>10. PathScore(logp, bio, keep, free) \in Int /\ PathScore(logp, bio, keep, path) \in Int
  BY <1>1, <1>4, <1>7, <1>9, PathScoreTyped
<1>11. ASSUME NEW u \in 1 .. n, Strays(bio, keep, path, u) PROVE FALSE
  <2>1. PathScore(logp, bio, keep, path) <= n * high + Forbidden
    BY <1>7, <1>9, <1>11, StrayPathsLose
  <2>2. n * low \in Int /\ n * high \in Int /\ Forbidden \in Int
    BY <1>1 DEF Forbidden
  <2>3. n * low + n * high < -Forbidden
    OBVIOUS
  <2>. DEFINE a == n * low
              e == n * high
              b == PathScore(logp, bio, keep, free)
              d == PathScore(logp, bio, keep, path)
  <2>4. /\ a \in Int /\ b \in Int /\ d \in Int /\ e \in Int /\ Forbidden \in Int
        /\ -a <= b /\ b <= d /\ d <= e + Forbidden /\ a + e < -Forbidden
    BY <1>8, <1>9, <1>10, <2>1, <2>2, <2>3
  <2>. HIDE DEF a, b, d, e
  <2>. QED
    BY <2>4
<1>12. DOMAIN path = 1 .. n /\ 1 \in 1 .. n
  BY <1>1, <1>9
<1>13. PathIsLegal(bio, keep, path)
  BY <1>11, <1>12 DEF PathIsLegal, Strays
<1>. QED
  BY <1>13 DEF bio, path

(***************************************************************************)
(* NlpEntities: the clusters of links.  A forest of parents gets one link at*)
(* a time; find_root walks up as many steps as there are words, and the    *)
(* forest is never deeper than words less roots.                           *)
(***************************************************************************)
(* The words that some links are between, and the root of a word. *)
Linked(links) == {l[1] : l \in ToSet(links)} \cup {l[2] : l \in ToSet(links)}
Walks(up, W, parent, x) == up = [k \in 0 .. Cardinality(W) |-> IF k = 0 THEN x ELSE parent[up[k - 1]]]
RootOf(W, parent, x) ==
  LET up[k \in 0 .. Cardinality(W)] == IF k = 0 THEN x ELSE parent[up[k - 1]]
  IN  up[Cardinality(W)]

WalksUp(up, W, parent, x) ==
  /\ up \in [0 .. Cardinality(W) -> W] /\ up[0] = x
  /\ \A k \in 1 .. Cardinality(W) : up[k] = parent[up[k - 1]]
  /\ up[Cardinality(W)] = RootOf(W, parent, x)

(* The recursion of find_root has a solution: a walk up from any word.     *)
LEMMA RootsAreWalkedTo ==
  ASSUME NEW W, IsFiniteSet(W), NEW parent \in [W -> W], NEW x \in W
  PROVE  \E up : WalksUp(up, W, parent, x)
<1>. DEFINE n == Cardinality(W)
            step == [k \in 1 .. n |-> parent]
            g == CHOOSE h : Walks(h, W, parent, x)
<1>1. n \in Nat
  BY FS_CardinalityType
<1>2. step \in [1 .. n -> [W -> W]]
  OBVIOUS
<1>. HIDE DEF step, n
<1>3. PICK f \in [0 .. n -> W] : FoldsTo(f, n, x, step)
  BY <1>1, <1>2, StepsExist
<1>4. f[0] = x /\ \A k \in 1 .. n : f[k] = parent[f[k - 1]]
  BY <1>3 DEF FoldsTo, step
<1>5. f = [k \in 0 .. n |-> IF k = 0 THEN x ELSE parent[f[k - 1]]]
  <2>1. \A k \in 0 .. n : k # 0 => k \in 1 .. n
    BY <1>1
  <2>. QED
    BY <1>4, <2>1
<1>6. Walks(g, W, parent, x)
  <2>1. Walks(f, W, parent, x)
    BY <1>5 DEF Walks, n
  <2>. QED
    BY <2>1
<1>7. RootOf(W, parent, x) = g[n]
  BY DEF RootOf, Walks, n
<1>. HIDE DEF g
<1>8. g = [k \in 0 .. n |-> IF k = 0 THEN x ELSE parent[g[k - 1]]]
  BY <1>6 DEF Walks, n
<1>9. g[0] = x /\ \A k \in 1 .. n : g[k] = parent[g[k - 1]]
  <2>1. 0 \in 0 .. n /\ \A k \in 1 .. n : k \in 0 .. n /\ k # 0
    BY <1>1
  <2>. QED
    BY <1>8, <2>1
<1>10. \A k \in 0 .. n : g[k] = f[k]
  <2>1. Stepping(W, n, x, step) /\ StepsIn(f, W, n, x, step)
    BY <1>1, <1>2, <1>3 DEF Stepping, StepsIn
  <2>2. StepsWith(g, W, n, x, step)
    BY <1>9 DEF StepsWith, step
  <2>3. AgreeOn(f, g, 0 .. n)
    BY <2>1, <2>2, StepsAgree
  <2>. QED
    BY <2>3 DEF AgreeOn
<1>11. f[n] = RootOf(W, parent, x)
  <2>1. n \in 0 .. n
    BY <1>1
  <2>. QED
    BY <1>7, <1>10, <2>1
<1>12. WalksUp(f, W, parent, x)
  BY <1>3, <1>4, <1>11 DEF WalksUp, n
<1>. QED
  BY <1>12

(* It ends at a word.                                                      *)
LEMMA RootsAreWords ==
  ASSUME NEW W, IsFiniteSet(W), NEW parent \in [W -> W], NEW x \in W
  PROVE  RootOf(W, parent, x) \in W
<1>1. PICK up : WalksUp(up, W, parent, x)
  BY RootsAreWalkedTo
<1>2. Cardinality(W) \in Nat
  BY FS_CardinalityType
<1>3. Cardinality(W) \in 0 .. Cardinality(W)
  BY <1>2
<1>. QED
  BY <1>1, <1>3 DEF WalksUp

(* A forest: d counts the steps from a word to its root r. *)
Forest(W, parent, d, r) ==
  /\ parent \in [W -> W] /\ d \in [W -> Nat] /\ r \in [W -> W]
  /\ \A x \in W : parent[r[x]] = r[x]
  /\ \A x \in W : parent[x] = x => d[x] = 0 /\ r[x] = x
  /\ \A x \in W : parent[x] # x => d[x] = d[parent[x]] + 1 /\ r[x] = r[parent[x]]

(* In a forest no deeper than there are words it ends at the root.         *)
LEMMA RootsAreFound ==
  ASSUME NEW W, IsFiniteSet(W), NEW parent, NEW d, NEW r, Forest(W, parent, d, r),
         NEW x \in W, d[x] <= Cardinality(W)
  PROVE  RootOf(W, parent, x) = r[x]
<1>. DEFINE n == Cardinality(W)
<1>1. n \in Nat
  BY FS_CardinalityType
<1>2. /\ parent \in [W -> W] /\ d \in [W -> Nat] /\ r \in [W -> W]
      /\ \A y \in W : parent[y] = y => d[y] = 0 /\ r[y] = y
      /\ \A y \in W : parent[y] # y => d[y] = d[parent[y]] + 1 /\ r[y] = r[parent[y]]
  BY DEF Forest
<1>3. PICK up : WalksUp(up, W, parent, x)
  BY <1>2, RootsAreWalkedTo
<1>4. /\ up \in [0 .. n -> W] /\ up[0] = x /\ up[n] = RootOf(W, parent, x)
      /\ \A k \in 1 .. n : up[k] = parent[up[k - 1]]
  BY <1>3 DEF WalksUp
<1>. HIDE DEF n
<1>. DEFINE T == {k \in Nat : k <= n => r[up[k]] = r[x] /\ (d[up[k]] = 0 \/ d[up[k]] + k <= d[x])}
<1>5. 0 \in T
  <2>1. d[x] \in Nat
    BY <1>2
  <2>. QED
    BY <1>4, <2>1
<1>6. ASSUME NEW k \in Nat, k \in T PROVE k + 1 \in T
  <2>. SUFFICES ASSUME k + 1 <= n
                PROVE  r[up[k + 1]] = r[x] /\ (d[up[k + 1]] = 0 \/ d[up[k + 1]] + (k + 1) <= d[x])
    OBVIOUS
  <2>1. k + 1 \in 1 .. n /\ k + 1 \in 0 .. n /\ (k + 1) - 1 = k /\ k \in 0 .. n /\ k <= n
    BY <1>1
  <2>2. up[k] \in W /\ up[k + 1] \in W /\ up[k + 1] = parent[up[k]]
    BY <1>4, <2>1
  <2>3. r[up[k]] = r[x] /\ (d[up[k]] = 0 \/ d[up[k]] + k <= d[x])
    BY <1>6, <2>1
  <2>4. d[up[k]] \in Nat /\ d[up[k + 1]] \in Nat /\ d[x] \in Nat
    BY <1>2, <2>2
  <2>5. CASE parent[up[k]] = up[k]
    BY <1>2, <2>2, <2>3, <2>5
  <2>6. CASE parent[up[k]] # up[k]
    <3>1. d[up[k]] = d[up[k + 1]] + 1 /\ r[up[k]] = r[up[k + 1]]
      BY <1>2, <2>2, <2>6
    <3>. QED
      BY <2>3, <2>4, <3>1
  <2>. QED
    BY <2>5, <2>6
<1>7. \A k \in Nat : k \in T
  <2>. HIDE DEF T
  <2>. QED
    BY <1>5, <1>6, NatInductive
<1>8. n \in T /\ n <= n /\ n \in 0 .. n
  <2>. HIDE DEF T
  <2>. QED
    BY <1>1, <1>7
<1>9. r[up[n]] = r[x] /\ (d[up[n]] = 0 \/ d[up[n]] + n <= d[x]) /\ up[n] \in W
  BY <1>4, <1>8
<1>10. d[up[n]] = 0
  <2>1. d[up[n]] \in Nat /\ d[x] \in Nat /\ d[x] <= n
    BY <1>2, <1>9 DEF n
  <2>. QED
    BY <1>1, <1>9, <2>1
<1>11. parent[up[n]] = up[n]
  <2>1. ASSUME parent[up[n]] # up[n] PROVE FALSE
    <3>1. d[up[n]] = d[parent[up[n]]] + 1 /\ parent[up[n]] \in W
      BY <1>2, <1>9, <2>1
    <3>2. d[parent[up[n]]] \in Nat
      BY <1>2, <3>1
    <3>. QED
      BY <1>10, <3>1, <3>2
  <2>. QED
    BY <2>1
<1>. QED
  BY <1>2, <1>4, <1>9, <1>11

(* No word is further from its root than there are words that are none. *)
Grown(W, parent, d, r) ==
  Forest(W, parent, d, r) /\ \A x \in W : d[x] + Cardinality({v \in W : parent[v] = v}) <= Cardinality(W)

(* The roots after one link: those of the words of a are those of b.       *)
Merged(W, r, a, b, s) == s \in [W -> W] /\ \A x \in W : s[x] = IF r[x] = r[a] THEN r[b] ELSE r[x]

(* Linking two roots makes a forest of these roots, deep enough only by one*)
(* more if there is one root fewer: so no walk up is ever too short.       *)
LEMMA MergeGrows ==
  ASSUME NEW W, IsFiniteSet(W), NEW parent, NEW d, NEW r, Grown(W, parent, d, r), NEW a \in W, NEW b \in W
  PROVE  \E e, s : Grown(W, [parent EXCEPT ![r[a]] = r[b]], e, s) /\ Merged(W, r, a, b, s)
<1>. DEFINE q == [parent EXCEPT ![r[a]] = r[b]]
            u == r[a]
            v == r[b]
            s == [x \in W |-> IF r[x] = u THEN v ELSE r[x]]
            Roots == {x \in W : parent[x] = x}
<1>1. /\ parent \in [W -> W] /\ d \in [W -> Nat] /\ r \in [W -> W]
      /\ \A x \in W : parent[r[x]] = r[x]
      /\ \A x \in W : parent[x] = x => d[x] = 0 /\ r[x] = x
      /\ \A x \in W : parent[x] # x => d[x] = d[parent[x]] + 1 /\ r[x] = r[parent[x]]
      /\ \A x \in W : d[x] + Cardinality(Roots) <= Cardinality(W)
  BY DEF Grown, Forest
<1>2. u \in W /\ v \in W /\ parent[u] = u /\ parent[v] = v /\ r[u] = u /\ r[v] = v /\ d[u] = 0 /\ d[v] = 0
  BY <1>1
<1>3. Merged(W, r, a, b, s)
  BY <1>1, <1>2 DEF Merged
<1>4. q \in [W -> W] /\ q[u] = v /\ \A x \in W : x # u => q[x] = parent[x]
  BY <1>1, <1>2
<1>5. CASE u = v
  <2>1. q = parent
    BY <1>1, <1>2, <1>5
  <2>2. s = r
    BY <1>1, <1>5
  <2>. HIDE DEF q, s
  <2>3. Grown(W, q, d, s)
    BY <2>1, <2>2
  <2>. QED
    BY <1>3, <2>3 DEF q
<1>6. CASE u # v
  <2>. DEFINE e == [x \in W |-> IF r[x] = u THEN d[x] + 1 ELSE d[x]]
  <2>. HIDE DEF q, u, v
  <2>1. e \in [W -> Nat] /\ s \in [W -> W]
    BY <1>1, <1>2
  <2>2. \A x \in W : q[s[x]] = s[x]
    <3>. TAKE x \in W
    <3>1. CASE r[x] = u
      BY <1>2, <1>4, <1>6, <3>1
    <3>2. CASE r[x] # u
      BY <1>1, <1>4, <3>2
    <3>. QED
      BY <3>1, <3>2
  <2>3. \A x \in W : q[x] = x => e[x] = 0 /\ s[x] = x
    <3>. SUFFICES ASSUME NEW x \in W, q[x] = x PROVE e[x] = 0 /\ s[x] = x
      OBVIOUS
    <3>1. x # u
      BY <1>4, <1>6
    <3>2. parent[x] = x /\ r[x] = x /\ d[x] = 0
      BY <1>1, <1>4, <3>1
    <3>. QED
      BY <3>1, <3>2
  <2>4. \A x \in W : q[x] # x => e[x] = e[q[x]] + 1 /\ s[x] = s[q[x]]
    <3>. SUFFICES ASSUME NEW x \in W, q[x] # x PROVE e[x] = e[q[x]] + 1 /\ s[x] = s[q[x]]
      OBVIOUS
    <3>1. CASE x = u
      BY <1>2, <1>4, <1>6, <3>1
    <3>2. CASE x # u
      <4>1. q[x] = parent[x] /\ parent[x] # x /\ parent[x] \in W
        BY <1>1, <1>4, <3>2
      <4>2. d[x] = d[parent[x]] + 1 /\ r[x] = r[parent[x]] /\ d[parent[x]] \in Nat
        BY <1>1, <4>1
      <4>3. e[x] = (IF r[x] = u THEN d[x] + 1 ELSE d[x]) /\ s[x] = IF r[x] = u THEN v ELSE r[x]
        OBVIOUS
      <4>4. /\ e[q[x]] = (IF r[q[x]] = u THEN d[q[x]] + 1 ELSE d[q[x]])
            /\ s[q[x]] = IF r[q[x]] = u THEN v ELSE r[q[x]]
        BY <4>1
      <4>. HIDE DEF e, s
      <4>. QED
        BY <4>1, <4>2, <4>3, <4>4
    <3>. QED
      BY <3>1, <3>2
  <2>5. {x \in W : q[x] = x} = Roots \ {u}
    BY <1>1, <1>4, <1>6
  <2>6. /\ Cardinality(Roots \ {u}) \in Nat /\ Cardinality(Roots) \in Nat
        /\ Cardinality(Roots \ {u}) = Cardinality(Roots) - 1
    <3>1. Roots \in SUBSET W /\ u \in Roots
      BY <1>2
    <3>. HIDE DEF Roots
    <3>2. IsFiniteSet(Roots) /\ IsFiniteSet(Roots \ {u})
      BY <3>1, FS_Subset, FS_RemoveElement
    <3>. QED
      BY <3>1, <3>2, FS_RemoveElement, FS_CardinalityType
  <2>7. \A x \in W : e[x] + Cardinality({y \in W : q[y] = y}) <= Cardinality(W)
    <3>. TAKE x \in W
    <3>1. e[x] \in Nat /\ e[x] <= d[x] + 1 /\ d[x] \in Nat /\ d[x] + Cardinality(Roots) <= Cardinality(W)
      BY <1>1, <2>1
    <3>2. Cardinality(W) \in Nat
      BY FS_CardinalityType
    <3>3. Cardinality({y \in W : q[y] = y}) = Cardinality(Roots) - 1
      BY <2>5, <2>6
    <3>. HIDE DEF e, Roots
    <3>. QED
      BY <2>6, <3>1, <3>2, <3>3
  <2>. HIDE DEF e, s
  <2>8. Grown(W, q, e, s)
    BY <1>4, <2>1, <2>2, <2>3, <2>4, <2>7 DEF Grown, Forest
  <2>. QED
    BY <1>3, <2>8 DEF q, u, v
<1>. QED
  BY <1>5, <1>6

(* The links k words in: the words they link have one root, and no set that *)
(* they do not leave tells words with one root apart.                      *)
Closed(S, links, k) == \A i \in 1 .. k : links[i][1] \in S <=> links[i][2] \in S
Joins(W, r, links, k) ==
  /\ \A i \in 1 .. k : r[links[i][1]] = r[links[i][2]]
  /\ \A S \in SUBSET W : Closed(S, links, k) => \A x, y \in W : x \in S /\ r[x] = r[y] => y \in S

(* One more link joins its two words, and no more.                         *)
LEMMA MergeJoins ==
  ASSUME NEW W, NEW links, NEW k \in Nat, NEW r \in [W -> W], Joins(W, r, links, k), NEW s,
         \A i \in 1 .. k + 1 : links[i][1] \in W /\ links[i][2] \in W,
         Merged(W, r, links[k + 1][1], links[k + 1][2], s)
  PROVE  Joins(W, s, links, k + 1)
<1>. DEFINE a == links[k + 1][1]
            b == links[k + 1][2]
<1>1. a \in W /\ b \in W /\ \A i \in 1 .. k : i \in 1 .. k + 1
  OBVIOUS
<1>2. \A x \in W : s[x] = IF r[x] = r[a] THEN r[b] ELSE r[x]
  BY DEF Merged
<1>3. /\ \A i \in 1 .. k : r[links[i][1]] = r[links[i][2]]
      /\ \A S \in SUBSET W : Closed(S, links, k) => \A x, y \in W : x \in S /\ r[x] = r[y] => y \in S
  BY DEF Joins
<1>. HIDE DEF a, b
<1>4. ASSUME NEW i \in 1 .. k + 1 PROVE s[links[i][1]] = s[links[i][2]]
  <2>1. links[i][1] \in W /\ links[i][2] \in W
    OBVIOUS
  <2>2. CASE i = k + 1
    BY <1>1, <1>2, <2>2 DEF a, b
  <2>3. CASE i # k + 1
    <3>1. i \in 1 .. k
      BY <2>3
    <3>2. r[links[i][1]] = r[links[i][2]]
      BY <1>3, <3>1
    <3>. QED
      BY <1>2, <2>1, <3>2
  <2>. QED
    BY <2>2, <2>3
<1>5. ASSUME NEW S \in SUBSET W, Closed(S, links, k + 1), NEW x \in W, NEW y \in W, x \in S, s[x] = s[y]
      PROVE  y \in S
  <2>1. Closed(S, links, k) /\ (a \in S <=> b \in S)
    <3>1. k + 1 \in 1 .. k + 1
      OBVIOUS
    <3>. QED
      BY <1>1, <1>5, <3>1 DEF Closed, a, b
  <2>2. \A p, t \in W : p \in S /\ r[p] = r[t] => t \in S
    BY <1>3, <2>1
  <2>3. s[x] = (IF r[x] = r[a] THEN r[b] ELSE r[x]) /\ s[y] = IF r[y] = r[a] THEN r[b] ELSE r[y]
    BY <1>2
  <2>4. CASE r[x] = r[a] /\ r[y] # r[a]
    <3>1. a \in S
      BY <1>1, <1>5, <2>2, <2>4
    <3>2. b \in S /\ r[b] = r[y]
      BY <1>5, <2>1, <2>3, <2>4, <3>1
    <3>. QED
      BY <1>1, <2>2, <3>2
  <2>5. CASE r[x] # r[a] /\ r[y] = r[a]
    <3>1. r[x] = r[b]
      BY <1>5, <2>3, <2>5
    <3>2. a \in S
      BY <1>1, <1>5, <2>1, <2>2, <3>1
    <3>. QED
      BY <1>1, <2>2, <2>5, <3>2
  <2>6. CASE (r[x] = r[a]) <=> (r[y] = r[a])
    <3>1. r[x] = r[y]
      BY <1>5, <2>3, <2>6
    <3>. QED
      BY <1>5, <2>2, <3>1
  <2>. QED
    BY <2>4, <2>5, <2>6
<1>. QED
  BY <1>4, <1>5 DEF Joins

(* Finitely many words are linked.                                         *)
LinksFinite(links, W) ==
  /\ IsFiniteSet(W) /\ W = Linked(links)
  /\ Len(links) \in Nat /\ DOMAIN links = 1 .. Len(links)
  /\ \A i \in 1 .. Len(links) : links[i][1] \in W /\ links[i][2] \in W

(* So it is for every sequence of links.                                   *)
LEMMA LinkedIsFinite ==
  ASSUME NEW A, NEW links \in Seq(A \X A)
  PROVE  LinksFinite(links, Linked(links))
<1>. DEFINE n == Len(links)
            one == [i \in 1 .. n |-> links[i][1]]
            two == [i \in 1 .. n |-> links[i][2]]
            L == {links[i][1] : i \in 1 .. n}
            R == {links[i][2] : i \in 1 .. n}
<1>1. n \in Nat /\ DOMAIN links = 1 .. n
  BY LenProperties
<1>2. Linked(links) = L \cup R
  BY <1>1 DEF Linked, ToSet
<1>3. one \in Surjection(1 .. n, L) /\ two \in Surjection(1 .. n, R)
  BY DEF Surjection
<1>4. IsFiniteSet(L) /\ IsFiniteSet(R)
  <2>. HIDE DEF L, R, one, two, n
  <2>1. IsFiniteSet(1 .. n)
    BY <1>1, FS_Interval
  <2>. QED
    BY <1>3, <2>1, FS_Surjection
<1>5. IsFiniteSet(L \cup R)
  <2>. HIDE DEF L, R
  <2>. QED
    BY <1>4, FS_Union
<1>6. \A i \in 1 .. n : links[i][1] \in L \cup R /\ links[i][2] \in L \cup R
  OBVIOUS
<1>. QED
  BY <1>1, <1>2, <1>5, <1>6 DEF LinksFinite

(* What link_clusters leaves of its links. *)
AreRoots(r, links) ==
  /\ r \in [Linked(links) -> Linked(links)]
  /\ Joins(Linked(links), r, links, Len(links))
  /\ LinkClusters(links) = {c \in {{v \in Linked(links) : r[v] = s} : s \in Linked(links)} : Cardinality(c) > 1}

(* The clusters are the classes of words with one root, after all links.   *)
LEMMA ClustersHaveRoots ==
  ASSUME NEW A, NEW links \in Seq(A \X A)
  PROVE  \E r : AreRoots(r, links)
<1>. DEFINE W == Linked(links)
            n == Len(links)
            X == [W -> W]
            base == [w \in W |-> w]
            Link(p, l) == [p EXCEPT ![RootOf(W, p, l[1])] = RootOf(W, p, l[2])]
            step == [k \in 1 .. n |-> [p \in X |-> Link(p, links[k])]]
            Taken(h) == h = [S \in SUBSET DOMAIN links |->
                              IF S = {} THEN base ELSE Link(h[S \ {Max(S)}], links[Max(S)])]
            fold == CHOOSE h : Taken(h)
            N == Cardinality(W)
<1>1. n \in Nat /\ DOMAIN links = 1 .. n /\ \A i \in 1 .. n : links[i][1] \in W /\ links[i][2] \in W
  BY LinkedIsFinite DEF LinksFinite
<1>0. IsFiniteSet(W)
  BY LinkedIsFinite DEF LinksFinite
<1>2. base \in X
  OBVIOUS
<1>. HIDE DEF W, n
<1>3. \A k \in 1 .. n : \A p \in X : Link(p, links[k]) \in X
  <2>. TAKE k \in 1 .. n
  <2>. TAKE p \in X
  <2>1. RootOf(W, p, links[k][1]) \in W /\ RootOf(W, p, links[k][2]) \in W
    BY <1>0, <1>1, RootsAreWords
  <2>. QED
    BY <2>1
<1>. HIDE DEF Link, X, base
<1>4. step \in [1 .. n -> [X -> X]]
  BY <1>3
<1>5. Taken(fold)
  <2>1. PICK it \in [SUBSET (1 .. n) -> X] : TakesGreatest(it, n, base, step)
    <3>. HIDE DEF step
    <3>. QED
      BY <1>1, <1>2, <1>4, TakingExists
  <2>2. ASSUME NEW S \in SUBSET (1 .. n)
        PROVE  it[S] = IF S = {} THEN base ELSE Link(it[S \ {Max(S)}], links[Max(S)])
    <3>1. CASE S # {}
      <4>1. Max(S) \in S /\ it[S \ {Max(S)}] \in X
        <5>1. Max(S) \in S
          BY <1>1, <3>1, GreatestIsThere
        <5>. QED
          BY <5>1
      <4>. QED
        BY <2>1, <3>1, <4>1 DEF TakesGreatest
    <3>. QED
      BY <2>1, <3>1 DEF TakesGreatest
  <2>3. Taken(it)
    BY <1>1, <2>2
  <2>. HIDE DEF Taken
  <2>. QED
    BY <2>3
<1>6. PICK f \in [0 .. n -> X] : FoldsTo(f, n, base, step) /\ fold[1 .. n] = f[n]
  <2>1. fold = [S \in SUBSET (1 .. n) |-> IF S = {} THEN base ELSE Link(fold[S \ {Max(S)}], links[Max(S)])]
    <3>. HIDE DEF fold
    <3>. QED
      BY <1>1, <1>5
  <2>. HIDE DEF fold
  <2>2. fold[{}] = base
    BY <2>1
  <2>3. ASSUME NEW S \in SUBSET (1 .. n), S # {}, fold[S \ {Max(S)}] \in X
        PROVE  fold[S] = step[Max(S)][fold[S \ {Max(S)}]]
    <3>1. Max(S) \in S
      BY <1>1, <2>3, GreatestIsThere
    <3>2. fold[S] = Link(fold[S \ {Max(S)}], links[Max(S)])
      BY <2>1, <2>3
    <3>3. step[Max(S)] = [x \in X |-> Link(x, links[Max(S)])]
      BY <3>1
    <3>. QED
      BY <2>3, <3>2, <3>3
  <2>. HIDE DEF step
  <2>4. \A S \in SUBSET (1 .. n) :
          S # {} /\ fold[S \ {Max(S)}] \in X => fold[S] = step[Max(S)][fold[S \ {Max(S)}]]
    BY <2>3
  <2>5. TakesSteps(fold, n, X, base, step)
    BY <2>2, <2>4 DEF TakesSteps
  <2>. QED
    BY <1>1, <1>2, <1>4, <2>5, TakingFolds
<1>7. LinkClusters(links) =
        {c \in {{v \in W : RootOf(W, fold[DOMAIN links], v) = s} : s \in W} : Cardinality(c) > 1}
  BY DEF LinkClusters, FoldLeft, MapThenFoldSet, Linked, W, Link, base, RootOf
<1>8. fold[DOMAIN links] = f[n]
  BY <1>1, <1>6
<1>. HIDE DEF fold
<1>. DEFINE Good(k) == \E d, r : Grown(W, f[k], d, r) /\ r \in [W -> W] /\ Joins(W, r, links, k)
            T == {k \in Nat : k <= n => Good(k)}
<1>9. N \in Nat
  BY <1>0, FS_CardinalityType
<1>10. 0 \in T
  <2>. DEFINE d == [w \in W |-> 0]
  <2>1. f[0] = [w \in W |-> w]
    BY <1>6 DEF FoldsTo, base
  <2>2. Forest(W, f[0], d, f[0])
    BY <2>1 DEF Forest
  <2>3. {v \in W : f[0][v] = v} = W
    BY <2>1
  <2>4. Grown(W, f[0], d, f[0])
    <3>1. \A x \in W : d[x] + Cardinality(W) <= Cardinality(W)
      BY <1>9
    <3>. HIDE DEF d
    <3>. QED
      BY <2>2, <2>3, <3>1 DEF Grown
  <2>5. Joins(W, f[0], links, 0) /\ f[0] \in [W -> W]
    BY <2>1 DEF Joins
  <2>. HIDE DEF d
  <2>. QED
    BY <2>4, <2>5
<1>11. ASSUME NEW k \in Nat, k \in T PROVE k + 1 \in T
  <2>. SUFFICES ASSUME k + 1 <= n PROVE Good(k + 1)
    OBVIOUS
  <2>1. k + 1 \in 1 .. n /\ (k + 1) - 1 = k /\ k <= n /\ k \in 0 .. n /\ \A i \in 1 .. k + 1 : i \in 1 .. n
    BY <1>1
  <2>2. PICK d, r : Grown(W, f[k], d, r) /\ r \in [W -> W] /\ Joins(W, r, links, k)
    BY <1>11, <2>1
  <2>. DEFINE a == links[k + 1][1]
              b == links[k + 1][2]
  <2>3. a \in W /\ b \in W
    BY <1>1, <2>1
  <2>4. \A x \in W : d[x] <= N
    <3>1. d \in [W -> Nat] /\ \A x \in W : d[x] + Cardinality({v \in W : f[k][v] = v}) <= N
      BY <2>2 DEF Grown, Forest
    <3>2. Cardinality({v \in W : f[k][v] = v}) \in Nat
      <4>. DEFINE V == {v \in W : f[k][v] = v}
      <4>1. V \in SUBSET W
        OBVIOUS
      <4>. HIDE DEF V
      <4>2. Cardinality(V) \in Nat
        BY <1>0, <4>1, FS_Subset, FS_CardinalityType
      <4>. QED
        BY <4>2 DEF V
    <3>. QED
      BY <1>9, <3>1, <3>2
  <2>5. Forest(W, f[k], d, r)
    BY <2>2 DEF Grown
  <2>. HIDE DEF a, b
  <2>6. RootOf(W, f[k], a) = r[a] /\ RootOf(W, f[k], b) = r[b]
    BY <1>0, <2>3, <2>4, <2>5, RootsAreFound
  <2>7. f[k + 1] = [f[k] EXCEPT ![r[a]] = r[b]]
    <3>1. f[k + 1] = step[k + 1][f[k]] /\ f[k] \in X
      BY <1>6, <2>1 DEF FoldsTo
    <3>2. f[k + 1] = Link(f[k], links[k + 1])
      BY <2>1, <3>1
    <3>. QED
      BY <2>6, <3>2 DEF Link, a, b
  <2>8. PICK e, s : Grown(W, f[k + 1], e, s) /\ Merged(W, r, a, b, s)
    BY <1>0, <2>2, <2>3, <2>7, MergeGrows
  <2>9. \A i \in 1 .. k + 1 : links[i][1] \in W /\ links[i][2] \in W
    BY <1>1, <2>1
  <2>10. Joins(W, s, links, k + 1)
    BY <2>2, <2>8, <2>9, MergeJoins DEF a, b
  <2>11. s \in [W -> W]
    BY <2>8 DEF Merged
  <2>. QED
    BY <2>8, <2>10, <2>11
<1>12. Good(n)
  <2>1. n \in T /\ n <= n
    <3>. HIDE DEF T
    <3>1. \A k \in Nat : k \in T
      BY <1>10, <1>11, NatInductive
    <3>. QED
      BY <1>1, <3>1
  <2>. QED
    BY <2>1
<1>13. PICK d, r : Grown(W, f[n], d, r) /\ r \in [W -> W] /\ Joins(W, r, links, n)
  BY <1>12
<1>14. \A x \in W : d[x] <= N
  <2>1. d \in [W -> Nat] /\ \A x \in W : d[x] + Cardinality({v \in W : f[n][v] = v}) <= N
    BY <1>13 DEF Grown, Forest
  <2>2. Cardinality({v \in W : f[n][v] = v}) \in Nat
    <3>. DEFINE V == {v \in W : f[n][v] = v}
    <3>1. V \in SUBSET W
      OBVIOUS
    <3>. HIDE DEF V
    <3>2. Cardinality(V) \in Nat
      BY <1>0, <3>1, FS_Subset, FS_CardinalityType
    <3>. QED
      BY <3>2 DEF V
  <2>. QED
    BY <1>9, <2>1, <2>2
<1>15. \A x \in W : RootOf(W, f[n], x) = r[x]
  <2>1. Forest(W, f[n], d, r)
    BY <1>13 DEF Grown
  <2>. QED
    BY <1>0, <1>14, <2>1, RootsAreFound
<1>16. LinkClusters(links) = {c \in {{v \in W : r[v] = s} : s \in W} : Cardinality(c) > 1}
  BY <1>7, <1>8, <1>15
<1>17. AreRoots(r, links)
  BY <1>13, <1>16 DEF AreRoots, W, n
<1>. QED
  BY <1>17

(* link_clusters gives the connected components of its links, whatever the *)
(* links and their order: the two words of a link are in one cluster, and a*)
(* set that every link is inside or outside of holds a cluster or none of  *)
(* it (entities.rs, link_clusters).  Clusters are apart by ClustersApart.  *)
THEOREM ClustersAreConnected ==
  ASSUME NEW A, NEW links \in Seq(A \X A)
  PROVE  /\ \A l \in ToSet(links) : l[1] # l[2] =>
              \E c \in LinkClusters(links) : l[1] \in c /\ l[2] \in c
         /\ \A c \in LinkClusters(links) : \A S :
              (\A l \in ToSet(links) : l[1] \in S <=> l[2] \in S) => c \subseteq S \/ c \cap S = {}
<1>. DEFINE W == Linked(links)
            n == Len(links)
<1>1. PICK r : AreRoots(r, links)
  BY ClustersHaveRoots
<1>2. IsFiniteSet(W) /\ n \in Nat /\ DOMAIN links = 1 .. n /\ \A i \in 1 .. n : links[i][1] \in W /\ links[i][2] \in W
  BY LinkedIsFinite DEF LinksFinite
<1>. DEFINE Of(s) == {v \in W : r[v] = s}
<1>3. /\ r \in [W -> W] /\ Joins(W, r, links, n)
      /\ LinkClusters(links) = {c \in {Of(s) : s \in W} : Cardinality(c) > 1}
  BY <1>1 DEF AreRoots
<1>4. \A l : l \in ToSet(links) <=> \E i \in 1 .. n : l = links[i]
  BY <1>2 DEF ToSet
<1>. HIDE DEF W, n
<1>5. ASSUME NEW l \in ToSet(links), l[1] # l[2]
      PROVE  \E c \in LinkClusters(links) : l[1] \in c /\ l[2] \in c
  <2>1. PICK i \in 1 .. n : l = links[i]
    BY <1>4
  <2>2. l[1] \in W /\ l[2] \in W /\ r[l[1]] = r[l[2]] /\ r[l[1]] \in W
    BY <1>2, <1>3, <2>1 DEF Joins
  <2>. DEFINE c == Of(r[l[1]])
  <2>3. l[1] \in c /\ l[2] \in c /\ c \in SUBSET W /\ c \in {Of(s) : s \in W}
    BY <2>2
  <2>. HIDE DEF c, Of
  <2>4. IsFiniteSet(c) /\ Cardinality(c) \in Nat
    BY <1>2, <2>3, FS_Subset, FS_CardinalityType
  <2>5. Cardinality(c) # 0 /\ Cardinality(c) # 1
    BY <1>5, <2>3, <2>4, FS_EmptySet, FS_Singleton
  <2>6. Cardinality(c) > 1
    BY <2>4, <2>5
  <2>. QED
    BY <1>3, <2>3, <2>6
<1>6. ASSUME NEW c \in LinkClusters(links), NEW S,
             \A l \in ToSet(links) : l[1] \in S <=> l[2] \in S
      PROVE  c \subseteq S \/ c \cap S = {}
  <2>1. PICK s \in W : c = Of(s)
    BY <1>3
  <2>. DEFINE V == S \cap W
  <2>2. Closed(V, links, n)
    <3>1. \A i \in 1 .. n : links[i][1] \in S <=> links[i][2] \in S
      BY <1>4, <1>6
    <3>. QED
      BY <1>2, <3>1 DEF Closed
  <2>3. V \in SUBSET W
    OBVIOUS
  <2>. HIDE DEF V
  <2>4. \A x, y \in W : x \in V /\ r[x] = r[y] => y \in V
    BY <1>3, <2>2, <2>3 DEF Joins
  <2>. QED
    BY <2>1, <2>4 DEF V
<1>. QED
  BY <1>5, <1>6

(***************************************************************************)
(* NlpEntities: the spans kept, greatest margin first.                     *)
(***************************************************************************)
(* Of some spans one comes before all others. *)
Foremost(margin, S, i) == i \in S /\ \A j \in S : i = j \/ Before(margin, i, j)

(* The span that a round takes up.                                         *)
Chosen(margin, S) == {x \in S : \A j \in S : x = j \/ Before(margin, x, j)}

(* It is there, and it is one.                                             *)
LEMMA OneIsForemost ==
  ASSUME NEW n \in Nat, NEW margin \in [1 .. n -> Int], NEW S \in SUBSET (1 .. n), S # {}
  PROVE  \E i \in S : /\ Foremost(margin, S, i)
                      /\ Chosen(margin, S) = {i}
<1>. DEFINE T == {m \in Nat : m <= n => \A U \in SUBSET (1 .. m) : U # {} => \E i \in U : Foremost(margin, U, i)}
<1>0. \A i \in 1 .. n : margin[i] \in Int
  OBVIOUS
<1>1. 0 \in T
  <2>1. ASSUME NEW U \in SUBSET (1 .. 0), U # {} PROVE FALSE
    <3>1. PICK x \in U : TRUE
      BY <2>1
    <3>2. x \in 1 .. 0
      BY <3>1
    <3>. QED
      BY <3>2
  <2>. QED
    BY <2>1
<1>2. ASSUME NEW m \in Nat, m \in T PROVE m + 1 \in T
  <2>. SUFFICES ASSUME m + 1 <= n, NEW U \in SUBSET (1 .. m + 1), U # {}
                PROVE  \E i \in U : Foremost(margin, U, i)
    OBVIOUS
  <2>. DEFINE V == U \ {m + 1}
  <2>1. V \in SUBSET (1 .. m) /\ m <= n
    OBVIOUS
  <2>2. CASE V = {}
    <3>1. U = {m + 1}
      BY <2>2
    <3>. QED
      BY <3>1 DEF Foremost
  <2>3. CASE V # {}
    <3>1. PICK i \in V : Foremost(margin, V, i)
      BY <1>2, <2>1, <2>3
    <3>2. margin[i] \in Int /\ margin[m + 1] \in Int /\ i \in Nat /\ i < m + 1
      BY <1>0, <2>1
    <3>3. CASE Before(margin, m + 1, i) /\ m + 1 \in U
      <4>1. ASSUME NEW j \in U PROVE m + 1 = j \/ Before(margin, m + 1, j)
        <5>1. CASE j \in V
          <6>1. margin[j] \in Int /\ j \in Nat /\ j < m + 1
            BY <1>0, <2>1, <5>1
          <6>2. i = j \/ Before(margin, i, j)
            BY <3>1, <5>1 DEF Foremost
          <6>. QED
            BY <3>2, <3>3, <6>1, <6>2 DEF Before
        <5>. QED
          BY <5>1
      <4>. QED
        BY <3>3, <4>1 DEF Foremost
    <3>4. CASE ~(Before(margin, m + 1, i) /\ m + 1 \in U)
      <4>1. ASSUME NEW j \in U PROVE i = j \/ Before(margin, i, j)
        <5>1. CASE j \in V
          BY <3>1, <5>1 DEF Foremost
        <5>2. CASE j = m + 1
          BY <3>2, <3>4, <5>2 DEF Before
        <5>. QED
          BY <5>1, <5>2
      <4>2. i \in U
        OBVIOUS
      <4>. QED
        BY <4>1, <4>2 DEF Foremost
    <3>. QED
      BY <3>3, <3>4
  <2>. QED
    BY <2>2, <2>3
<1>3. \A m \in Nat : m \in T
  <2>. HIDE DEF T
  <2>. QED
    BY <1>1, <1>2, NatInductive
<1>4. PICK i \in S : Foremost(margin, S, i)
  <2>1. n \in T /\ n <= n
    BY <1>3
  <2>. QED
    BY <2>1
<1>5. ASSUME NEW x \in S, \A j \in S : x = j \/ Before(margin, x, j) PROVE x = i
  <2>1. i = x \/ Before(margin, i, x)
    BY <1>4 DEF Foremost
  <2>2. x = i \/ Before(margin, x, i)
    BY <1>5
  <2>3. margin[x] \in Int /\ margin[i] \in Int /\ x \in Int /\ i \in Int
    BY <1>0
  <2>. QED
    BY <2>1, <2>2, <2>3 DEF Before
<1>6. Chosen(margin, S) = {i}
  BY <1>4, <1>5 DEF Foremost, Chosen
<1>. QED
  BY <1>4, <1>6

(* What k rounds have looked at, and what they kept of it. *)
Greedy(margin, spans, kept, S) ==
  /\ kept \subseteq S /\ \A i \in kept : margin[i] > 0
  /\ \A i, j \in kept : i # j => ~Overlap(spans[i], spans[j])
  /\ \A i \in S \ kept : margin[i] > 0 =>
       \E k \in kept : Overlap(spans[k], spans[i]) /\ Before(margin, k, i)

(* k rounds leave the spans behind those that they have looked at.         *)
Rounds(margin, spans, n, k, s) ==
  /\ s.left \in SUBSET (1 .. n) /\ Cardinality(s.left) = n - k
  /\ \A i \in (1 .. n) \ s.left, j \in s.left : Before(margin, i, j)
  /\ Greedy(margin, spans, s.kept, (1 .. n) \ s.left)

(* So does one round more.                                                 *)
LEMMA RoundIsGreedy ==
  ASSUME NEW n \in Nat, NEW margin \in [1 .. n -> Int], NEW spans, NEW k \in 1 .. n, NEW s,
         \A i, j \in 1 .. n : Overlap(spans[i], spans[j]) <=> Overlap(spans[j], spans[i]),
         Rounds(margin, spans, n, k - 1, s)
  PROVE  Rounds(margin, spans, n, k, TakeNext(margin, spans, s))
<1>. DEFINE L == s.left
            K == s.kept
            t == TakeNext(margin, spans, s)
<1>0. /\ L \in SUBSET (1 .. n) /\ Cardinality(L) = n - (k - 1)
      /\ \A i \in (1 .. n) \ L, j \in L : Before(margin, i, j)
      /\ K \subseteq (1 .. n) \ L /\ \A i \in K : margin[i] > 0
      /\ \A i, j \in K : i # j => ~Overlap(spans[i], spans[j])
      /\ \A i \in ((1 .. n) \ L) \ K : margin[i] > 0 =>
           \E p \in K : Overlap(spans[p], spans[i]) /\ Before(margin, p, i)
  BY DEF Rounds, Greedy
<1>1. L # {}
  <2>1. n - (k - 1) # 0
    OBVIOUS
  <2>. QED
    BY <1>0, <2>1, FS_EmptySet
<1>2. PICK i \in L : /\ Foremost(margin, L, i)
                     /\ Chosen(margin, L) = {i}
  <2>1. L \in SUBSET (1 .. n)
    BY <1>0
  <2>. HIDE DEF L
  <2>. QED
    BY <1>1, <2>1, OneIsForemost
<1>. DEFINE fits == margin[i] > 0 /\ \A p \in K : ~Overlap(spans[p], spans[i])
            M == K \cup {x \in {i} : margin[x] > 0 /\ \A p \in K : ~Overlap(spans[p], spans[x])}
<1>3. t = [left |-> L \ {i}, kept |-> M]
  BY <1>2 DEF TakeNext, Chosen
<1>4. M = IF fits THEN K \cup {i} ELSE K
  OBVIOUS
<1>5. L \ {i} \in SUBSET (1 .. n) /\ Cardinality(L \ {i}) = n - k
  <2>1. IsFiniteSet(1 .. n)
    BY FS_Interval
  <2>2. IsFiniteSet(L)
    BY <1>0, <2>1, FS_Subset
  <2>3. Cardinality(L \ {i}) = Cardinality(L) - 1
    BY <2>2, FS_RemoveElement
  <2>4. (n - (k - 1)) - 1 = n - k
    OBVIOUS
  <2>. QED
    BY <1>0, <2>3, <2>4
<1>. HIDE DEF M, L, K, t
<1>6. i \in 1 .. n /\ i \notin K /\ (1 .. n) \ (L \ {i}) = ((1 .. n) \ L) \cup {i}
  BY <1>0
<1>7. \A x \in (1 .. n) \ (L \ {i}), j \in L \ {i} : Before(margin, x, j)
  BY <1>0, <1>2, <1>6 DEF Foremost
<1>8. M \subseteq (1 .. n) \ (L \ {i}) /\ \A x \in M : margin[x] > 0
  BY <1>0, <1>4, <1>6
<1>9. \A x, y \in M : x # y => ~Overlap(spans[x], spans[y])
  BY <1>0, <1>4, <1>6
<1>10. ASSUME NEW x \in ((1 .. n) \ (L \ {i})) \ M, margin[x] > 0
       PROVE  \E p \in M : Overlap(spans[p], spans[x]) /\ Before(margin, p, x)
  <2>1. CASE x = i
    <3>1. ~fits
      BY <1>4, <1>10, <2>1
    <3>2. PICK p \in K : Overlap(spans[p], spans[i])
      BY <1>10, <2>1, <3>1
    <3>3. Before(margin, p, i)
      BY <1>0
    <3>. QED
      BY <1>4, <2>1, <3>2, <3>3
  <2>2. CASE x # i
    <3>1. x \in ((1 .. n) \ L) \ K
      BY <1>4, <1>6, <2>2
    <3>2. PICK p \in K : Overlap(spans[p], spans[x]) /\ Before(margin, p, x)
      BY <1>0, <1>10, <3>1
    <3>. QED
      BY <1>4, <3>2
  <2>. QED
    BY <2>1, <2>2
<1>11. t.left = L \ {i} /\ t.kept = M
  BY <1>3
<1>12. Rounds(margin, spans, n, k, t)
  <2>1. Greedy(margin, spans, t.kept, (1 .. n) \ t.left)
    BY <1>8, <1>9, <1>10, <1>11 DEF Greedy
  <2>. QED
    BY <1>5, <1>7, <1>11, <2>1 DEF Rounds
<1>. QED
  BY <1>12 DEF t

(* The recursion of DecodeSpans.                                           *)
Taking(take, margin, spans) ==
  take = [n \in 0 .. Len(spans) |->
            IF n = 0 THEN [left |-> DOMAIN spans, kept |-> {}] ELSE TakeNext(margin, spans, take[n - 1])]

(* Of any spans with any margins decode_spans keeps some that are positive *)
(* and apart from each other, and drops a positive one only for an         *)
(* overlapping one that it keeps and that comes before it: by its greater  *)
(* margin, or by its place among equals (decode.rs, decode_spans).         *)
THEOREM SpansAreGreedy ==
  ASSUME NEW n \in Nat, NEW margin \in [1 .. n -> Int], NEW spans \in Seq(Nat \X Nat), Len(spans) = n
  PROVE  Greedy(margin, spans, DecodeSpans(margin, spans), 1 .. n)
<1>. DEFINE X == [left : SUBSET (1 .. n), kept : SUBSET (1 .. n)]
            base == [left |-> 1 .. n, kept |-> {}]
            step == [k \in 1 .. n |-> [s \in X |-> TakeNext(margin, spans, s)]]
            take == CHOOSE h : Taking(h, margin, spans)
<1>1. DOMAIN spans = 1 .. n
  BY LenProperties
<1>2. base \in X
  OBVIOUS
<1>3. \A s \in X : TakeNext(margin, spans, s) \in X
  BY DEF TakeNext
<1>. HIDE DEF X
<1>4. step \in [1 .. n -> [X -> X]]
  BY <1>3
<1>. HIDE DEF base, step
<1>5. PICK f \in [0 .. n -> X] : FoldsTo(f, n, base, step)
  BY <1>2, <1>4, StepsExist
<1>6. f[0] = base /\ \A k \in 1 .. n : f[k] = TakeNext(margin, spans, f[k - 1])
  <2>1. \A k \in 1 .. n : k - 1 \in 0 .. n
    OBVIOUS
  <2>. QED
    BY <1>5, <2>1 DEF FoldsTo, step
<1>7. Taking(f, margin, spans)
  <2>1. \A k \in 0 .. n : k # 0 => k \in 1 .. n
    OBVIOUS
  <2>2. f = [k \in 0 .. n |-> IF k = 0 THEN base ELSE TakeNext(margin, spans, f[k - 1])]
    BY <1>6, <2>1
  <2>. QED
    BY <1>1, <2>2 DEF Taking, base
<1>8. Taking(take, margin, spans)
  BY <1>7
<1>9. DecodeSpans(margin, spans) = take[n].kept
  BY DEF DecodeSpans, Taking
<1>. HIDE DEF take
<1>10. take = [k \in 0 .. n |-> IF k = 0 THEN base ELSE TakeNext(margin, spans, take[k - 1])]
  BY <1>1, <1>8 DEF Taking, base
<1>11. take[0] = base /\ \A k \in 1 .. n : take[k] = TakeNext(margin, spans, take[k - 1])
  <2>1. 0 \in 0 .. n /\ \A k \in 1 .. n : k \in 0 .. n /\ k # 0
    OBVIOUS
  <2>. QED
    BY <1>10, <2>1
<1>12. \A i, j \in 1 .. n : Overlap(spans[i], spans[j]) <=> Overlap(spans[j], spans[i])
  BY DEF Overlap
<1>. DEFINE T == {k \in Nat : k <= n => Rounds(margin, spans, n, k, take[k])}
<1>13. 0 \in T
  <2>1. Cardinality(1 .. n) = n - 0
    BY FS_Interval
  <2>2. take[0].left = 1 .. n /\ take[0].kept = {}
    BY <1>11 DEF base
  <2>. QED
    BY <2>1, <2>2 DEF Rounds, Greedy
<1>14. ASSUME NEW k \in Nat, k \in T PROVE k + 1 \in T
  <2>. SUFFICES ASSUME k + 1 <= n PROVE Rounds(margin, spans, n, k + 1, take[k + 1])
    OBVIOUS
  <2>1. k + 1 \in 1 .. n /\ (k + 1) - 1 = k /\ k <= n
    OBVIOUS
  <2>2. Rounds(margin, spans, n, (k + 1) - 1, take[k])
    BY <1>14, <2>1
  <2>3. take[k + 1] = TakeNext(margin, spans, take[k])
    BY <1>11, <2>1
  <2>. HIDE DEF T
  <2>. QED
    BY <1>12, <2>1, <2>2, <2>3, RoundIsGreedy
<1>15. Rounds(margin, spans, n, n, take[n])
  <2>1. n \in T /\ n <= n
    <3>1. \A k \in Nat : k \in T
      <4>. HIDE DEF T
      <4>. QED
        BY <1>13, <1>14, NatInductive
    <3>. HIDE DEF T
    <3>. QED
      BY <3>1
  <2>. QED
    BY <2>1
<1>16. take[n].left = {}
  <2>1. IsFiniteSet(1 .. n) /\ take[n].left \in SUBSET (1 .. n) /\ Cardinality(take[n].left) = 0
    BY <1>15, FS_Interval DEF Rounds
  <2>. QED
    BY <2>1, FS_Subset, FS_EmptySet
<1>17. Greedy(margin, spans, take[n].kept, 1 .. n)
  <2>1. (1 .. n) \ {} = 1 .. n
    OBVIOUS
  <2>. QED
    BY <1>15, <1>16, <2>1 DEF Rounds
<1>. QED
  BY <1>9, <1>17
=============================================================================
