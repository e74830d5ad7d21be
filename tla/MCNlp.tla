-------------------------------- MODULE MCNlp --------------------------------
(***************************************************************************)
(* The local NLP models on small inputs: the functions of NlpWords,        *)
(* NlpEntities and NlpDecoding on every input of a bound, against what     *)
(* they are to compute, and NlpAnalysis.  A behaviour takes one part.      *)
(***************************************************************************)
EXTENDS NlpWords, NlpAnalysis, NlpCascade, TLC

CONSTANTS TextLength, TurnLength, MaxWords

VARIABLES part, input, result

mcvars == <<avars, part, input, result>>

Alphabet == {"s", "A", ".", "'", " ", "n"}
Texts(n) == UNION {[1..k -> Alphabet] : k \in 0..n}

BioTags == <<<<"O", "">>, <<"B", "X">>, <<"I", "X">>>>
SrlTags == <<<<"O", "">>, <<"V", "">>, <<"B", "A">>, <<"I", "A">>>>
Layouts == {<<1, 1, 1>>, <<1, 1, 2>>}

\* Runner::ner on three words: every tag is kept.
AllTags == [w \in 1..3 |-> [k \in DOMAIN BioTags |-> TRUE]]
\* Runner::srl on a sentence with its predicate at p: the tags that are kept.
PredicateOnly(p) == [w \in 1..3 |-> [k \in DOMAIN SrlTags |-> (k = 2) <=> (w = p)]]

MCReleases ==
  LET all == {"pos", "morph", "lemma", "ner", "arc", "rel_dep", "rel_head", "srl_pred", "srl_words",
              "cls", "sentiment", "coref_words", "coref_scores", "coref_cand", "ent", "span_words"}
  IN  {all} \cup {all \ {o} : o \in all}
Asks(t, fine, stated) == [tasks |-> t, types |-> fine, facts |-> stated]
MCRequests ==
  {Asks({t}, FALSE, FALSE) : t \in Linguistic} \cup
  {Asks(t, fine, stated) : fine \in BOOLEAN, stated \in BOOLEAN,
     t \in {{}, {"COREF"}, {"ENTITIES"}, {"FACTS"}, Linguistic \cup {"COREF", "FACTS"}}}
Says(a, b, who) == [start |-> a, end |-> b, unit |-> 1, speaker |-> who]
\* A turn whose first word the tokenizer drops, before two others.
SilentOpening ==
  {[pieces |-> <<0, 1, 1, 1>>,
    sentences |-> <<Says(0, 2, "ann"), Says(2, 3, "bob"), Says(3, 4, "cat")>>]}
MCWindows ==
  SilentOpening \cup
  {[pieces |-> <<1, 2, 1>>, sentences |-> <<Says(0, 2, "nobody"), Says(2, 3, "nobody")>>],
   [pieces |-> <<1, 1, 2, 1>>, sentences |-> <<Says(0, 1, "ann"), Says(1, 2, "bob"), Says(2, 4, "ann")>>],
   [pieces |-> <<1, 1, 1>>, sentences |-> <<Says(0, 1, "ann"), Says(1, 2, "bob"), Says(2, 3, "cat")>>],
   [pieces |-> <<7>>, sentences |-> <<Says(0, 1, "nobody")>>]}
Typed(i) == [span |-> <<i, i + 1>>, type |-> "PER"]
MCTypings == {<<>>, <<Typed(1), Typed(2)>>, <<Typed(1), Typed(2), Typed(3)>>, <<Typed(2), Typed(3)>>}
MCChains == {<<>>, <<<<<<1, 1>>, <<3, 3>>>>>>}

Idle ==
  /\ stage = "idle" /\ release = {} /\ request = [tasks |-> {}, types |-> FALSE, facts |-> FALSE]
  /\ window = [pieces |-> <<>>, sentences |-> <<>>] /\ plain = {} /\ coref = <<>>
  /\ nodes = <<>> /\ facts = {} /\ failure = "none" /\ markers = [items |-> <<>>, positions |-> <<>>]

\* A constant added to a row changes no comparison: each has a 0.
Rows(top) == {r \in [1..3 -> 0..top] : \E h \in 1..3 : r[h] = 0}
\* Scores of the root and the three words, none of a word for itself.
Scores(top) ==
  {[w \in 1..3 |-> [h \in 1..4 |-> IF h = w + 1 THEN 0 ELSE rows[w][IF h <= w THEN h ELSE h - 1]]] :
     rows \in [1..3 -> Rows(top)]}
Pairs == {<<a, b>> \in (1..4) \X (1..4) : a # b}

\* Words "ann", "Ann", "he" and "ann smith"'s parts for the entities.
NamedWords == {[lower |-> "ann", capital |-> TRUE, size |-> 3], [lower |-> "he", capital |-> FALSE, size |-> 2]}

\* Two special tokens around three of a text.
Token(special, w, v, h, t) == [special |-> special, word |-> w, verb |-> v, head |-> h, tag |-> t]
Tokenized(words, said) ==
  <<Token(TRUE, 0, FALSE, 1, BioTags[1])>>
  \o [i \in 1..3 |-> Token(FALSE, words[i], said[i].verb, said[i].head, BioTags[said[i].tag])]
  \o <<Token(TRUE, 0, FALSE, 1, BioTags[1])>>

MCInit ==
  /\ result = <<>>
  /\ \/ part = "analysis" /\ input = <<>> /\ AInit
     \/ part = "prose" /\ Idle /\ input \in Texts(TextLength)
     \/ part = "turns" /\ Idle /\ input \in {<<<<"ann", a>>, <<who, b>>>> : a \in Texts(TurnLength),
                                            b \in Texts(TurnLength), who \in {"ann", "bob"}}
     \/ part = "align" /\ Idle /\ input \in [pieces : [1..4 -> 0..2], budget : 3..8]
     \/ part = "tree" /\ Idle /\ input \in [arcs : Scores(1), sent : Layouts,
                                            mask : {<<TRUE, TRUE, TRUE>>, <<TRUE, FALSE, TRUE>>}]
     \/ part = "tree" /\ Idle /\ input \in [arcs : Scores(2), sent : {<<1, 1, 1>>},
                                            mask : {<<TRUE, TRUE, TRUE>>}]
     \/ part = "tags" /\ Idle /\ input \in [logp : [1..3 -> Rows(2)]]
     \/ part = "frame" /\ Idle /\ input \in [logp : [1..3 -> {r \in [1..4 -> 0..1] : \E k \in 1..4 : r[k] = 0}], at : 1..3]
     \/ part = "cascade" /\ Idle /\ input \in
          [words : {<<1, 2, 3>>, <<1, 1, 2>>, <<1, 2, 2>>}, size : {2, 3, 5},
           said : [1..3 -> [verb : BOOLEAN, head : 1..2, tag : 1..3]]]
     \/ part = "clusters" /\ Idle /\ input \in UNION {[1..k -> Pairs] : k \in 0..3}
     \/ part = "spans" /\ Idle /\ input \in [margin : [1..5 -> 0..2], sent : Layouts, mask : {<<TRUE, TRUE, TRUE>>}]
     \/ part = "entities" /\ Idle /\ input \in
          [names : [1..3 -> NamedWords], types : [1..3 -> {"PER", "NUM"}],
           chains : {<<>>, <<<<<<1, 1>>, <<3, 3>>>>>>, <<<<<<1, 2>>>>, <<<<2, 3>>>>>>, <<<<<<2, 2>>>>, <<<<1, 3>>>>>>},
           mode : {"none", "all", "compatible"}]

Compute(f) == result = <<>> /\ result' = <<f>> /\ UNCHANGED <<avars, part, input>>

Analysis == part = "analysis" /\ ANext /\ UNCHANGED <<part, input, result>>
Worded(units) == LET windows == BuildWindows(units, MaxWords)
                 IN  [units |-> units, windows |-> windows, flat |-> Flatten(windows, units)]
Prose == part = "prose" /\ Compute(Worded(Paragraphs(input)))
Conversation == part = "turns" /\ Compute(Worded(TurnsAsUnits(input)))
Aligned == part = "align" /\ Compute(LET a == Align(input.pieces, input.budget) IN
           [align |-> a, ends |-> WordEnds(a), batch |-> EncodeLabels(input.pieces, input.budget)])
Trees == part = "tree" /\ Compute(DecodeTrees(input.arcs, input.sent, input.mask))
TagPath == part = "tags" /\ Compute(Viterbi(input.logp, BioConstraints(BioTags), AllTags))
Frames == part = "frame" /\ Compute(Viterbi(input.logp, BioConstraints(SrlTags), PredicateOnly(input.at)))
Cascade == part = "cascade" /\ Compute(AnalyzeOne(Tokenized(input.words, input.said), input.size))
Clusters == part = "clusters" /\ Compute(LinkClusters(input))
Kept == part = "spans" /\ Compute(LET spans == SpanCandidates(input.sent, input.mask, 2)
                                 IN  DecodeSpans(SubSeq(input.margin, 1, Len(spans)), spans))
Entities == part = "entities" /\ Compute(
  BuildEntities(input.names, <<<<1, 4>>>>,
                [i \in 1..3 |-> [span |-> <<i, i + 1>>, type |-> input.types[i]]], input.chains, input.mode))

MCNext ==
  \/ Analysis \/ Prose \/ Conversation \/ Aligned \/ Trees \/ TagPath \/ Frames \/ Cascade
  \/ Clusters \/ Kept \/ Entities

MCSpec == MCInit /\ [][MCNext]_mcvars

Done(p) == part = p /\ result # <<>>
Outcome == result[1]

(***************************************************************************)
(* Properties                                                              *)
(***************************************************************************)
\* What the words [start, end) of a unit cover of its text.
Covered(u) ==
  UNION {UNION {(w.start - Outcome.units[u].offset + 1)..(w.end - Outcome.units[u].offset) :
                  w \in {win.words[i] : i \in UNION {(s.start + 1)..s.end :
                           s \in {t \in ToSet(win.sentences) : t.unit = u}}}} :
         win \in ToSet(Outcome.windows)}

\* Words are the input's own characters at their offsets, in order and each
\* once; no character of a sentence within the word limit is lost but white
\* space and quotes; windows respect the limit and sentences tile them; and
\* flatten's sentences tile the tokens and show the text between their
\* offsets (text.rs, "Tokenize one sentence into words with byte offsets").
WordsMatchInput ==
  Done("prose") \/ Done("turns") =>
    LET units == Outcome.units
        tokens == Outcome.flat.tokens
        told == Outcome.flat.sentences
    IN  /\ \A win \in ToSet(Outcome.windows) :
             /\ Len(win.words) \in 1..MaxWords
             /\ win.sentences[1].start = 0 /\ Last(win.sentences).end = Len(win.words)
             /\ \A j \in DOMAIN win.sentences : j > 1 =>
                  win.sentences[j].start = win.sentences[j - 1].end
             /\ \A j \in DOMAIN win.sentences :
                  LET s == win.sentences[j] IN
                  \A i \in (s.start + 1)..s.end :
                    LET w == win.words[i]
                        source == IF part = "prose" THEN input ELSE units[s.unit].text
                    IN  /\ w.text # <<>> /\ w.text = SubSeq(source, w.start + 1, w.end)
                        /\ i > s.start + 1 => win.words[i - 1].end <= w.start
        /\ (\A s \in ToSet(Sentences(units)) : Len(s.words) <= MaxWords) =>
             \A u \in DOMAIN units : \A i \in DOMAIN units[u].text :
               i \in Covered(u) \/ units[u].text[i] \in Spaces \cup Closers
        /\ tokens = FlattenSeq([k \in DOMAIN Outcome.windows |-> Outcome.windows[k].words])
        /\ \A j \in DOMAIN told :
             /\ told[j].first = (IF j = 1 THEN 0 ELSE told[j - 1].last + 1)
             /\ told[j].start = tokens[told[j].first + 1].start
             /\ told[j].end = tokens[told[j].last + 1].end
             /\ part = "prose" => told[j].text = SubSeq(input, told[j].start + 1, told[j].end)
        /\ told # <<>> => Last(told).last = Len(tokens) - 1

\* Subwords between first and end belong to one word (see NlpAlign); and the
\* rows of a batch of labels are padded to one length.
SubwordsBelongToWords ==
  Done("align") =>
    /\ WordsHaveTheirSubwords(input.pieces, input.budget, Outcome.align, Outcome.ends)
    /\ \A i, j \in DOMAIN Outcome.batch : Len(Outcome.batch[i]) = Len(Outcome.batch[j])

\* From the text to the analysed subwords and back, nothing moves: see the
\* two parts.
TextIsMapped == WordsMatchInput /\ SubwordsBelongToWords

Legal(path, tags) ==
  /\ tags[path[1]][1] # "I"
  /\ \A t \in DOMAIN path : t > 1 /\ tags[path[t]][1] = "I" =>
       tags[path[t - 1]][1] \in {"B", "I"} /\ tags[path[t - 1]][2] = tags[path[t]][2]

Total(logp, path) == FoldLeft(LAMBDA a, t : a + logp[t][path[t]], 0, [t \in DOMAIN path |-> t])

LegalPaths(tags) == {p \in [1..3 -> DOMAIN tags] : Legal(p, tags)}
TagPaths == LegalPaths(BioTags)
FramePaths == [at \in 1..3 |-> {p \in LegalPaths(SrlTags) : \A t \in 1..3 : (p[t] = 2) <=> (t = at)}]

\* The Viterbi path is a legal tag sequence, keeps the predicate where it is,
\* and no such sequence scores more, nor any other with its penalties; the two decoders of tags, of v7 and of
\* the v1 cascade, read the same mentions and arguments from it.
TagsAreDecoded ==
  Done("tags") \/ Done("frame") =>
    LET paths == IF part = "tags" THEN TagPaths ELSE FramePaths[input.at]
        tags  == IF part = "tags" THEN BioTags ELSE SrlTags
        keep  == IF part = "tags" THEN AllTags ELSE PredicateOnly(input.at)
        named == [t \in 1..3 |-> tags[Outcome[t]]]
        spans == BioSpans(named)
        closed == [k \in DOMAIN spans |-> <<spans[k][1], spans[k][2], spans[k][3] - 1>>]
    IN  /\ Outcome \in paths
        /\ \A p \in paths : Total(input.logp, p) <= Total(input.logp, Outcome)
        /\ PathIsBest(input.logp, BioConstraints(tags), keep, Outcome)
        /\ PathIsLegal(BioConstraints(tags), keep, Outcome)
        /\ DecodeSrlFrame(named, [t \in 1..3 |-> t]) = closed
        /\ part = "tags" => MergeNerSpans(named) = closed

\* The words that sentence s analyses, and their trees with one root.
Members(s) == {i \in 1..3 : input.sent[i] = s /\ input.mask[i]}
IsTree(S, h) ==
  /\ Cardinality({i \in S : h[i] = 0}) = 1
  /\ LET Up(x) == IF x = 0 THEN 0 ELSE h[x] IN \A i \in S : Up(Up(Up(i))) = 0
TreesOver == [S \in SUBSET (1..3) |-> {h \in [S -> S \cup {0}] : IsTree(S, h)}]

\* Heads of a sentence form one tree over its words with a single root, and
\* no such tree scores more than it.
TreeIsBest ==
  Done("tree") =>
    \A s \in 1..2 :
      LET S == Members(s)
          arcs == input.arcs
          heads == [i \in S |-> Outcome[i]]
          Score(h) == FoldLeft(LAMBDA a, i : a + (IF i \in S THEN arcs[i][h[i] + 1] ELSE 0), 0, <<1, 2, 3>>)
      IN  S # {} => /\ heads \in TreesOver[S]
                    /\ \A h \in TreesOver[S] : Score(h) <= Score(heads)

\* Decoders give legal structures, and no legal one scores more: see the two
\* parts.
DecodingIsBest == TagsAreDecoded /\ TreeIsBest

\* The request's tokens behind the result of the cascade: token k of the
\* result is token k + 1, and its window starts at First(k).
Source == Tokenized(input.words, input.said)
First(k) == (k \div input.size) * input.size + 1

\* Every index in the cascade's result is the request's own, whatever the
\* window: a head is the token that the scores of its window point at, a
\* token shares its word index with those of its word and no other, and a
\* frame's predicate is a verb and its roles run over tokens of its window.
CascadeIsGlobal ==
  Done("cascade") =>
    /\ Len(Outcome.tokens) = 3
    /\ \A k \in 1..3 :
         LET head == First(k) + Source[k + 1].head - 1
         IN  Outcome.tokens[k].head =
               IF Source[head].special \/ head = k + 1 THEN 0 ELSE head - 1
    /\ \A j, k \in 1..3 :
         (Outcome.tokens[j].word = Outcome.tokens[k].word) <=> (input.words[j] = input.words[k])
    /\ \A f \in ToSet(Outcome.frames) :
         /\ Source[f.predicate + 1].verb
         /\ \A r \in ToSet(f.roles) :
              /\ First(r[2]) = First(f.predicate) /\ First(r[3]) = First(f.predicate)
              /\ \A k \in r[2]..r[3] : Source[k + 1].tag[2] = r[1]

\* Words that the links relate, directly or not.
RECURSIVE Reach(_)
Reach(S) ==
  LET more == S \cup UNION {{l[1], l[2]} : l \in {k \in ToSet(input) : {k[1], k[2]} \cap S # {}}}
  IN  IF more = S THEN S ELSE Reach(more)

SpansAt == SpanCandidates(input.sent, input.mask, 2)

\* Coreference clusters are the components of the links; kept spans do not
\* overlap and a better one displaced each that was left out; and entities
\* part the mentions: each is in one, one type has each, two mentions of one
\* name are together where no chain groups them, and so are those of one chain.
MentionsAreGrouped ==
  /\ Done("clusters") =>
       Outcome = {Reach({w}) : w \in {l[1] : l \in ToSet(input)} \cup {l[2] : l \in ToSet(input)}}
  /\ Done("spans") =>
       /\ \A a, b \in Outcome : a # b => ~Overlap(SpansAt[a], SpansAt[b])
       /\ \A i \in DOMAIN SpansAt : LET margin == input.margin IN
            i \in Outcome \/ margin[i] = 0
              \/ \E k \in Outcome : margin[k] >= margin[i] /\ Overlap(SpansAt[k], SpansAt[i])
  /\ Done("entities") /\ Outcome # <<>> =>
       LET In(i) == {k \in DOMAIN Outcome : \E m \in ToSet(Outcome[k]) : m.span[1] = i}
       IN  /\ \A i \in 1..3 : Cardinality(In(i)) = 1
           /\ \A k \in DOMAIN Outcome : \A m, n \in ToSet(Outcome[k]) : m.type = n.type
           /\ \A i, j \in 1..3 : input.types[i] = input.types[j] =>
                /\ input.mode = "none" /\ input.types[i] = "PER" /\ input.names[i] = input.names[j]
                     /\ input.names[i].size > 2 => In(i) = In(j)
                /\ input.mode = "all" /\ input.chains = <<<<<<1, 1>>, <<3, 3>>>>>>
                     /\ {i, j} = {1, 3} => In(i) = In(j)
=============================================================================
