----------------------------- MODULE NlpEntities -----------------------------
(***************************************************************************)
(* Mentions, coreference and entities of one window (decode.rs and         *)
(* entities.rs).  A word is a record of its lower-case form, whether it    *)
(* starts with a capital, and its length; a span is a half-open            *)
(* <<first, end>> over words that count from 1; a coreference chain holds  *)
(* inclusive spans.                                                        *)
(***************************************************************************)
EXTENDS Integers, Sequences, FiniteSets, SequencesExt, SequenceFilter

Mergeable == {"PER", "ORG", "LOC", "MISC"}
Dropped == {"CARDINAL", "ORDINAL"}
Coarse == {"LOC", "MISC", "NUM", "ORG", "PER", "TIME"}
FunctionWords == {"the", "of"}

\* TYPE_MAP, for the fine types that the entity head does not emit.
CoarseOf(type) ==
  CASE type \in Coarse -> type
    [] type = "PERSON" -> "PER"
    [] type \in {"GPE", "FAC"} -> "LOC"
    [] type = "DATE" -> "TIME"
    [] type \in {"PERCENT", "MONEY", "QUANTITY"} -> "NUM"
    [] OTHER -> "MISC"

\* Variant: the word itself is hung under the other's root, not its root.
LinkClustersOfWords(links) ==
  LET words == {l[1] : l \in ToSet(links)} \cup {l[2] : l \in ToSet(links)}
      Root(parent, x) ==
        LET up[k \in 0..Cardinality(words)] == IF k = 0 THEN x ELSE parent[up[k - 1]]
        IN  up[Cardinality(words)]
      forest == FoldLeft(LAMBDA p, l : [p EXCEPT ![l[1]] = Root(p, l[2])],
                         [w \in words |-> w], links)
  IN  {c \in {{v \in words : Root(forest, v) = r} : r \in words} : Cardinality(c) > 1}

\* The components of the words that links relate, with a union-find forest;
\* shortening its paths changes no root.
LinkClusters(links) ==
  LET words == {l[1] : l \in ToSet(links)} \cup {l[2] : l \in ToSet(links)}
      Root(parent, x) ==
        LET up[k \in 0..Cardinality(words)] == IF k = 0 THEN x ELSE parent[up[k - 1]]
        IN  up[Cardinality(words)]
      forest == FoldLeft(LAMBDA p, l : [p EXCEPT ![Root(p, l[1])] = Root(p, l[2])],
                         [w \in words |-> w], links)
  IN  {c \in {{v \in words : Root(forest, v) = r} : r \in words} : Cardinality(c) > 1}

\* Spans of up to width words in one sentence between analysed words, in the
\* order of the two loops.
SpanCandidates(sent, mask, width) ==
  LET n == Len(sent)
      At(s) == IF ~mask[s] \/ sent[s] = 0 THEN <<>>
               ELSE Filter([k \in 1..width |-> <<s, s + k>>],
                      {<<s, e>> : e \in {e \in (s + 1)..(n + 1) :
                         mask[e - 1] /\ \A i \in s..(e - 1) : sent[i] = sent[s]}})
  IN  FlattenSeq([s \in 1..n |-> At(s)])

Overlap(a, b) == a[1] < b[2] /\ b[1] < a[2]

\* decode_spans: greedy by margin, ties to the first span, while margins are
\* positive.  A margin is the best of the span's types over its threshold.
Before(margin, a, b) == margin[a] > margin[b] \/ (margin[a] = margin[b] /\ a < b)
TakeNext(margin, spans, s) ==
  LET next == {i \in s.left : \A j \in s.left : i = j \/ Before(margin, i, j)}
  IN  [left |-> s.left \ next,
       kept |-> s.kept \cup {i \in next : margin[i] > 0 /\ \A k \in s.kept : ~Overlap(spans[k], spans[i])}]
DecodeSpans(margin, spans) ==
  LET take[n \in 0..Len(spans)] ==
        IF n = 0 THEN [left |-> DOMAIN spans, kept |-> {}] ELSE TakeNext(margin, spans, take[n - 1])
  IN  take[Len(spans)].kept

\* The content words of a mention.
NameTokens(tokens, m) ==
  LET words == [k \in 1..(m[2] - m[1]) |-> tokens[m[1] + k - 1].lower]
  IN  Filter(words, ToSet(words) \ FunctionWords)

\* Equal names, or one inside the other; acronyms are left out.
NamesCompatible(tokens, m1, m2) ==
  LET a == NameTokens(tokens, m1)
      b == NameTokens(tokens, m2)
  IN  /\ a # <<>> /\ b # <<>>
      /\ a = b \/ (IF Len(a) <= Len(b) THEN ToSet(a) \subseteq ToSet(b) ELSE ToSet(b) \subseteq ToSet(a))

\* Members with those of their class, by the first member of each class.
ByClass(ms, class) ==
  LET firsts == Filter([x \in DOMAIN ms |-> x],
                       {x \in DOMAIN ms : \A y \in 1..(x - 1) : ms[y] \notin class[ms[x]]})
  IN  [k \in DOMAIN firsts |-> Filter(ms, class[ms[firsts[k]]])]

\* Members by the cluster that they are in, or alone.
InClusters(ms, clusters) ==
  ByClass(ms, [i \in ToSet(ms) |-> {i} \cup UNION {c \in clusters : i \in c}])

\* Components of compatible names.
SplitByCompatibleNames(tokens, spans, ms) ==
  LET pairs == FlattenSeq([x \in DOMAIN ms |-> [y \in DOMAIN ms |-> <<ms[x], ms[y]>>]])
      linked == {l \in ToSet(pairs) :
                   l[1] # l[2] /\ NamesCompatible(tokens, spans[l[1]].span, spans[l[2]].span)}
  IN  InClusters(ms, LinkClusters(Filter(pairs, linked)))

Surface(tokens, m) == [k \in 1..(m[2] - m[1]) |-> tokens[m[1] + k - 1].lower]
Letters(tokens, m) == FoldLeft(LAMBDA a, k : a + tokens[k].size + (IF k > m[1] THEN 1 ELSE 0), 0,
                               [k \in 1..(m[2] - m[1]) |-> m[1] + k - 1])

\* Members of one chain by type, in order of first appearance.
ByType(spans, members) ==
  ByClass(members, [i \in ToSet(members) |-> {j \in DOMAIN spans : spans[j].type = spans[i].type}])

Touches(span, link) == span[1] <= link[2] /\ link[1] <= span[2] - 1

\* What a chain takes: spans that it overlaps and no chain took before.
MembersOf(spans, chain, used) ==
  FoldLeft(LAMBDA got, link :
             got \o Filter([i \in DOMAIN spans |-> i],
                      {i \in DOMAIN spans :
                         i \notin used \cup ToSet(got) /\ Touches(spans[i].span, link)}),
           <<>>, chain)

\* The groups that the members of one chain make.
GroupsOf(tokens, spans, byType, mode) ==
  IF mode = "compatible"
  THEN FlattenSeq([k \in DOMAIN byType |-> SplitByCompatibleNames(tokens, spans, byType[k])])
  ELSE byType

Alone(spans, grouped) ==
  grouped.groups \o Filter([i \in DOMAIN spans |-> <<i>>], {<<i>> : i \in DOMAIN spans \ grouped.used})

\* Step 2 of build_entities.
GroupByChains(tokens, spans, chains, mode) ==
  LET Taken(acc, members) ==
        [used |-> acc.used \cup ToSet(members),
         groups |-> acc.groups \o GroupsOf(tokens, spans, ByType(spans, members), mode)]
  IN  Alone(spans, FoldLeft(LAMBDA acc, chain : Taken(acc, MembersOf(spans, chain, acc.used)),
                            [used |-> {}, groups |-> <<>>],
                            IF mode = "none" THEN <<>> ELSE chains))

\* Step 3: equal surface forms of a mergeable type are one entity, when they
\* are longer than two characters.
MergeNames(tokens, spans, groups) ==
  LET Key(g) == <<spans[g[1]].type, Surface(tokens, spans[g[1]].span)>>
      Merge(acc, g) ==
        LET mergeable == spans[g[1]].type \in Mergeable
            known == {k \in acc.named : k[1] = Key(g)}
        IN  IF mergeable /\ Letters(tokens, spans[g[1]].span) > 2 /\ known # {}
            THEN [merged |-> [acc.merged EXCEPT ![(CHOOSE k \in known : TRUE)[2]] = @ \o g],
                  named  |-> acc.named]
            ELSE [merged |-> Append(acc.merged, g),
                  named  |-> IF ~mergeable THEN acc.named
                             ELSE (acc.named \ known) \cup {<<Key(g), Len(acc.merged) + 1>>}]
  IN  FoldLeft(Merge, [merged |-> <<>>, named |-> {}], groups).merged

\* Mentions that end in the sentence that they start in.
InOneSentence(spans, sentences) ==
  LET SentenceOf(p) == CHOOSE j \in DOMAIN sentences :
                         /\ sentences[j][1] <= p
                         /\ \A k \in DOMAIN sentences : sentences[k][1] <= p => k <= j
  IN  {i \in DOMAIN spans : spans[i].span[2] <= sentences[SentenceOf(spans[i].span[1])][2]}

\* Members that lie in one sentence; groups without any are dropped.
InSentences(groups, inside) ==
  LET cut == [k \in DOMAIN groups |-> Filter(groups[k], inside)]
  IN  Filter(cut, ToSet(cut) \ {<<>>})

Coarsened(typed) ==
  LET named == Filter(typed, {s \in ToSet(typed) : s.type \notin Dropped})
  IN  [i \in DOMAIN named |-> [named[i] EXCEPT !.type = CoarseOf(@)]]

Grouped(spans, kept) ==
  IF Len(spans) < 2 \/ Len(kept) < 2 THEN <<>>
  ELSE [k \in DOMAIN kept |-> [x \in DOMAIN kept[k] |-> spans[kept[k][x]]]]

\* Steps 2 and 3 of build_entities, and what lies in one sentence of them.
EntitiesOf(tokens, sentences, spans, chains, mode) ==
  InSentences(MergeNames(tokens, spans, GroupByChains(tokens, spans, chains, mode)),
              InOneSentence(spans, sentences))

\* build_entities.  A span is [span, type, sentence]; sentences are
\* <<first, end>>.
BuildEntities(tokens, sentences, typed, chains, mode) ==
  LET spans == Coarsened(typed)
  IN  Grouped(spans, EntitiesOf(tokens, sentences, spans, chains, mode))

(***************************************************************************)
(* Properties                                                              *)
(***************************************************************************)
\* Groups of the items of S: each item is in one group, at one place of it.
Parts(groups, S) ==
  /\ groups \in Seq(Seq(S) \ {<<>>})
  /\ \A i \in S : \E k \in DOMAIN groups : i \in ToSet(groups[k])
  /\ \A k, l \in DOMAIN groups : \A x \in DOMAIN groups[k], y \in DOMAIN groups[l] :
       groups[k][x] = groups[l][y] => k = l /\ x = y

\* No group mixes types.
OneType(spans, groups) ==
  \A k \in DOMAIN groups : \A x, y \in DOMAIN groups[k] :
    spans[groups[k][x]].type = spans[groups[k][y]].type

\* Whatever the chains say, every mention that lies in one sentence is in one
\* entity, once, with mentions of its own type only (build_entities: `used`,
\* the types of a chain and the keys of the names).
EntitiesPartMentions(tokens, sentences, typed, chains, mode) ==
  LET spans == Coarsened(typed)
      entities == EntitiesOf(tokens, sentences, spans, chains, mode)
  IN  Parts(entities, InOneSentence(spans, sentences)) /\ OneType(spans, entities)
=============================================================================
