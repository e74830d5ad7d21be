----------------------------- MODULE NlpAnalysis -----------------------------
(***************************************************************************)
(* A kniv v7 release from its load to the analysis of one window: the      *)
(* order in which the graphs run, which outputs of the first are asked for *)
(* and which are read later, and how entities, speakers and markers of the *)
(* relation pass are numbered (nlp_v7.rs, pipeline.rs, marker_input).      *)
(*                                                                         *)
(* The graphs are external: a run fails or gives the outputs that the      *)
(* release declares, and what the scores decode to is a choice.  Words     *)
(* count from 1; a position of a marker is its place in the rewritten      *)
(* window, 0 past the budget.                                              *)
(***************************************************************************)
EXTENDS NlpAlign, NlpEntities

CONSTANTS
  Releases,     \* sets of outputs that a release declares for "plain"
  Requests,     \* [tasks, types, facts]: types and facts say what the schema asks
  Windows,      \* [pieces, sentences]; a word is encoded as pieces[word] subwords
  Typings,      \* sequences of typed spans that the scores may decode to
  Chains,       \* sequences of coreference chains
  CorefMode,    \* calibration.entity_coref
  MaxSubwords,  \* onnx_meta.json
  MarkerBudget  \* MARKER_MAX_SUBWORDS

\* The windows that build_windows makes: no sentence is without words, so each
\* starts at a word of its own.
WindowsOfWords ==
  {w \in [pieces : Seq(Nat), sentences : Seq([start : Nat, end : Nat, unit : Nat, speaker : STRING])] :
     \A i, j \in DOMAIN w.sentences : w.sentences[i].start = w.sentences[j].start => i = j}

ASSUME WindowsType == Windows \subseteq WindowsOfWords

ASSUME DecodedType ==
  /\ Typings \subseteq Seq([span : Nat \X Nat, type : STRING])
  /\ Chains \subseteq Seq(Seq(Nat \X Nat))

ASSUME BudgetType == MaxSubwords \in Nat \ {0, 1} /\ MarkerBudget \in Nat \ {0, 1}

VARIABLES
  stage,     \* the next step
  release,   \* declared outputs of "plain"
  request,
  window,
  plain,     \* outputs of "plain" that are held
  coref,     \* clusters
  nodes,     \* entities: [speaker, mentions]
  markers,   \* rewritten window and the positions of every node's mentions
  facts,
  failure    \* why the request or the load ended early

avars == <<stage, release, request, window, plain, coref, nodes, markers, facts, failure>>

\* KnivV7Model::load: outputs without which a release is refused.
Required == {"pos", "ner", "arc", "srl_pred", "cls", "ent", "span_words"}

Expanded(tasks) == IF "FACTS" \in tasks THEN tasks \cup {"ENTITIES"} ELSE tasks

Linguistic == {"POS", "NER", "DEP", "SRL", "CLS", "MORPH", "LEMMA", "SENTIMENT"}

WantCoref(tasks) == "COREF" \in tasks \/ ("ENTITIES" \in tasks /\ CorefMode # "none")

OutputsFor(t) ==
  CASE t = "DEP" -> {"arc", "rel_dep", "rel_head"}
    [] t = "SRL" -> {"srl_pred", "srl_words"}
    [] t = "ENTITIES" -> {"ent", "span_words"}
    [] t = "POS" -> {"pos"}       [] t = "MORPH" -> {"morph"}
    [] t = "LEMMA" -> {"lemma"}   [] t = "NER" -> {"ner"}
    [] t = "CLS" -> {"cls"}       [] t = "SENTIMENT" -> {"sentiment"}
    [] OTHER -> {}

CorefOutputs == {"coref_words", "coref_scores", "coref_cand"}

\* Variant: coreference is asked for by its own task only.
PlainOutputsOfTasks(tasks) ==
  (UNION {OutputsFor(t) : t \in tasks})
  \cup (IF "COREF" \in tasks THEN CorefOutputs ELSE {})

PlainOutputs(tasks) ==
  (UNION {OutputsFor(t) : t \in tasks})
  \cup (IF WantCoref(tasks) THEN CorefOutputs ELSE {})

Tasks == Expanded(request.tasks)
Alignment == Align(window.pieces, MaxSubwords)
Analysed == LET first == Alignment.first IN {w \in DOMAIN first : first[w] >= 0}   \* the word mask
Spans == [j \in DOMAIN window.sentences |->
           <<window.sentences[j].start + 1, window.sentences[j].end + 1>>]

AInit ==
  /\ stage = "load" /\ release \in Releases
  /\ request = [tasks |-> {}, types |-> FALSE, facts |-> FALSE]
  /\ window = [pieces |-> <<>>, sentences |-> <<>>]
  /\ plain = {} /\ coref = <<>> /\ nodes = <<>> /\ facts = {} /\ failure = "none"
  /\ markers = [items |-> <<>>, positions |-> <<>>]

Fail(why) == stage' = "failed" /\ failure' = why

\* The rest of what refuses a release is left open: an option of v1, an EP
\* list, a file that cannot be fetched or read, a "plain" graph without input
\* first_subword.
AcceptRelease ==
  /\ stage = "load"
  /\ \/ Required \subseteq release /\ stage' = "idle" /\ failure' = "none"
     \/ \E why \in {"config", "download", "load"} : Fail(why)
  /\ UNCHANGED <<release, request, window, plain, coref, nodes, markers, facts>>

\* Runner::window up to the first graph.
Ask(r, w) ==
  /\ stage = "idle"
  /\ request' = r /\ window' = w
  /\ stage' = IF \/ Align(w.pieces, MaxSubwords).limit = 0
                 \/ PlainOutputs(Expanded(r.tasks)) = {} THEN "done" ELSE "plain"
  /\ UNCHANGED <<release, plain, coref, nodes, markers, facts, failure>>

\* Graphs::run of "plain".
RunPlain ==
  /\ stage = "plain"
  /\ \/ /\ plain' = PlainOutputs(Tasks) \cap release
        /\ stage' = IF WantCoref(Tasks) THEN "coref" ELSE "linguistic"
        /\ UNCHANGED failure
     \/ /\ Fail("invocation")
        /\ UNCHANGED plain
  /\ UNCHANGED <<release, request, window, coref, nodes, markers, facts>>

\* A stage reads outputs of "plain" and may run graphs of its own.
Missing(reads) == ~(reads \subseteq plain)

\* Runner::coref: the spans graph runs when the antecedents make a cluster.
Coref ==
  /\ stage = "coref"
  /\ \/ /\ Missing({"coref_scores", "coref_cand"}) /\ Fail("output") /\ UNCHANGED coref
     \/ /\ ~Missing({"coref_scores", "coref_cand"})
        /\ \E c \in Chains :
             \/ /\ c # <<>> => ~Missing({"coref_words"})
                /\ coref' = c /\ stage' = "linguistic" /\ UNCHANGED failure
             \/ /\ c # <<>> /\ Missing({"coref_words"})
                /\ Fail("output") /\ UNCHANGED coref
             \/ c # <<>> /\ Fail("invocation") /\ UNCHANGED coref
  /\ UNCHANGED <<release, request, window, plain, nodes, markers, facts>>

\* Runner::linguistic and Runner::srl.
ReadFor(t) ==
  CASE t = "DEP" -> {"arc", "rel_dep", "rel_head"}
    [] t = "SRL" -> {"srl_pred", "srl_words"}
    [] t = "POS" -> {"pos"}       [] t = "MORPH" -> {"morph"}
    [] t = "LEMMA" -> {"lemma"}   [] t = "NER" -> {"ner"}
    [] t = "CLS" -> {"cls"}       [] t = "SENTIMENT" -> {"sentiment"}

LinguisticReads == UNION {ReadFor(t) : t \in Tasks \cap Linguistic}

Analyse ==
  /\ stage = "linguistic"
  /\ \/ /\ Missing(LinguisticReads \ {"srl_words"}) /\ Fail("output")
     \/ \* without a predicate srl_words is not read
        /\ Missing(LinguisticReads) /\ Fail("output")
     \/ /\ ~Missing(LinguisticReads \ {"srl_words"})
        /\ stage' = (IF "ENTITIES" \in Tasks THEN "entities" ELSE "done") /\ UNCHANGED failure
     \/ /\ {"DEP", "SRL"} \cap Tasks # {} /\ Fail("invocation")
  /\ UNCHANGED <<release, request, window, plain, coref, nodes, markers, facts>>

\* The nodes that relations adds for speakers: the participants with a turn
\* that is analysed, and those turns.
Turns == LET analysed == Analysed
             all == SpeakerTurns(window, Participants(window))
             turns == [i \in DOMAIN all |-> <<all[i][1] + 1, all[i][2]>>]
         IN  Filter(turns, {t \in ToSet(turns) : t[1] \in analysed})

TurnsOf(turns, p) == Filter(turns, {t \in ToSet(turns) : t[2] = p})
Heard == LET turns == Turns IN {turns[i][2] : i \in DOMAIN turns}

\* Variant: the nodes of the speakers in another order than theirs.
SpeakingReversed == Reverse(Filter([p \in DOMAIN Participants(window) |-> p], Heard))

Speaking == Filter([p \in DOMAIN Participants(window) |-> p], Heard)

SpeakerNode(p) ==
  [speaker  |-> Participants(window)[p],
   mentions |-> LET own == TurnsOf(Turns, p)
                IN  [i \in DOMAIN own |-> <<own[i][1], own[i][1] + 1>>]]

\* All pairs of a word and an end, in their order.
SpansInOrder == LET ends == Len(window.pieces) + 1
                IN  [k \in 1 .. (ends * ends) |-> <<((k - 1) \div ends) + 1, ((k - 1) % ends) + 1>>]

\* Mentions in the analysed words, sorted, without duplicates.
EntityNode(mentions) ==
  LET analysed == Analysed
      limit == Alignment.limit
  IN  [speaker  |-> "nobody",
       mentions |-> Filter(SpansInOrder, {m \in {mentions[i].span : i \in DOMAIN mentions} :
                                            m[2] <= limit + 1 /\ m[1] \in analysed})]

\* Runner::entities and the nodes of Runner::relations.
Group ==
  /\ stage = "entities"
  /\ LET read == IF ~request.types THEN {"ent"} ELSE IF Analysed = {} THEN {} ELSE {"span_words"}
     IN  \/ Missing(read) /\ Fail("output") /\ UNCHANGED nodes
         \/ request.types /\ Fail("invocation") /\ UNCHANGED nodes
         \/ /\ ~Missing(read)
            /\ \E typed \in Typings :
                 LET tokens == [w \in DOMAIN window.pieces |->
                                  [lower |-> w, capital |-> FALSE, size |-> 3]]
                     limit == Alignment.limit
                     here == Filter(typed, {s \in ToSet(typed) : s.span[2] <= limit + 1})
                     grouped == BuildEntities(tokens, Spans, here, coref, CorefMode)
                     entities == [k \in DOMAIN grouped |-> EntityNode(grouped[k])]
                     kept == Filter(entities, {n \in ToSet(entities) : n.mentions # <<>>})
                     speaking == Speaking
                 IN  nodes' = [i \in DOMAIN speaking |-> SpeakerNode(speaking[i])] \o kept
            /\ stage' = "markers" /\ UNCHANGED failure
  /\ UNCHANGED <<release, request, window, plain, coref, markers, facts>>

\* The rewritten window: `*` around mentions, and `* name * :` before a turn.
\* An item is <<kind, what>>; each is one subword, a word as many as it has.
MarkedItems(spans, turns, names) ==
  LET Opens(i) == \E k \in DOMAIN spans : \E m \in DOMAIN spans[k] : spans[k][m][1] = i
      Closes(i) == \E k \in DOMAIN spans : \E m \in DOMAIN spans[k] : spans[k][m][2] = i + 1
      Turn(i) == Filter(turns, {t \in ToSet(turns) : t[1] = i /\ t[2] \in DOMAIN names})
      Around(i, turn) ==
        (IF turn = <<>> THEN <<>>
         ELSE <<<<"turn", i>>, <<"name", names[turn[1][2]]>>, <<"mark", 0>>, <<"colon", 0>>>>)
        \o (IF Opens(i) THEN <<<<"open", i>>>> ELSE <<>>)
        \o <<<<"word", i>>>>
        \o (IF Closes(i) THEN <<<<"mark", 0>>>> ELSE <<>>)
  IN  FlattenSeq([i \in DOMAIN window.pieces |-> Around(i, Turn(i))])

\* How many items the budget keeps.
PiecesOf(items) == [k \in DOMAIN items |-> IF items[k][1] = "word" THEN window.pieces[items[k][2]] ELSE 1]
Fit(items) == Align(PiecesOf(items), MarkerBudget).limit

MarkerPositions(items, fit, spans, turns, names) ==
  LET Place(found) == IF found = {} THEN 0 ELSE CHOOSE k \in found : TRUE
      At(item) == Place({k \in 1..fit : items[k] = item})
      Opened(own) == [i \in DOMAIN own |-> At(<<"turn", own[i][1]>>)]
  IN  [p \in DOMAIN names |-> Opened(TurnsOf(turns, p))]
      \o [k \in DOMAIN spans |-> [m \in DOMAIN spans[k] |-> At(<<"open", spans[k][m][1]>>)]]

\* marker_input.
MarkerInput(spans, turns, names) ==
  LET Positioned(items) == [items |-> items, positions |-> MarkerPositions(items, Fit(items), spans, turns, names)]
  IN  Positioned(MarkedItems(spans, turns, names))

\* What relations passes to marker_input: as many participants as there are
\* speaker nodes, from the first on.
Mark ==
  /\ stage = "markers"
  /\ LET n == Cardinality({k \in DOMAIN nodes : nodes[k].speaker # "nobody"})
         input == MarkerInput([k \in 1..(Len(nodes) - n) |-> nodes[n + k].mentions],
                              Filter(Turns, {t \in ToSet(Turns) : t[2] <= n}),
                              SubSeq(Participants(window), 1, n))
         Position(k, j) == IF k <= Len(input.positions) /\ j <= Len(input.positions[k])
                           THEN input.positions[k][j] ELSE 0
     IN  IF ~request.facts \/ "FACTS" \notin Tasks \/ Len(nodes) < 2
         THEN stage' = "done" /\ UNCHANGED <<markers, failure>>
         ELSE \/ /\ markers' = [items |-> input.items,
                                positions |-> [k \in DOMAIN nodes |->
                                  [j \in DOMAIN nodes[k].mentions |-> Position(k, j)]]]
                 /\ stage' = "facts" /\ UNCHANGED failure
              \/ Fail("invocation") /\ UNCHANGED markers
  /\ UNCHANGED <<release, request, window, plain, coref, nodes, facts>>

\* The rest of relations: facts are ordered pairs of nodes whose margin is
\* positive; who holds one, and its degrees, are left out.
Relate ==
  /\ stage = "facts"
  /\ \/ /\ facts' \in {{}} \cup {{p} : p \in {q \in (DOMAIN nodes) \X (DOMAIN nodes) : q[1] # q[2]}}
        /\ stage' = "done" /\ UNCHANGED failure
     \/ Fail("invocation") /\ UNCHANGED facts
  /\ UNCHANGED <<release, request, window, plain, coref, nodes, markers>>

ANext ==
  \/ AcceptRelease
  \/ \E r \in Requests, w \in Windows : Ask(r, w)
  \/ RunPlain \/ Coref \/ Analyse \/ Group \/ Mark \/ Relate

ASpec == AInit /\ [][ANext]_avars

(***************************************************************************)
(* Properties                                                              *)
(***************************************************************************)
\* An output that a stage misses is one that the release does not declare:
\* what the tasks make the stages read was asked of the first graph.
ReadsWereRequested ==
  failure = "output" =>
    \E o \in CorefOutputs \cup {"ent", "span_words"} \cup LinguisticReads :
       o \notin release

\* Every mention of a node is announced by a marker of its own: a speaker's
\* by the name of that speaker before that turn, an entity's by the mark
\* before its first word.  None is missing while the window fits the budget
\* (align.rs, "Speakers come first, in participant order, and their positions
\* are the markers opening their turns").
MarkersOpenOwnTurns ==
  \A k \in DOMAIN markers.positions : \A j \in DOMAIN markers.positions[k] :
    LET at == markers.positions[k][j]
        m  == nodes[k].mentions[j]
    IN  IF at = 0 THEN Subwords(PiecesOf(markers.items)) > MarkerBudget
        ELSE IF nodes[k].speaker # "nobody"
             THEN /\ markers.items[at] = <<"turn", m[1]>>
                  /\ markers.items[at + 1] = <<"name", nodes[k].speaker>>
             ELSE markers.items[at] = <<"open", m[1]>>

\* Unless a participant without an analysed turn comes before one that has
\* one, who is then taken for the other: every marker opens its own turn or
\* mention (pipeline.rs, relations).
MarkersFollowSpeakers ==
  (\A p \in Heard : 1 .. p \subseteq Heard) => MarkersOpenOwnTurns
=============================================================================
