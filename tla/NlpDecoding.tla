----------------------------- MODULE NlpDecoding -----------------------------
(***************************************************************************)
(* The host side of decoding: what the scores of the kniv graphs mean      *)
(* (decode.rs), mentions to entities (entities.rs), and the decoders that  *)
(* the v1 cascade keeps for itself (nlp.rs).                               *)
(*                                                                         *)
(* Scores are small integers.  log_softmax shifts a row and so leaves      *)
(* every comparison of this module as it is: it is left out.  Rows, words  *)
(* and classes count from 1 here.                                          *)
(***************************************************************************)
EXTENDS NlpTags, FiniteSets, FiniteSetsExt, SequencesExt

NegInf == -1000000     \* f64::NEG_INFINITY

\* max_by of the v1 decoders: ties to the highest index.
ArgMaxLast(row) ==
  CHOOSE i \in DOMAIN row :
    /\ \A j \in DOMAIN row : row[j] <= row[i]
    /\ \A j \in DOMAIN row : j > i => row[j] < row[i]

(***************************************************************************)
(* The spans of a sequence of tags.                                        *)
(***************************************************************************)
\* bio_spans: <<label, first, end>>, words from first up to end.
BioSpans(tags) ==
  LET Step(acc, i) ==
        LET t == IF i <= Len(tags) THEN tags[i] ELSE <<"O", "">>
        IN  IF t[1] # "I"
            THEN [spans |-> IF acc.label = "" THEN acc.spans
                            ELSE Append(acc.spans, <<acc.label, acc.start, i>>),
                  label |-> IF t[1] = "B" THEN t[2] ELSE "",
                  start |-> i]
            ELSE IF acc.label = "" THEN [acc EXCEPT !.label = t[2], !.start = i] ELSE acc
  IN  FoldLeft(Step, [spans |-> <<>>, label |-> "", start |-> 1],
               [i \in 1..(Len(tags) + 1) |-> i]).spans

\* merge_ner_spans and decode_srl_frame of v1: <<label, first, last>>.  A tag
\* without a prefix is given as "B" and opens a span; in the frames "V", and
\* any prefix but B and I, closes one.
MergeNerSpans(tags) ==
  LET Close(acc) == IF acc.cur = <<>> THEN acc.spans ELSE Append(acc.spans, acc.cur)
      Step(acc, i) ==
        LET t == tags[i]
        IN  CASE t[1] = "O" -> [spans |-> Close(acc), cur |-> <<>>]
              [] t[1] = "I" /\ acc.cur # <<>> /\ t[2] = acc.cur[1] ->
                   [acc EXCEPT !.cur[3] = i]
              [] OTHER -> [spans |-> Close(acc), cur |-> <<t[2], i, i>>]
      end == FoldLeft(Step, [spans |-> <<>>, cur |-> <<>>], [i \in DOMAIN tags |-> i])
  IN  Close(end)

\* Words: token[i] is token i's index in the result, or 0 for a special one.
DecodeSrlFrame(tags, token) ==
  LET Known(i) == IF token[i] = 0 \/ tags[i][1] \notin {"B", "I"} THEN <<"O", "">> ELSE tags[i]
      spans == MergeNerSpans([i \in DOMAIN tags |-> Known(i)])
  IN  [s \in DOMAIN spans |-> <<spans[s][1], token[spans[s][2]], token[spans[s][3]]>>]

(***************************************************************************)
(* Dependency trees.  Row 1 and column 1 are the root; head 0 is none.     *)
(***************************************************************************)
Plus(a, b) == IF a <= NegInf \/ b <= NegInf THEN NegInf ELSE a + b
Minus(a, b) == IF a <= NegInf THEN NegInf ELSE a - b

\* The k-th head above x.
Above(heads, x, k) ==
  FoldLeft(LAMBDA y, i : IF y <= 1 THEN y ELSE heads[y], x, [i \in 1..k |-> i])

OnCycle(heads, x) == x > 1 /\ \E k \in DOMAIN heads : Above(heads, x, k) = x

Least(S) == CHOOSE x \in S : \A y \in S : x <= y

\* Where the walk from a node meets a cycle, and the cycle from there.
EntryOf(heads, from) ==
  Above(heads, from, Least({k \in 0..Len(heads) : OnCycle(heads, Above(heads, from, k))}))
CycleFrom(heads, entry) ==
  [k \in 1..Least({k \in DOMAIN heads : Above(heads, entry, k) = entry}) |-> Above(heads, entry, k - 1)]

\* find_cycle: the cycle that the walk from the first node to reach one
\* meets, from the node where it meets it.
FindCycle(heads) ==
  LET reach == {x \in DOMAIN heads \ {1} : OnCycle(heads, Above(heads, x, Len(heads)))}
  IN  IF reach = {} THEN <<>> ELSE CycleFrom(heads, EntryOf(heads, Least(reach)))

GreedyHeads(s) == [i \in DOMAIN s |-> IF i = 1 THEN 0 ELSE ArgMax(s[i])]

\* contract: the nodes outside the cycle, what entering the cycle at each of its
\* nodes gains, and what its nodes score as heads.
Outside(s, cyc) == SelectSeq([i \in DOMAIN s |-> i], LAMBDA i : i \notin ToSet(cyc))
Enter(s, heads, cyc, rest) ==
  [b \in DOMAIN rest |-> [k \in DOMAIN cyc |->
     Minus(s[cyc[k]][rest[b]], s[cyc[k]][heads[cyc[k]]])]]
Leave(s, cyc, rest) == [a \in DOMAIN rest |-> [k \in DOMAIN cyc |-> s[rest[a]][cyc[k]]]]

\* The scores with the cycle as one node, the last.
Contracted(s, rest, enter, leave) ==
  LET c == Len(rest)
      best(row) == row[ArgMax(row)]
  IN  [a \in 1..(c + 1) |-> [b \in 1..(c + 1) |->
        CASE a = b -> NegInf
          [] a <= c /\ b <= c -> s[rest[a]][rest[b]]
          [] a = c + 1 -> best(enter[b])
          [] OTHER -> best(leave[a])]]

\* The heads of the contracted scores, with the cycle opened where it is entered.
Expand(heads, cyc, rest, enter, leave, sub) ==
  LET c == Len(rest)
      Place(i) == CHOOSE k \in 1..c : rest[k] = i
  IN  [i \in DOMAIN heads |->
        CASE i = 1 -> 0
          [] i = cyc[ArgMax(enter[sub[c + 1]])] -> rest[sub[c + 1]]
          [] i \in ToSet(cyc) -> heads[i]
          [] sub[Place(i)] = c + 1 -> cyc[ArgMax(leave[Place(i)])]
          [] OTHER -> rest[sub[Place(i)]]]

RECURSIVE ChuLiuEdmonds(_)
OpenCycle(s, heads, cyc, rest, enter, leave) ==
  Expand(heads, cyc, rest, enter, leave, ChuLiuEdmonds(Contracted(s, rest, enter, leave)))
WithoutCycle(s, heads, cyc) ==
  LET rest == Outside(s, cyc)
  IN  IF cyc = <<>> THEN heads
      ELSE OpenCycle(s, heads, cyc, rest, Enter(s, heads, cyc, rest), Leave(s, cyc, rest))
ChuLiuEdmonds(s) ==
  LET heads == GreedyHeads(s) IN WithoutCycle(s, heads, FindCycle(heads))

TreeScore(s, heads) ==
  FoldLeft(Plus, 0, [k \in 1..(Len(s) - 1) |-> s[k + 1][heads[k + 1]]])

\* Scores where only r may hang from the root.
Rooted(s, r) ==
  [i \in DOMAIN s |-> [j \in DOMAIN s |-> IF j = 1 /\ i # r THEN NegInf ELSE s[i][j]]]

RootsOf(heads) == SelectSeq([i \in DOMAIN heads |-> i], LAMBDA i : heads[i] = 1)

\* Variant: the first candidate root is kept.
OneRootFirst(s, heads) ==
  IF Len(RootsOf(heads)) <= 1 THEN heads ELSE ChuLiuEdmonds(Rooted(s, RootsOf(heads)[1]))

\* With several roots, solve again for each of them.
OneRoot(s, heads) ==
  LET Scored(r, h) == [heads |-> h, score |-> TreeScore(Rooted(s, r), h)]
      Better(acc, new) == IF new.score > acc.score THEN new ELSE acc
  IN  IF Len(RootsOf(heads)) <= 1 THEN heads
      ELSE FoldLeft(LAMBDA acc, r : Better(acc, Scored(r, ChuLiuEdmonds(Rooted(s, r)))),
                    [heads |-> heads, score |-> NegInf], RootsOf(heads)).heads

TreeHeads(s) == OneRoot(s, ChuLiuEdmonds(s))

\* The words of a sentence that are analysed.
WordsIn(sent, mask, s) ==
  SelectSeq([i \in DOMAIN sent |-> i], LAMBDA i : sent[i] = s /\ mask[i])

\* The scores of words w: arc[i] scores the root first and then each word.
Matrix(arc, w) ==
  [a \in 1..(Len(w) + 1) |-> [b \in 1..(Len(w) + 1) |->
     IF a = b \/ a = 1 THEN NegInf
     ELSE arc[w[a - 1]][IF b = 1 THEN 1 ELSE w[b - 1] + 1]]]

\* The heads of words w among `all` from the tree h over them.
Attach(all, w, h) ==
  LET At(i) == (CHOOSE k \in DOMAIN w : w[k] = i) + 1
  IN  [i \in DOMAIN all |-> IF i \notin ToSet(w) THEN all[i]
                            ELSE IF h[At(i)] = 1 THEN 0 ELSE w[h[At(i)] - 1]]

\* decode_trees: 0 for a root, else the head's word; sentence 0 is none.
DecodeTrees(arc, sent, mask) ==
  FoldSet(LAMBDA s, acc : Attach(acc, WordsIn(sent, mask, s), TreeHeads(Matrix(arc, WordsIn(sent, mask, s)))),
          [i \in DOMAIN sent |-> ArgMax(arc[i]) - 1],
          {sent[i] : i \in {j \in DOMAIN sent : mask[j] /\ sent[j] > 0}})
=============================================================================
