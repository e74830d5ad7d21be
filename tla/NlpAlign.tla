------------------------------- MODULE NlpAlign -------------------------------
(***************************************************************************)
(* The words of one window and the encoder's subwords (align.rs), and the  *)
(* speakers of its sentences (text.rs, Window).                            *)
(*                                                                         *)
(* The tokenizer is external: word w is encoded as pieces[w] subwords,     *)
(* none when it drops the word, between two special tokens.  Subwords      *)
(* count from 0, as in the code, words from 1.                             *)
(***************************************************************************)
EXTENDS Integers, Sequences, SequencesExt, SequenceFilter

\* Where each word's subwords start, and where the last ones end.
SubwordStarts(pieces) ==
  LET starts[w \in 1 .. (Len(pieces) + 1)] ==
        IF w = 1 THEN 1 ELSE starts[w - 1] + pieces[w - 1]
  IN  starts

\* The length of the encoding with its special tokens.
Subwords(pieces) == SubwordStarts(pieces)[Len(pieces) + 1] + 1

\* The words whose first subword does not fit.
Past(pieces, maxSubwords) ==
  {w \in DOMAIN pieces : pieces[w] > 0 /\ SubwordStarts(pieces)[w] >= maxSubwords - 1}

\* align: each word's first subword, -1 without one; how many ids are kept;
\* and how many words fit the budget.
Align(pieces, maxSubwords) ==
  LET starts == SubwordStarts(pieces)
      past   == Past(pieces, maxSubwords)
      cut    == Subwords(pieces) > maxSubwords
      limit  == IF cut /\ past # {}
                THEN (CHOOSE w \in past : \A v \in past : w <= v) - 1
                ELSE Len(pieces)
  IN  [ids   |-> IF cut THEN maxSubwords ELSE Subwords(pieces),
       first |-> [w \in 1 .. limit |-> IF pieces[w] = 0 THEN -1 ELSE starts[w]],
       limit |-> limit]

\* The walk back over words: where the subwords after word w begin, if the
\* last ones end before `last`.
NextFirst(a, last) ==
  LET next[k \in 0 .. Len(a.first)] ==
        IF k = 0 THEN last
        ELSE LET f == a.first[Len(a.first) + 1 - k]
             IN  IF f >= 0 /\ f < next[k - 1] THEN f ELSE next[k - 1]
  IN  [w \in DOMAIN a.first |-> next[Len(a.first) - w]]

\* A word without subwords of its own gets a span of one.
EndsBefore(a, last) ==
  LET next == NextFirst(a, last)
      one(f) == (IF f >= 0 THEN f ELSE 0) + 1
  IN  [w \in DOMAIN a.first |->
         IF a.first[w] >= 0 /\ a.first[w] < next[w] THEN next[w]
         ELSE IF one(a.first[w]) < a.ids THEN one(a.first[w]) ELSE a.ids]

\* Variant: the walk starts at the closing special token.
WordEndsOverSep(a) == EndsBefore(a, a.ids)

\* Alignment::word_ends.
WordEnds(a) == EndsBefore(a, a.ids - 1)

\* encode_labels: rows cut to a budget that keeps their last token, and padded
\* to the longest; a row is its length.
EncodeLabels(lengths, budget) ==
  LET cut   == [i \in DOMAIN lengths |-> IF lengths[i] > budget THEN budget ELSE lengths[i]]
      width == FoldLeft(LAMBDA a, b : IF a > b THEN a ELSE b, 0, cut)
  IN  [i \in DOMAIN cut |-> [k \in 1 .. width |-> IF k <= cut[i] THEN 1 ELSE 0]]

\* Window::participants: speakers by first appearance.
Participants(window) ==
  LET speakers == [j \in DOMAIN window.sentences |-> window.sentences[j].speaker]
      firsts   == Filter([j \in DOMAIN speakers |-> j],
                         {j \in DOMAIN speakers :
                            speakers[j] # "nobody" /\ \A k \in 1 .. (j - 1) : speakers[k] # speakers[j]})
  IN  [i \in DOMAIN firsts |-> speakers[firsts[i]]]

\* speaker_turns: <<word, participant>> where a run of one speaker's
\* sentences starts; words count from 0 here.
SpeakerTurns(window, participants) ==
  LET s == window.sentences
      opens == Filter([j \in DOMAIN s |-> j],
                      {j \in DOMAIN s : /\ \E p \in DOMAIN participants : participants[p] = s[j].speaker
                                        /\ j = 1 \/ s[j - 1].speaker # s[j].speaker})
      Of(j) == CHOOSE p \in DOMAIN participants : participants[p] = s[j].speaker
  IN  [i \in DOMAIN opens |-> <<s[opens[i]].start, Of(opens[i])>>]

-----------------------------------------------------------------------------
(* Properties *)

(* An alignment a and its word ends, of words encoded as pieces, for a     *)
(* budget: the subwords of a word, from its first to its end, lie between  *)
(* the special tokens and belong to it and to no other word; they are all  *)
(* it has when a later word is analysed; and a word is left out only if    *)
(* the encoding up to it exceeds the budget (align.rs).                    *)
WordsHaveTheirSubwords(pieces, budget, a, ends) ==
  LET analysed == {w \in DOMAIN a.first : a.first[w] >= 0}
  IN  /\ \A w \in analysed :
           /\ 1 <= a.first[w] /\ a.first[w] < ends[w] /\ ends[w] <= a.ids - 1
           /\ ends[w] - a.first[w] <= pieces[w]
           /\ \A v \in analysed : v > w =>
                ends[w] <= a.first[v] /\ ends[w] - a.first[w] = pieces[w]
      /\ a.ids <= budget
      /\ \A w \in DOMAIN pieces : w > a.limit => SubwordStarts(pieces)[w + 1] + 1 > budget

=============================================================================
