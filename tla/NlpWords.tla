------------------------------- MODULE NlpWords -------------------------------
(***************************************************************************)
(* From a request's text to words, for the kniv v7 models: units,          *)
(* sentences, words and windows (text.rs).                                 *)
(*                                                                         *)
(* A text is a sequence of characters.  The alphabet has one character for *)
(* each class that the code tells apart, all one byte long: a word is made *)
(* of "s" and "A", and 's is the clitic.  Digits, URLs and the other six   *)
(* clitics cannot be spelt in it.                                          *)
(***************************************************************************)
EXTENDS Naturals, Sequences, SequencesExt

Spaces == {" ", "n"}          \* "n" is a line feed
WordChars == {"s", "A"}
Terminators == {"."}
Closers == {"'"}
Openers == {"A", "'"}
Joiners == {"'"}
Clitic == <<"'", "s">>

Blank(t) == \A i \in DOMAIN t : t[i] \in Spaces

\* The first position from i on whose character is not in S.
RunEnd(t, i, S) ==
  CHOOSE j \in i..(Len(t) + 1) :
    /\ j = Len(t) + 1 \/ t[j] \notin S
    /\ \A k \in i..(j - 1) : t[k] \in S

Unit(text, offset, speaker) == [text |-> text, offset |-> offset, speaker |-> speaker]

RECURSIVE PartsFrom(_, _, _)
\* str::split at blank lines, each part with the offset that the loop keeps.
PartsFrom(t, from, offset) ==
  LET cuts == {i \in from..(Len(t) - 1) : t[i] = "n" /\ t[i + 1] = "n"}
  IN  IF cuts = {} THEN <<Unit(SubSeq(t, from, Len(t)), offset, "nobody")>>
      ELSE LET cut  == CHOOSE i \in cuts : \A j \in cuts : i <= j
               part == SubSeq(t, from, cut - 1)
           IN  <<Unit(part, offset, "nobody")>> \o PartsFrom(t, cut + 2, offset + Len(part) + 2)

Paragraphs(t) == SelectSeq(PartsFrom(t, 1, 0), LAMBDA u : ~Blank(u.text))

\* A turn is a <<speaker, text>>.
TurnsAsUnits(turns) ==
  SelectSeq([i \in DOMAIN turns |-> Unit(turns[i][2], 0, turns[i][1])], LAMBDA u : ~Blank(u.text))

\* Where the text goes on when a sentence ends right before position i, or 0.
\* Only the whole run of closing quotes can be followed by white space.
Resume(t, i) ==
  LET space == RunEnd(t, i, Closers)
      next  == RunEnd(t, space, Spaces)
  IN  IF t[i - 1] \in Terminators /\ next > space /\ next <= Len(t) /\ t[next] \in Openers
      THEN next ELSE 0

RECURSIVE PiecesFrom(_, _, _)
PiecesFrom(t, from, i) ==
  IF i > Len(t) THEN <<<<from, Len(t)>>>>
  ELSE IF Resume(t, i) = 0 THEN PiecesFrom(t, from, i + 1)
       ELSE <<<<from, i - 1>>>> \o PiecesFrom(t, Resume(t, i), Resume(t, i))

\* Sentences as the positions of their first and last characters, trimmed.
SplitSentences(t) ==
  LET Inked(p) == {i \in p[1]..p[2] : t[i] \notin Spaces}
      First(S) == CHOOSE i \in S : \A j \in S : i <= j
      Final(S) == CHOOSE i \in S : \A j \in S : i >= j
      pieces   == SelectSeq(PiecesFrom(t, 1, 2), LAMBDA p : Inked(p) # {})
  IN  [k \in DOMAIN pieces |-> <<First(Inked(pieces[k])), Final(Inked(pieces[k]))>>]

\* The end of the match of \w+(?:[-']\w+)* that starts at i.
RECURSIVE WordEnd(_, _)
WordEnd(t, i) ==
  LET e == RunEnd(t, i, WordChars)
  IN  IF e < Len(t) /\ t[e] \in Joiners /\ t[e + 1] \in WordChars THEN WordEnd(t, e + 1) ELSE e

\* The end of the token that starts at i: a word, an ellipsis, one sign.
TokenEnd(t, i) ==
  IF t[i] \in WordChars THEN WordEnd(t, i)
  ELSE IF i + 2 <= Len(t) /\ \A k \in i..(i + 2) : t[k] = "." THEN i + 3
  ELSE i + 1

\* Where a clitic is cut off the token [i, e), or e.
SplitClitic(t, i, e) ==
  IF \E c \in (i + 1)..(e - 1) : SubSeq(t, c, e - 1) = Clitic
  THEN CHOOSE c \in (i + 1)..(e - 1) : SubSeq(t, c, e - 1) = Clitic
  ELSE e

Word(t, i, e, base) == [text |-> SubSeq(t, i, e - 1), start |-> base + i - 1, end |-> base + e - 1]

RECURSIVE TokensFrom(_, _, _)
TokensFrom(t, i, base) ==
  IF i > Len(t) THEN <<>>
  ELSE IF t[i] \in Spaces THEN TokensFrom(t, i + 1, base)
  ELSE LET e   == TokenEnd(t, i)
           cut == SplitClitic(t, i, e)
       IN  (IF cut = e THEN <<Word(t, i, e, base)>>
                       ELSE <<Word(t, i, cut, base), Word(t, cut, e, base)>>)
           \o TokensFrom(t, e, base)

Tokenize(sentence, base) == TokensFrom(sentence, 1, base)

\* The sentences of all units in order: their words, unit and speaker.
Sentences(units) ==
  FlattenSeq([u \in DOMAIN units |->
    LET unit == units[u]
        cuts == SplitSentences(unit.text)
    IN  [k \in DOMAIN cuts |->
          [words   |-> Tokenize(SubSeq(unit.text, cuts[k][1], cuts[k][2]),
                                unit.offset + cuts[k][1] - 1),
           unit    |-> u,
           speaker |-> unit.speaker]]])

EmptyWindow == [words |-> <<>>, sentences |-> <<>>]

Extend(window, words, s) ==
  [words     |-> window.words \o words,
   sentences |-> Append(window.sentences,
                        [start |-> Len(window.words), end |-> Len(window.words) + Len(words),
                         unit |-> s.unit, speaker |-> s.speaker])]

\* build_windows: whole sentences packed up to a number of words.
BuildWindows(units, maxWords) ==
  LET Pack(acc, s) ==
        LET words == SubSeq(s.words, 1, IF Len(s.words) < maxWords THEN Len(s.words) ELSE maxWords)
        IN  IF Len(acc.cur.words) + Len(words) > maxWords /\ acc.cur.words # <<>>
            THEN [done |-> Append(acc.done, acc.cur), cur |-> Extend(EmptyWindow, words, s)]
            ELSE [acc EXCEPT !.cur = Extend(@, words, s)]
      all == FoldLeft(Pack, [done |-> <<>>, cur |-> EmptyWindow],
                      SelectSeq(Sentences(units), LAMBDA s : s.words # <<>>))
  IN  IF all.cur.words = <<>> THEN all.done ELSE Append(all.done, all.cur)

\* surface: the unit's own characters from the first to the last of words.
SurfaceText(units, unit, words) ==
  LET u == units[unit]
  IN  SubSeq(u.text, words[1].start - u.offset + 1, words[Len(words)].end - u.offset)

\* flatten: the words of all windows, and their sentences as token ranges.
Flatten(windows, units) ==
  LET Base(k) == FoldLeft(LAMBDA a, w : a + Len(w.words), 0, SubSeq(windows, 1, k - 1))
      Sentence(k, s) ==
        LET words == SubSeq(windows[k].words, s.start + 1, s.end)
        IN  [first |-> Base(k) + s.start, last |-> Base(k) + s.end - 1,
             start |-> words[1].start, end |-> words[Len(words)].end,
             text  |-> SurfaceText(units, s.unit, words)]
  IN  [tokens    |-> FlattenSeq([k \in DOMAIN windows |-> windows[k].words]),
       sentences |-> FlattenSeq([k \in DOMAIN windows |->
                        [j \in DOMAIN windows[k].sentences |->
                           Sentence(k, windows[k].sentences[j])]])]

=============================================================================
