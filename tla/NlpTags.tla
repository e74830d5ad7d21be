------------------------------- MODULE NlpTags -------------------------------
(***************************************************************************)
(* Tag sequences (decode.rs): the tags that may follow one another and     *)
(* the Viterbi path over the scores of a sentence.  A tag is a             *)
(* <<prefix, label>>; positions and tags count from 1.                     *)
(***************************************************************************)
EXTENDS Integers, Sequences

Forbidden == -1000     \* NEG_VITERBI

\* The largest element, ties to the lowest index.
ArgMax(row) ==
  CHOOSE i \in DOMAIN row :
    /\ \A j \in DOMAIN row : row[j] <= row[i]
    /\ \A j \in 1..(i - 1) : row[j] < row[i]

BioConstraints(tags) ==
  [allowed |-> [i \in DOMAIN tags |-> [j \in DOMAIN tags |->
                  tags[j][1] # "I" \/ tags[i] = <<"B", tags[j][2]>> \/ tags[i] = tags[j]]],
   start   |-> [j \in DOMAIN tags |-> tags[j][1] # "I"]]

\* keep[t][k]: tag k may be used at position t.
Lp(logp, keep, t, k) == IF keep[t][k] THEN logp[t][k] ELSE Forbidden

\* What tag k scores at the first position, and tag j behind tag i.
Opening(logp, bio, keep, k) == IF bio.start[k] THEN Lp(logp, keep, 1, k) ELSE Forbidden
Passing(bio, i, j) == IF bio.allowed[i][j] THEN 0 ELSE Forbidden

\* The scores of tag j behind each tag.
Via(score, bio, j) == [i \in DOMAIN score |-> score[i] + Passing(bio, i, j)]

\* What the best paths up to position t score, by their last tag.
BestScores(logp, bio, keep) ==
  LET best[t \in 1..Len(logp)] ==
        IF t = 1 THEN [k \in DOMAIN bio.start |-> Opening(logp, bio, keep, k)]
        ELSE LET prev == best[t - 1]
             IN  [j \in DOMAIN bio.start |->
                    LET via == Via(prev, bio, j) IN via[ArgMax(via)] + Lp(logp, keep, t, j)]
  IN  best

\* The path, from the best last tag back.
Viterbi(logp, bio, keep) ==
  LET best == BestScores(logp, bio, keep)
      back[k \in 0..(Len(logp) - 1)] ==
        IF k = 0 THEN ArgMax(best[Len(logp)])
        ELSE LET next == back[k - 1] IN ArgMax(Via(best[Len(logp) - k], bio, next))
  IN  [t \in 1..Len(logp) |-> back[Len(logp) - t]]

(***************************************************************************)
(* Properties                                                              *)
(***************************************************************************)
\* What a path scores, with the penalty of each tag that is not kept, opens
\* where it must not or follows where it must not.
PathScore(logp, bio, keep, path) ==
  LET score[t \in 1..Len(logp)] ==
        IF t = 1 THEN Opening(logp, bio, keep, path[1])
        ELSE score[t - 1] + Passing(bio, path[t - 1], path[t]) + Lp(logp, keep, t, path[t])
  IN  score[Len(logp)]

\* No sequence of tags scores more than the path (viterbi).
PathIsBest(logp, bio, keep, path) ==
  LET Paths == [1..Len(logp) -> DOMAIN bio.start]
  IN  /\ path \in Paths
      /\ \A q \in Paths : PathScore(logp, bio, keep, q) <= PathScore(logp, bio, keep, path)

\* The tags of a path open, follow one another and are kept as they may.
PathIsLegal(bio, keep, path) ==
  /\ bio.start[path[1]]
  /\ \A t \in DOMAIN path : keep[t][path[t]]
  /\ \A t \in DOMAIN path : t > 1 => bio.allowed[path[t - 1]][path[t]]
=============================================================================
