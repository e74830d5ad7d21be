----------------------------- MODULE NlpCascade -----------------------------
(***************************************************************************)
(* A request to the v1 cascade (nlp.rs): one tokenization, windows of at   *)
(* most maxSeqLen tokens, one pass of the graph over each and one more for *)
(* each verb in it, and a result whose indices are the request's.          *)
(*                                                                         *)
(* A token is [special, word, verb, head, tag]: what the tokenizer says of *)
(* it, 0 for no word id, and what the scores of its window decode to.  The *)
(* role tags do not depend on the predicate here.  A pass that fails fails *)
(* the request, which keeps nothing: that way out is left out.  Positions  *)
(* count from 1, a window's from its first token.                          *)
(***************************************************************************)
EXTENDS NlpDecoding

\* Non-overlapping windows, as the positions of their first tokens.
Starts(tokens, maxSeqLen) == {i \in DOMAIN tokens : (i - 1) % maxSeqLen = 0}

\* chunk_token_global_indices: where the tokens of a window are in the result,
\* which holds `before` tokens; 0 for the special ones.
GlobalIndices(chunk, before) ==
  [i \in DOMAIN chunk |->
    IF chunk[i].special THEN 0
    ELSE before + Cardinality({j \in 1..i : ~chunk[j].special})]

\* Variant: the head's place in the window is taken for its place in the result.
RemapDepHeadLocal(head, token, global) ==
  IF head = token \/ global[head] = 0 THEN 0 ELSE head

\* remap_dep_head: a root points at itself or at a special token.
RemapDepHead(head, token, global) == IF head = token THEN 0 ELSE global[head]

\* is_word_boundary by word ids; the byte gap replaces a missing one.
IsWordBoundary(prev, cur) == prev = 0 \/ cur = 0 \/ prev # cur

\* One window, after those in acc: its tokens, then its frames.  Position 1 is
\* never a predicate, index 0 being the graph's sentinel for none.
Chunk(acc, chunk) ==
  LET global == GlobalIndices(chunk, Len(acc.tokens))
      Push(a, i) ==
        LET opens == a.tokens # <<>> /\ IsWordBoundary(a.prev, chunk[i].word)
            index == a.index + (IF opens THEN 1 ELSE 0)
        IN  IF chunk[i].special THEN a
            ELSE [a EXCEPT !.index = index, !.prev = chunk[i].word,
                           !.tokens = Append(@, [head |-> RemapDepHead(chunk[i].head, i, global),
                                                 word |-> index])]
      roles == DecodeSrlFrame([i \in DOMAIN chunk |-> chunk[i].tag], global)
      verbs == SelectSeq([i \in DOMAIN chunk |-> i],
                         LAMBDA i : i > 1 /\ ~chunk[i].special /\ chunk[i].verb)
      pushed == FoldLeft(Push, acc, [i \in DOMAIN chunk |-> i])
  IN  [pushed EXCEPT !.frames = @ \o (IF roles = <<>> THEN <<>>
         ELSE [k \in DOMAIN verbs |-> [predicate |-> global[verbs[k]], roles |-> roles]])]

\* analyze_one.
AnalyzeOne(tokens, maxSeqLen) ==
  FoldLeft(LAMBDA acc, start :
             Chunk(acc, SubSeq(tokens, start, IF start + maxSeqLen - 1 > Len(tokens) THEN Len(tokens)
                                              ELSE start + maxSeqLen - 1)),
           [tokens |-> <<>>, frames |-> <<>>, index |-> 0, prev |-> 0],
           SetToSortSeq(Starts(tokens, maxSeqLen), <))
=============================================================================
