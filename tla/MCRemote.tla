------------------------------ MODULE MCRemote ------------------------------
(***************************************************************************)
(* Clients of models that run elsewhere, in four parts that TLC takes one  *)
(* by one: LlamaCppEmbed with a budget of four tokens, a text that is sent *)
(* unseen and fills the budget, one that must be tokenized and fits, and   *)
(* one that the budget cuts, against a server whose limit is one short of  *)
(* the budget, or the budget; RemoteProviders with two loaders and two     *)
(* keys of different tasks; RemoteRequests with short conversations; and   *)
(* PdfPipeline with two pages, so that the first can spend a budget of one *)
(* and the second meet it exhausted, or none, which caps the first.        *)
(***************************************************************************)
EXTENDS LlamaCppEmbed, RemoteProviders, RemoteRequests, PdfPipeline, TLC

CONSTANTS short, fits, long, cls, x, y, z, sep

VARIABLE part

MCTexts == {short, fits, long}
MCTokens == {cls, x, y, z, sep}
MCChars == (short :> 2) @@ (fits :> 3) @@ (long :> 3)
MCTokensOf ==
  (short :> <<cls, x, y, sep>>) @@ (fits :> <<cls, y, sep>>)
  @@ (long :> <<cls, x, y, z, sep>>)
MCWidths == {1, 2}
MCLimits == {3, 4}

MCTask == ("k1" :> "Embed") @@ ("k2" :> "Rerank")

Says(role, blocks) == [role |-> role, blocks |-> blocks]
Messages ==
  {Says("system", <<"text">>), Says("user", <<"text", "image", "text">>), Says("user", <<"text">>),
   Says("assistant", <<"text">>)}
MCPrompts == UNION {[1..n -> Messages] : n \in 0..3}
MCDocuments == {<<"text">>, <<"text", "image">>, <<"audio", "text">>}

SmallBudgets == {0, 1, Nothing}

RemoteVars == <<part, evars, pvars, qvars, vars>>

\* What a part that is not taken stays at.
EmbedIdle == EInit /\ limit = 3
ProvidersIdle == PInit /\ provider = OpenAI
DocumentIdle ==
  /\ Init
  /\ models = [ocr |-> FALSE, vlm |-> FALSE, rasterizer |-> FALSE] /\ source = "Pdf"
  /\ request = [level |-> [fixed |-> TRUE, min |-> Native, max |-> Native], structure |-> FALSE,
                budget |-> 0, crossTier |-> FALSE]

RemoteInit ==
  \/ part = "embed" /\ EInit /\ ProvidersIdle /\ QInit /\ DocumentIdle
  \/ part = "providers" /\ EmbedIdle /\ PInit /\ QInit /\ DocumentIdle
  \/ part = "requests" /\ EmbedIdle /\ ProvidersIdle /\ QInit /\ DocumentIdle
  \/ part = "document" /\ EmbedIdle /\ ProvidersIdle /\ QInit /\ Init

RemoteNext ==
  /\ UNCHANGED part
  /\ \/ part = "embed" /\ ENext /\ UNCHANGED <<pvars, qvars, vars>>
     \/ part = "providers" /\ PNext /\ UNCHANGED <<evars, qvars, vars>>
     \/ part = "requests" /\ QNext /\ UNCHANGED <<evars, pvars, vars>>
     \/ part = "document" /\ Next /\ UNCHANGED <<evars, pvars, qvars>>

RemoteSpec == RemoteInit /\ [][RemoteNext]_RemoteVars

=============================================================================
