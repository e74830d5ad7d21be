----------------------------- MODULE LocalLoading -----------------------------
(***************************************************************************)
(* What a process does while it loads models that run on this machine: the *)
(* callers that race on a Candle model, the threads that race on the       *)
(* graphs of an NLP release, and one load of an ONNX model.  The loads     *)
(* share no state; their steps interleave.                                 *)
(***************************************************************************)
EXTENDS CandleModel, GraphSessions, OnnxProviders

loadingVars == <<cvars, gvars, pvars>>

LoadingInit == CInit /\ GInit /\ PInit

CandleStep == CNext /\ UNCHANGED <<gvars, pvars>>
SessionStep == GNext /\ UNCHANGED <<cvars, pvars>>
ProviderStep == PNext /\ UNCHANGED <<cvars, gvars>>

LoadingNext == CandleStep \/ SessionStep \/ ProviderStep

LoadingSpec == LoadingInit /\ [][LoadingNext]_loadingVars

-----------------------------------------------------------------------------
(* Properties *)

(* However many callers meet, and whatever fails or is given up, a Candle  *)
(* model is built once (candle.rs, ensure_loaded), and a graph of an NLP   *)
(* release gets one session (graphs.rs, session).                          *)
BuiltOnce == LoadedOnce /\ SessionsAreShared

=============================================================================
