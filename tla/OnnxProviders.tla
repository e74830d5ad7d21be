--------------------------- MODULE OnnxProviders ---------------------------
(***************************************************************************)
(* One load of a local ONNX model: which ONNX execution providers (EPs)    *)
(* its session is built on, the load-time probe and the fall back to CPU,  *)
(* and what the model then reports.  The loaders differ: not all of them   *)
(* probe, and not all of their models report.                              *)
(*                                                                         *)
(* Files and the ONNX runtime are external: a download or a build fails or *)
(* not, an EP of the build registers or not, and a probe passes or not.    *)
(* ONNX Runtime's own CPU provider takes every node that no registered EP  *)
(* claims, named or not: a session runs wholly on CPU when no other EP is  *)
(* registered.  A loader that builds several sessions (OCR), or builds     *)
(* them at the first use (NLP v7), takes these steps for each.             *)
(***************************************************************************)
EXTENDS Naturals, Sequences, SequencesExt, SequenceFilter

CONSTANTS
  Requested,  \* lists that option execution_providers names; <<>> for none
  Builds      \* sets of EPs that the crate may be built with

OnnxExecutionProvider ==
  {"cpu", "cuda", "coreml", "rocm", "directml", "openvino", "qnn", "tensorrt", "webgpu"}

Loaders == {"embedder", "encoder", "raw", "plain"}

(***************************************************************************)
(* "embedder" stands for the dense embedder and both rerankers, "encoder"  *)
(* for the sparse, multi-vector and hybrid embedders, and "plain" for OCR, *)
(* images and both generations of NLP.  An encoder drops the list that its *)
(* probe gives back.                                                       *)
(***************************************************************************)
Probing == {"embedder", "encoder"}
Reporting == {"embedder", "raw"}

\* What the option names was parsed.
ASSUME RequestedType == Requested \subseteq Seq(OnnxExecutionProvider)

VARIABLES
  loader,      \* which loader runs
  configured,  \* the option's list
  built,       \* the EPs of this build
  step,        \* how far the load is
  registered,  \* the EPs of the list that the session registered
  reported     \* active_execution_providers

pvars == <<loader, configured, built, step, registered, reported>>

DefaultProviders ==
  IF "cuda" \in built THEN <<"cuda", "cpu">>
  ELSE IF "coreml" \in built THEN <<"coreml", "cpu">> ELSE <<"cpu">>

ResolveEpList(list) == IF list = <<>> THEN DefaultProviders ELSE list
Available(list) == Filter(list, built \cup {"cpu"})
EffectiveEpList(list) == Available(ResolveEpList(list))

\* Variant: the index of the last entry before the list is filtered.
StrictIndexUnfiltered(kept, list) ==
  IF list = <<>> \/ kept = <<>> \/ Contains(kept, "cpu") THEN 0 ELSE Len(list)

\* The entry built with error_on_failure(), 0 for none.
StrictIndex(kept, list) ==
  IF list = <<>> \/ kept = <<>> \/ Contains(kept, "cpu") THEN 0 ELSE Len(kept)

PInit ==
  /\ loader \in Loaders /\ configured \in Requested /\ built \in Builds
  /\ step = "checking" /\ registered = {} /\ reported = <<>>

\* The list is checked before any I/O.
Check ==
  /\ step = "checking"
  /\ step' = IF EffectiveEpList(configured) = <<>> THEN "config error" ELSE "downloading"
  /\ UNCHANGED <<loader, configured, built, registered, reported>>

Download ==
  /\ step = "downloading" /\ step' \in {"building", "failed"}
  /\ UNCHANGED <<loader, configured, built, registered, reported>>

\* The sessions ORT may build on kept: an EP that does not register is passed
\* over, unless it is the strict one.  "cpu" always registers.
SessionEps(kept, strict) ==
  {s \in SUBSET ToSet(kept) : /\ strict \in DOMAIN kept => kept[strict] \in s
                              /\ Contains(kept, "cpu") => "cpu" \in s}

\* active_execution_providers of a model that runs on list.
Reports(list) == IF loader \in Reporting THEN list ELSE <<>>

\* A loader that does not probe is done.
Built ==
  IF loader \in Probing THEN step' = "probing" /\ UNCHANGED reported
  ELSE step' = "loaded" /\ reported' = Reports(EffectiveEpList(configured))

Build ==
  /\ step = "building"
  /\ \/ /\ registered' \in SessionEps(EffectiveEpList(configured),
                                     StrictIndex(EffectiveEpList(configured), configured))
        /\ Built
     \/ step' = "failed" /\ UNCHANGED <<registered, reported>>
  /\ UNCHANGED <<loader, configured, built>>

NeedsProbe(eps) == ToSet(eps) # {"cpu"}

\* verify_execution_providers: nothing to probe, or the probe passes.
Verified ==
  /\ step = "probing" /\ step' = "loaded"
  /\ reported' = Reports(EffectiveEpList(configured))
  /\ UNCHANGED <<loader, configured, built, registered>>

ProbeFails ==
  LET eps == EffectiveEpList(configured)
  IN  /\ step = "probing" /\ NeedsProbe(eps)
      /\ step' = IF Contains(eps, "cpu") THEN "rebuilding" ELSE "failed"
      /\ UNCHANGED <<loader, configured, built, registered, reported>>

\* The session is rebuilt on CPU and replaced; the probe runs again.
RebuildOnCpu ==
  /\ step = "rebuilding"
  /\ \/ registered' = {"cpu"} /\ step' = "loaded" /\ reported' = Reports(<<"cpu">>)
     \/ step' = "failed" /\ UNCHANGED <<registered, reported>>
  /\ UNCHANGED <<loader, configured, built>>

PNext == Check \/ Download \/ Build \/ Verified \/ ProbeFails \/ RebuildOnCpu
PSpec == PInit /\ [][PNext]_pvars

-----------------------------------------------------------------------------
(* Properties *)

(* Nothing falls back to the CPU in silence.  Whichever loader ran, a list *)
(* without "cpu" leaves a session on its last EP that the build has, not   *)
(* on the CPU alone.  And of the loaders whose models report: every EP     *)
(* registered is reported, and a session that is wholly on CPU reports     *)
(* "cpu" (onnx_ep.rs, strict_index and verify_execution_providers).        *)
(*                                                                         *)
(* Models of the other loaders report no EP at all, on a GPU or not        *)
(* (common.rs:220 drops the list; OCR, images and NLP have the default of  *)
(* the trait), where traits.rs:110 says that only models which are remote  *)
(* or not ONNX do, and CHANGELOG.md:43 that the list of the sparse,        *)
(* multi-vector and hybrid embedders is reported after a fall back.        *)
ProvidersAsAsked ==
  LET kept == EffectiveEpList(configured)
  IN  step = "loaded" =>
        /\ ~Contains(kept, "cpu") => kept[Len(kept)] \in registered
        /\ loader \in Reporting =>
             /\ registered \subseteq ToSet(reported)
             /\ registered \subseteq {"cpu"} => Contains(reported, "cpu")

=============================================================================
