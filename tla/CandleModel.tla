------------------------------ MODULE CandleModel ------------------------------
(***************************************************************************)
(* One embedding model of the Candle provider, loaded on its first use:    *)
(* calls of embed and warmup that meet at the model's mutex.  The mutex is *)
(* held across three downloads and the build; a step of them may fail and  *)
(* leaves the model unloaded, and a caller may give up at an await.        *)
(*                                                                         *)
(* The hub's files are external.  arch is what config.json says the model  *)
(* is.  The mutex is granted in any order: a weaker promise than tokio's.  *)
(***************************************************************************)
EXTENDS Naturals

CONSTANTS
  Calls,  \* calls of one model, each made once
  None    \* no model, no holder

VARIABLES
  arch,    \* the architecture that config.json names
  want,    \* call -> "warmup", "embed" or "embed nothing"
  place,   \* call -> where it is
  holder,  \* the call that holds the mutex, or None
  model,   \* the loaded model's architecture, or None
  builds   \* how many models were built

cvars == <<arch, want, place, holder, model, builds>>

Kinds == {"warmup", "embed", "embed nothing"}
Known == {"bert", "jina_bert", "gemma"}
Loading == {"config", "tokenizer", "weights"}
Ended == {"answered", "failed", "gone"}

\* Nothing is none of the callers and no architecture.
ASSUME NoneIsNothing == None \notin Calls /\ None \notin Known

CInit ==
  /\ arch \in Known \cup {"other"} /\ want \in [Calls -> Kinds]
  /\ place = [c \in Calls |-> "idle"] /\ holder = None /\ model = None /\ builds = 0

To(c, p) == place' = [place EXCEPT ![c] = p]

Call(c) ==
  /\ place[c] = "idle" /\ To(c, "waiting")
  /\ UNCHANGED <<arch, want, holder, model, builds>>

\* After ensure_loaded: warmup returns, embed takes the mutex again.
AfterLoad(c) == To(c, IF want[c] = "warmup" THEN "answered" ELSE "waiting to embed")

\* ensure_loaded: nothing to do when the model is there.
Lock(c) ==
  /\ place[c] = "waiting" /\ holder = None
  /\ IF model # None THEN AfterLoad(c) /\ UNCHANGED holder
     ELSE holder' = c /\ To(c, "config")
  /\ UNCHANGED <<arch, want, model, builds>>

Fails(c) ==
  /\ place[c] \in Loading /\ holder' = None /\ To(c, "failed")
  /\ UNCHANGED <<arch, want, model, builds>>

GetConfig(c) ==
  /\ place[c] = "config" /\ arch \in Known /\ To(c, "tokenizer")
  /\ UNCHANGED <<arch, want, holder, model, builds>>

GetTokenizer(c) ==
  /\ place[c] = "tokenizer" /\ To(c, "weights")
  /\ UNCHANGED <<arch, want, holder, model, builds>>

\* No await lies between the last download and the loaded model.
GetWeightsAndBuild(c) ==
  /\ place[c] = "weights"
  /\ model' = arch /\ builds' = builds + 1 /\ holder' = None
  /\ AfterLoad(c)
  /\ UNCHANGED <<arch, want>>

\* embed holds the mutex while it computes, without an await.
Embed(c) ==
  /\ place[c] = "waiting to embed" /\ holder = None
  /\ \/ model = None /\ To(c, "failed")
     \/ model # None /\ want[c] = "embed nothing" /\ To(c, "answered")
     \/ model \notin {None, "gemma"} /\ want[c] = "embed" /\ To(c, "answered")
     \/ model # None /\ want[c] = "embed" /\ To(c, "failed")
  /\ UNCHANGED <<arch, want, holder, model, builds>>

\* The caller drops its future at an await: a mutex it holds is free again.
GiveUp(c) ==
  /\ place[c] \in Loading \cup {"waiting", "waiting to embed"}
  /\ holder' = (IF holder = c THEN None ELSE holder) /\ To(c, "gone")
  /\ UNCHANGED <<arch, want, model, builds>>

Step(c) ==
  \/ Lock(c) \/ Fails(c) \/ GetConfig(c) \/ GetTokenizer(c) \/ GetWeightsAndBuild(c) \/ Embed(c)

CNext == \E c \in Calls : Call(c) \/ Step(c) \/ GiveUp(c)

CSpec == CInit /\ [][CNext]_cvars

(***************************************************************************)
(* Properties                                                              *)
(***************************************************************************)
\* The variables have their types.
CTypeOK ==
  /\ arch \in Known \cup {"other"} /\ want \in [Calls -> Kinds]
  /\ place \in [Calls -> Loading \cup Ended \cup {"idle", "waiting", "waiting to embed"}]
  /\ holder \in Calls \cup {None} /\ model \in Known \cup {None} /\ builds \in Nat

\* However many callers meet before the model is there, and however many
\* loads fail or are given up, the model is built once, and nobody downloads
\* for a model that is there (candle.rs, ensure_loaded's check under the
\* mutex).
LoadedOnce ==
  /\ builds = (IF model = None THEN 0 ELSE 1)
  /\ \A c \in Calls : place[c] \in Loading => model = None /\ holder = c

=============================================================================
