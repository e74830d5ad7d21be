--------------------------- MODULE RemoteProviders ---------------------------
(***************************************************************************)
(* A remote provider of a runtime while it loads models: its circuit       *)
(* breakers by runtime key (RemoteProviderBase), which are swept when they *)
(* have not been asked for in a while, and ModelProvider::load of the      *)
(* eight providers, which ask for them at different points.                *)
(*                                                                         *)
(* circuit_breaker_for reads the clock and then takes two mutexes, the     *)
(* second one twice when it sweeps: threads interleave in between.  Times  *)
(* are ages in ticks, as the code only compares differences.  The registry *)
(* asks for a key as long as it has no model for it; loads of one key may  *)
(* overlap, as they do after a failure.                                    *)
(***************************************************************************)
EXTENDS Naturals, Sequences, FiniteSets

CONSTANTS
  Loaders,      \* tasks of the runtime that load models
  RemoteKeys,   \* runtime keys
  TaskOf,       \* ModelRuntimeKey::task of each
  BreakerIds,   \* identities of breakers
  Ttl,          \* BREAKER_TTL in ticks
  Interval,     \* CLEANUP_INTERVAL in ticks
  LoadLimit,    \* bound: the ticks that a load takes; it awaits nothing
  Nobody        \* no key, no breaker

ASSUME RemoteType ==
  /\ TaskOf \in [RemoteKeys -> STRING]
  /\ Ttl \in Nat /\ Interval \in Nat /\ LoadLimit \in Nat
  /\ Nobody \notin RemoteKeys \cup BreakerIds
\* Two loads of a key may follow each other, and the access that one of them
\* writes may be as old as the load: see Take.
ASSUME LoadsAreShort == 3 * LoadLimit < Ttl
\* A key has a breaker in its entry and one in use: identities never run out.
ASSUME EnoughBreakers ==
  /\ IsFiniteSet(RemoteKeys) /\ IsFiniteSet(BreakerIds)
  /\ 2 * Cardinality(RemoteKeys) < Cardinality(BreakerIds)
\* Nobody is a value of its own: no entry of the map is it.
ASSUME NobodyIsNoEntry == Nobody \notin [id : BreakerIds, age : Nat]

VARIABLES
  provider,  \* the provider
  breakers,  \* `breakers`: each key's breaker and the age of its last access
  cleaned,   \* the age of `last_cleanup`
  at,        \* where a loader is in its load
  step,      \* the step of the provider's load that is next
  loading,   \* the key it loads
  elapsed,   \* how long it has been loading
  now,       \* the age of the `now` it has read
  cb,        \* the breaker it was given
  given      \* the breakers of the models that were handed out for a key

loader == <<at, step, loading, elapsed, now, cb>>
pvars == <<provider, breakers, cleaned, loader, given>>

(***************************************************************************)
(* What `load` does, step by step, and the arms of its match.  Every step  *)
(* but the breaker's may end the load with an error.                       *)
(***************************************************************************)
OpenAI    == [load |-> <<"task", "credentials", "breaker">>,
              arms |-> {"Embed", "Generate"}]
AzureOpenAI == [load |-> <<"breaker", "credentials", "resource", "task">>,
              arms |-> {"Embed", "Generate"}]
Mistral   == [load |-> <<"breaker", "credentials", "task">>, arms |-> {"Embed", "Generate"}]
VoyageAI  == [load |-> <<"breaker", "credentials", "task">>, arms |-> {"Embed", "Rerank"}]
Anthropic == [load |-> <<"breaker", "credentials", "task">>, arms |-> {"Generate"}]
Cohere    == [load |-> <<"breaker", "credentials", "task">>,
              arms |-> {"Embed", "Generate", "Rerank", "EmbedMultimodal"}]
Gemini    == [load |-> <<"breaker", "credentials", "task">>,
              arms |-> {"Embed", "Generate", "EmbedMultimodal"}]
VertexAI  == [load |-> <<"breaker", "options", "credentials", "project", "options", "task">>,
              arms |-> {"Embed", "Generate"}]

RemoteProvider ==
  {OpenAI, AzureOpenAI, Mistral, VoyageAI, Anthropic, Cohere, Gemini, VertexAI}

PInit ==
  /\ provider \in RemoteProvider
  /\ breakers = [k \in RemoteKeys |-> Nobody]
  /\ cleaned = 0
  /\ at = [l \in Loaders |-> "rest"]
  /\ step = [l \in Loaders |-> 1]
  /\ loading = [l \in Loaders |-> Nobody]
  /\ elapsed = [l \in Loaders |-> 0]
  /\ now = [l \in Loaders |-> 0]
  /\ cb = [l \in Loaders |-> Nobody]
  /\ given = [k \in RemoteKeys |-> {}]

Active == {l \in Loaders : at[l] # "rest"}

\* The registry holds no model for the key when it starts the load.
Load(l, k) ==
  /\ at[l] = "rest" /\ given[k] = {}
  /\ at' = [at EXCEPT ![l] = "load"]
  /\ loading' = [loading EXCEPT ![l] = k]
  /\ UNCHANGED <<provider, breakers, cleaned, step, elapsed, now, cb, given>>

Doing(l, what) ==
  at[l] = "load" /\ step[l] <= Len(provider.load) /\ provider.load[step[l]] = what

\* Environment variables, options and the task are in order.
Passes(l) ==
  /\ \E what \in {"credentials", "resource", "options", "project", "task"} :
       /\ Doing(l, what)
       /\ what = "task" => TaskOf[loading[l]] \in provider.arms
  /\ step' = [step EXCEPT ![l] = @ + 1]
  /\ UNCHANGED <<provider, breakers, cleaned, at, loading, elapsed, now, cb, given>>

Rest(l) ==
  /\ at' = [at EXCEPT ![l] = "rest"]
  /\ step' = [step EXCEPT ![l] = 1]
  /\ loading' = [loading EXCEPT ![l] = Nobody]
  /\ elapsed' = [elapsed EXCEPT ![l] = 0]
  /\ now' = [now EXCEPT ![l] = 0]
  /\ cb' = [cb EXCEPT ![l] = Nobody]

\* Config or CapabilityMismatch.
Fails(l) ==
  /\ \/ \E what \in {"credentials", "resource", "options", "project"} : Doing(l, what)
     \/ Doing(l, "task") /\ TaskOf[loading[l]] \notin provider.arms
  /\ Rest(l)
  /\ UNCHANGED <<provider, breakers, cleaned, given>>

(***************************************************************************)
(* circuit_breaker_for.                                                    *)
(***************************************************************************)
ReadClock(l) ==
  /\ Doing(l, "breaker")
  /\ at' = [at EXCEPT ![l] = "clean"]
  /\ now' = [now EXCEPT ![l] = 0]
  /\ UNCHANGED <<provider, breakers, cleaned, step, loading, elapsed, cb, given>>

\* duration_since(t) at a `now` of age n, for an instant t of age a.
Since(a, n) == IF a > n THEN a - n ELSE 0

MaybeCleanup(l) ==
  /\ at[l] = "clean"
  /\ LET due == Since(cleaned, now[l]) >= Interval
     IN  /\ cleaned' = IF due THEN now[l] ELSE cleaned
         /\ at' = [at EXCEPT ![l] = IF due THEN "sweep" ELSE "take"]
  /\ UNCHANGED <<provider, breakers, step, loading, elapsed, now, cb, given>>

Fresh(k, n) == breakers[k] # Nobody /\ Since(breakers[k].age, n) < Ttl

Sweep(l) ==
  /\ at[l] = "sweep"
  /\ breakers' = [k \in RemoteKeys |-> IF Fresh(k, now[l]) THEN breakers[k] ELSE Nobody]
  /\ at' = [at EXCEPT ![l] = "take"]
  /\ UNCHANGED <<provider, cleaned, step, loading, elapsed, now, cb, given>>

\* CircuitBreakerWrapper::new is a breaker that nobody has.
Unused ==
  {b \in BreakerIds :
     /\ \A k \in RemoteKeys :
          b \notin given[k] /\ (breakers[k] # Nobody => breakers[k].id # b)
     /\ \A l \in Loaders : cb[l] # b}

NewBreaker == CHOOSE b \in Unused : TRUE

Given(l, b) ==
  /\ cb' = [cb EXCEPT ![l] = b]
  /\ at' = [at EXCEPT ![l] = "load"]
  /\ step' = [step EXCEPT ![l] = @ + 1]
  /\ UNCHANGED <<provider, cleaned, loading, elapsed, now, given>>

\* Variant: the last access is only written when the entry is made.
TakeUnrefreshed(l) ==
  /\ at[l] = "take"
  /\ LET k == loading[l]
     IN  IF breakers[k] # Nobody
         THEN UNCHANGED breakers /\ Given(l, breakers[k].id)
         ELSE /\ breakers' = [breakers EXCEPT ![k] = [id |-> NewBreaker, age |-> now[l]]]
              /\ Given(l, NewBreaker)

Take(l) ==
  /\ at[l] = "take"
  /\ LET k == loading[l]
         b == IF breakers[k] # Nobody THEN breakers[k].id ELSE NewBreaker
     IN  /\ breakers' = [breakers EXCEPT ![k] = [id |-> b, age |-> now[l]]]
         /\ Given(l, b)

-----------------------------------------------------------------------------

\* The model is made and published; its breaker is in use from now on.
Publish(l) ==
  /\ at[l] = "load" /\ step[l] > Len(provider.load)
  /\ given' = [given EXCEPT ![loading[l]] = @ \cup {cb[l]}]
  /\ Rest(l)
  /\ UNCHANGED <<provider, breakers, cleaned>>

\* The timeout, or the caller, drops the load.
Drop(l) ==
  /\ at[l] = "load"
  /\ Rest(l)
  /\ UNCHANGED <<provider, breakers, cleaned, given>>

OlderUpTo(a, limit) == IF a < limit THEN a + 1 ELSE a

\* Ages beyond these bounds are alike for every comparison.
Tick ==
  /\ \A l \in Active : elapsed[l] < LoadLimit
  /\ elapsed' = [l \in Loaders |-> IF l \in Active THEN elapsed[l] + 1 ELSE 0]
  /\ now' = [l \in Loaders |-> IF l \in Active THEN OlderUpTo(now[l], LoadLimit) ELSE 0]
  /\ cleaned' = OlderUpTo(cleaned, Interval + LoadLimit)
  /\ breakers' =
       [k \in RemoteKeys |->
          IF breakers[k] = Nobody THEN Nobody
          ELSE [breakers[k] EXCEPT !.age = OlderUpTo(@, Ttl + LoadLimit)]]
  /\ UNCHANGED <<provider, at, step, loading, cb, given>>

PNext ==
  \/ \E l \in Loaders :
       \/ \E k \in RemoteKeys : Load(l, k)
       \/ Passes(l) \/ Fails(l)
       \/ ReadClock(l) \/ MaybeCleanup(l) \/ Sweep(l) \/ Take(l)
       \/ Publish(l) \/ Drop(l)
  \/ Tick

PSpec == PInit /\ [][PNext]_pvars

-----------------------------------------------------------------------------
(* Properties *)

PTypeOK ==
  /\ provider \in RemoteProvider
  /\ breakers \in [RemoteKeys -> [id : BreakerIds, age : 0 .. Ttl + LoadLimit] \cup {Nobody}]
  /\ cleaned \in 0 .. Interval + LoadLimit
  /\ at \in [Loaders -> {"rest", "load", "clean", "sweep", "take"}]
  /\ step \in [Loaders -> 1 .. 7]
  /\ loading \in [Loaders -> RemoteKeys \cup {Nobody}]
  /\ elapsed \in [Loaders -> 0 .. LoadLimit] /\ now \in [Loaders -> 0 .. LoadLimit]
  /\ cb \in [Loaders -> BreakerIds \cup {Nobody}]
  /\ given \in [RemoteKeys -> SUBSET BreakerIds]

(* "One circuit breaker per remote model runtime key": models of one key   *)
(* that are in use call through one breaker, although a key's entry may be *)
(* swept, two loads of the key may overlap, and a load may sweep by a      *)
(* clock that it read a while ago.                                         *)
OneBreakerPerKey == \A k \in RemoteKeys : Cardinality(given[k]) <= 1

=============================================================================
