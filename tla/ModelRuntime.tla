---------------------------- MODULE ModelRuntime ----------------------------
(***************************************************************************)
(* ModelRuntime of runtime.rs on top of its registry: the catalog of       *)
(* aliases, the typed accessors (embedding, reranker, generator, ...) with *)
(* their cache of handles, prefetch, register, and the builder with its    *)
(* warmup policies.  Whoever needs a model runs resolve_and_load_internal, *)
(* which is ModelRegistry; here are the steps before and after it.         *)
(*                                                                         *)
(* The tasks are the one that builds the runtime, the detached tasks that  *)
(* warm aliases in the background (each named after its alias), and the    *)
(* users of the runtime, who may drop what they await.                     *)
(***************************************************************************)
EXTENDS ModelRegistry

CONSTANTS
  Users,     \* tasks that use the runtime once it is built
  Builder,   \* the task that awaits ModelRuntimeBuilder::build
  Aliases,   \* alias names
  Specs,     \* ModelAliasSpec values, apart from their alias
  KeyOf,     \* ModelRuntimeKey::new of each spec
  Policy,    \* `warmup` of each spec
  Required,  \* the specs that say `required`
  Catalog,   \* the builder's catalog: the spec of each alias, or None
  Surfaces,  \* the model traits that have an accessor
  Views      \* the surfaces that the model of each key can serve

Configured == {a \in Aliases : Catalog[a] # None}
Background == {a \in Configured : Policy[Catalog[a]] = "background"}
Eager == {a \in Configured : Policy[Catalog[a]] = "eager"}

ASSUME SpecType ==
  /\ KeyOf \in [Specs -> Keys]
  /\ Policy \in [Specs -> {"eager", "background", "lazy"}]
  /\ Required \subseteq Specs
  /\ Catalog \in [Aliases -> Specs \cup {None}]
  /\ Views \in [Keys -> SUBSET Surfaces]
ASSUME TaskNames ==
  /\ Tasks = {Builder} \cup Background \cup Users
  /\ Builder \notin Background \cup Users
  /\ Background \cap Users = {}
ASSUME NoneIsNoName == None \notin Aliases \cup Specs \cup Surfaces

VARIABLES
  catalog,  \* ModelRuntime::catalog: the spec of each registered alias
  cache,    \* HandleCache: the wrapper of each alias and surface
  call,     \* what each user's accessor or prefetch is doing
  want,     \* the alias and surface it was called with; no surface: prefetch
  spec,     \* its local `spec`, cloned from the catalog
  got,      \* the wrapper an accessor returned last, None after an error
  build,    \* how far the builder is
  todo,     \* the aliases its loop has still to warm up
  warming,  \* the alias whose eager warmup it awaits
  spawned   \* the aliases whose background warmup it has spawned

front == <<catalog, cache, call, want, spec, got>>
builder == <<build, todo, warming, spawned>>
mvars == <<rvars, front, builder>>

\* What a wrapper keeps: the spec's timeout and retry policy, and the model.
Wrapper(sp, i) == [spec |-> sp, inner |-> i]

(* The instances that wrappers still refer to: their Arcs are not free. *)
Pinned ==
  {cache[x].inner : x \in {x \in Aliases \X Surfaces : cache[x] # None}}
  \cup {got[u].inner : u \in {u \in Users : got[u] # None}}

MInit ==
  /\ RInit
  /\ catalog = Catalog
  /\ cache = [x \in Aliases \X Surfaces |-> None]
  /\ call = [u \in Users |-> "rest"]
  /\ want = [u \in Users |-> None]
  /\ spec = [u \in Users |-> None]
  /\ got = [u \in Users |-> None]
  /\ build = "providers"
  /\ todo = Background \cup Eager
  /\ warming = None
  /\ spawned = {}

(***************************************************************************)
(* The builder: providers, then every alias of the catalog in the order of *)
(* a HashMap.  An eager alias is awaited and aborts the build if it is     *)
(* required and fails; a background alias gets a task of its own.          *)
(***************************************************************************)
ProvidersWarm ==
  /\ build = "providers"
  /\ build' = "models"
  /\ UNCHANGED <<rvars, front, todo, warming, spawned>>

\* A spec of the catalog is refused (invalid, of an unknown provider, with
\* options that are not accepted, or a second one of its alias), or the warmup
\* of a provider fails.
ProvidersFail ==
  /\ build = "providers"
  /\ build' = "aborted"
  /\ UNCHANGED <<rvars, front, todo, warming, spawned>>

Spawn(a) ==
  /\ build = "models" /\ warming = None /\ a \in todo
  /\ a \in Background
  /\ todo' = todo \ {a}
  /\ spawned' = spawned \cup {a}
  /\ UNCHANGED <<rvars, front, build, warming>>

WarmEagerly(a) ==
  /\ build = "models" /\ warming = None /\ a \in todo
  /\ a \in Eager
  /\ Request(Builder, KeyOf[Catalog[a]])
  /\ warming' = a
  /\ UNCHANGED <<front, build, todo, spawned>>

\* Variant: every failed eager warmup is logged and startup goes on.
EagerFailureLogged ==
  /\ build = "models" /\ warming # None /\ pc[Builder] = "failed"
  /\ Return(Builder)
  /\ todo' = todo \ {warming}
  /\ warming' = None
  /\ UNCHANGED <<front, build, spawned>>

EagerWarmed ==
  /\ build = "models" /\ warming # None /\ pc[Builder] = "ok"
  /\ Return(Builder)
  /\ todo' = todo \ {warming}
  /\ warming' = None
  /\ UNCHANGED <<front, build, spawned>>

EagerFailed ==
  /\ build = "models" /\ warming # None /\ pc[Builder] = "failed"
  /\ Return(Builder)
  /\ todo' = todo \ {warming}
  /\ warming' = None
  /\ build' = IF Catalog[warming] \in Required THEN "aborted" ELSE build
  /\ UNCHANGED <<front, spawned>>

Built ==
  /\ build = "models" /\ todo = {}
  /\ build' = "ready"
  /\ UNCHANGED <<rvars, front, todo, warming, spawned>>

\* Variant: the detached tasks end with the build that spawned them.
WarmDetachedIfBuilt(a) ==
  /\ a \in spawned /\ pc[a] = "idle" /\ build # "aborted"
  /\ Request(a, KeyOf[Catalog[a]])
  /\ UNCHANGED <<front, builder>>

\* The detached task of a: it runs on even if the build is aborted.
WarmDetached(a) ==
  /\ a \in spawned /\ pc[a] = "idle"
  /\ Request(a, KeyOf[Catalog[a]])
  /\ UNCHANGED <<front, builder>>

(***************************************************************************)
(* register: the alias is looked up and inserted under one write guard.    *)
(***************************************************************************)

\* Variant: registering an alias again replaces its spec.
RegisterAnew(a, sp) ==
  /\ build = "ready"
  /\ catalog' = [catalog EXCEPT ![a] = sp]
  /\ UNCHANGED <<rvars, cache, call, want, spec, got, builder>>

Register(a, sp) ==
  /\ build = "ready"
  /\ catalog[a] = None
  /\ catalog' = [catalog EXCEPT ![a] = sp]
  /\ UNCHANGED <<rvars, cache, call, want, spec, got, builder>>

(***************************************************************************)
(* An accessor: one look at the handle cache, then the alias's spec.       *)
(***************************************************************************)
Get(u, a, s) ==
  /\ build = "ready" /\ call[u] = "rest"
  /\ want' = [want EXCEPT ![u] = <<a, s>>]
  /\ got' = [got EXCEPT ![u] = cache[<<a, s>>]]
  /\ call' = [call EXCEPT ![u] = IF cache[<<a, s>>] # None THEN "rest" ELSE "lookup"]
  /\ UNCHANGED <<rvars, catalog, cache, spec, builder>>

Prefetch(u, a) ==
  /\ build = "ready" /\ call[u] = "rest"
  /\ want' = [want EXCEPT ![u] = <<a, None>>]
  /\ got' = [got EXCEPT ![u] = None]
  /\ call' = [call EXCEPT ![u] = "lookup"]
  /\ UNCHANGED <<rvars, catalog, cache, spec, builder>>

Forget(u) ==
  /\ call' = [call EXCEPT ![u] = "rest"]
  /\ want' = [want EXCEPT ![u] = None]
  /\ spec' = [spec EXCEPT ![u] = None]

AliasNotFound(u) ==
  /\ call[u] = "lookup" /\ catalog[want[u][1]] = None
  /\ Forget(u)
  /\ UNCHANGED <<rvars, catalog, cache, got, builder>>

Lookup(u) ==
  /\ call[u] = "lookup" /\ catalog[want[u][1]] # None
  /\ spec' = [spec EXCEPT ![u] = catalog[want[u][1]]]
  /\ Request(u, KeyOf[catalog[want[u][1]]])
  /\ call' = [call EXCEPT ![u] = "resolve"]
  /\ UNCHANGED <<catalog, cache, want, got, builder>>

(***************************************************************************)
(* ... and what it does with the model it resolved: view it as the wanted  *)
(* trait and keep the wrapper that the cache has by now, or a new one.     *)
(***************************************************************************)

\* Variant: the newcomer's wrapper replaces the one in the cache.
WrapAnew(u) ==
  /\ call[u] = "resolve" /\ pc[u] = "ok" /\ want[u][2] \in Views[key[u]]
  /\ Return(u)
  /\ cache' = [cache EXCEPT ![want[u]] = Wrapper(spec[u], handle[u])]
  /\ got' = [got EXCEPT ![u] = cache'[want[u]]]
  /\ call' = [call EXCEPT ![u] = "rest"]
  /\ spec' = [spec EXCEPT ![u] = None]
  /\ UNCHANGED <<catalog, want, builder>>

Wrap(u) ==
  /\ call[u] = "resolve" /\ pc[u] = "ok" /\ want[u][2] \in Views[key[u]]
  /\ Return(u)
  /\ cache' = IF cache[want[u]] # None THEN cache
              ELSE [cache EXCEPT ![want[u]] = Wrapper(spec[u], handle[u])]
  /\ got' = [got EXCEPT ![u] = cache'[want[u]]]
  /\ call' = [call EXCEPT ![u] = "rest"]
  /\ spec' = [spec EXCEPT ![u] = None]
  /\ UNCHANGED <<catalog, want, builder>>

\* Prefetch has no use for the handle; a model of another trait is an error.
Unwrapped(u) ==
  /\ call[u] = "resolve" /\ pc[u] = "ok" /\ want[u][2] \notin Views[key[u]]
  /\ Return(u)
  /\ Forget(u)
  /\ UNCHANGED <<catalog, cache, got, builder>>

Unresolved(u) ==
  /\ call[u] = "resolve" /\ pc[u] \in {"failed", "dropped"}
  /\ Return(u)
  /\ Forget(u)
  /\ UNCHANGED <<catalog, cache, got, builder>>

(***************************************************************************)
(* The registry's own steps, for every task; only users drop their calls.  *)
(* A load returns an instance that neither the registry nor a wrapper has. *)
(***************************************************************************)
Loaded(t) ==
  LET free == FreeInstances \ Pinned
  IN  free # {} /\ LoadAs(t, CHOOSE i \in free : TRUE)

Resolve(t) ==
  /\ \/ Enqueue(t) \/ Acquire(t) \/ Check(t) \/ Evict(t) \/ Cleanup(t)
     \/ Loaded(t) \/ LoadErr(t) \/ WarmOk(t) \/ WarmErr(t) \/ Publish(t)
     \/ Timeout(t)
  /\ UNCHANGED <<front, builder>>

DropCall(u) == Cancel(u) /\ UNCHANGED <<front, builder>>

Build ==
  \/ ProvidersWarm \/ ProvidersFail \/ EagerWarmed \/ EagerFailed \/ Built
  \/ \E a \in Aliases : Spawn(a) \/ WarmEagerly(a)

Reply(u) ==
  AliasNotFound(u) \/ Lookup(u) \/ Wrap(u) \/ Unwrapped(u) \/ Unresolved(u)

Use(u) ==
  \/ \E a \in Aliases : Prefetch(u, a) \/ \E s \in Surfaces : Get(u, a, s)
  \/ Reply(u)
  \/ DropCall(u)

MNext ==
  \/ Build
  \/ \E a \in Aliases : WarmDetached(a) \/ \E sp \in Specs : Register(a, sp)
  \/ \E u \in Users : Use(u)
  \/ \E t \in Tasks : Resolve(t)

MSpec == MInit /\ [][MNext]_mvars

(***************************************************************************)
(* Fairness: the executor polls what is ready; a load ends, if only by its *)
(* timeout; tokio's Mutex serves waiters in the order they came, so no     *)
(* waiter is overtaken for ever by tasks that take the loader lock and are *)
(* dropped.  Nobody is obliged to call an accessor.                        *)
(***************************************************************************)
MFairSpec ==
  /\ MSpec
  /\ WF_mvars(Build)
  /\ \A a \in Aliases : WF_mvars(WarmDetached(a))
  /\ \A u \in Users : WF_mvars(Reply(u))
  /\ \A t \in Tasks :
       WF_mvars(Resolve(t)) /\ SF_mvars(Acquire(t) /\ UNCHANGED <<front, builder>>)

-----------------------------------------------------------------------------
(* Properties *)

Wrappers == [spec : Specs, inner : Instances]

MTypeOK ==
  /\ RTypeOK
  /\ catalog \in [Aliases -> Specs \cup {None}]
  /\ cache \in [Aliases \X Surfaces -> Wrappers \cup {None}]
  /\ call \in [Users -> {"rest", "lookup", "resolve"}]
  /\ want \in [Users -> (Aliases \X (Surfaces \cup {None})) \cup {None}]
  /\ spec \in [Users -> Specs \cup {None}]
  /\ got \in [Users -> Wrappers \cup {None}]
  /\ build \in {"providers", "models", "ready", "aborted"}
  /\ todo \subseteq Aliases /\ spawned \subseteq Background
  /\ warming \in Aliases \cup {None}

(* "If true, a failed eager warmup aborts runtime startup": a runtime that *)
(* was built has every required eager alias loaded, whatever background    *)
(* tasks load, fail and evict at the same time.                            *)
RequiredIsLoaded ==
  build = "ready" => \A a \in Eager :
    Catalog[a] \in Required => instances[KeyOf[Catalog[a]]] # None

(* "Concurrent first-callers all observe the same Arc ... Once populated,  *)
(* an entry is never mutated": every handle an accessor ever returned for  *)
(* an alias and a trait is the one in the cache.                           *)
OneWrapper ==
  \A u \in Users : got[u] # None => got[u] = cache[want[u]]

(* A cached handle, which skips the spec lookup, belongs to the spec that  *)
(* the catalog has for its alias, and its model finished its warmup.       *)
CacheFollowsCatalog ==
  \A a \in Aliases, s \in Surfaces : cache[<<a, s>>] # None =>
    /\ cache[<<a, s>>].spec = catalog[a]
    /\ cache[<<a, s>>].inner \in warmed

(* Every accessor and prefetch returns, and so does build, while loads     *)
(* fail, time out and are dropped around them.                             *)
CallsReturn == \A u \in Users : call[u] # "rest" ~> call[u] = "rest"
BuildReturns == <>(build \in {"ready", "aborted"})

(* An alias warmed in the background is loaded or its load has failed in   *)
(* the end, even if the build that spawned the task was aborted.           *)
BackgroundEnds ==
  \A a \in Background : a \in spawned ~> pc[a] \in {"ok", "failed"}

(* Whoever waits for a model, in a call, at startup or in the background,  *)
(* comes to an end.                                                        *)
EverythingEnds == CallsReturn /\ BuildReturns /\ BackgroundEnds

=============================================================================
