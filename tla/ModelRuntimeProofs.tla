------------------------- MODULE ModelRuntimeProofs -------------------------
(***************************************************************************)
(* Theorems of ModelRuntime, for any users, aliases, specs, surfaces and   *)
(* catalog.                                                                *)
(*                                                                         *)
(* Every step of the runtime is a step of its registry or leaves it alone, *)
(* so what ModelRegistryProofs shows of the registry holds here too.  The  *)
(* handle cache needs that a user's call remembers the spec that the       *)
(* catalog still has; the required aliases need that an answer of the      *)
(* registry means a registered instance, and that none is ever removed.    *)
(***************************************************************************)
EXTENDS ModelRuntime, ModelRegistryProofs

USE NoneIsNothing, FaultType, SpecType, TaskNames, NoneIsNoName

FrontType ==
  /\ catalog \in [Aliases -> Specs \cup {None}]
  /\ cache \in [Aliases \X Surfaces -> Wrappers \cup {None}]
  /\ call \in [Users -> {"rest", "lookup", "resolve"}]
  /\ want \in [Users -> (Aliases \X (Surfaces \cup {None})) \cup {None}]
  /\ spec \in [Users -> Specs \cup {None}]
  /\ got \in [Users -> Wrappers \cup {None}]

BuilderType ==
  /\ build \in {"providers", "models", "ready", "aborted"}
  /\ todo \subseteq Aliases /\ spawned \subseteq Background
  /\ warming \in Aliases \cup {None}

(* What a user's running call remembers. *)
CallOK ==
  \A u \in Users :
    /\ call[u] # "rest" => want[u] \in Aliases \X (Surfaces \cup {None})
    /\ call[u] # "rest" => got[u] = None
    /\ call[u] = "resolve" => spec[u] # None /\ spec[u] = catalog[want[u][1]]

MInv == BaseInv /\ FrontType /\ BuilderType /\ CallOK

-----------------------------------------------------------------------------

LEMMA MInitInv == MInit => MInv
<1> SUFFICES ASSUME MInit PROVE MInv
  OBVIOUS
<1>1. BaseInv
  BY BaseInit DEF MInit
<1>2. FrontType
  BY DEF MInit, FrontType
<1>3. BuilderType
  BY DEF MInit, BuilderType, Background, Eager, Configured
<1>4. CallOK
  BY DEF MInit, CallOK
<1>. QED
  BY <1>1, <1>2, <1>3, <1>4 DEF MInv

(* Every step of the runtime is one of its registry, or leaves it alone. *)
LEMMA RuntimeStepProjects == MInv /\ [MNext]_mvars => [AnyNext]_rvars
<1> SUFFICES ASSUME MInv, [MNext]_mvars PROVE [AnyNext]_rvars
  OBVIOUS
<1> USE DEF MInv, FrontType, BuilderType, Background, Eager, Configured
<1>1. ASSUME ProvidersWarm \/ ProvidersFail \/ Built PROVE UNCHANGED rvars
  BY <1>1 DEF ProvidersWarm, ProvidersFail, Built
<1>2. ASSUME EagerWarmed \/ EagerFailed PROVE Return(Builder)
  BY <1>2 DEF EagerWarmed, EagerFailed
<1>3. ASSUME NEW a \in Aliases, Spawn(a) PROVE UNCHANGED rvars
  BY <1>3 DEF Spawn
<1>4. ASSUME NEW a \in Aliases, WarmEagerly(a)
      PROVE \E k \in Keys : Request(Builder, k)
  BY <1>4 DEF WarmEagerly
<1>5. CASE Build
  BY <1>1, <1>2, <1>3, <1>4, <1>5 DEF Build, AnyNext, RNext
<1>6. ASSUME NEW a \in Aliases, WarmDetached(a) PROVE AnyNext
  <2>1. a \in Tasks /\ KeyOf[Catalog[a]] \in Keys
    BY <1>6 DEF WarmDetached
  <2>. QED
    BY <1>6, <2>1 DEF WarmDetached, AnyNext, RNext
<1>7. ASSUME NEW a \in Aliases, NEW sp \in Specs, Register(a, sp)
      PROVE UNCHANGED rvars
  BY <1>7 DEF Register
<1>8. ASSUME NEW u \in Users, NEW a \in Aliases,
             Prefetch(u, a) \/ \E s \in Surfaces : Get(u, a, s)
      PROVE UNCHANGED rvars
  BY <1>8 DEF Prefetch, Get
<1>9. ASSUME NEW u \in Users, Lookup(u) PROVE AnyNext
  <2>1. want[u] \in Aliases \X (Surfaces \cup {None})
    BY <1>9 DEF Lookup, CallOK
  <2>2. catalog[want[u][1]] \in Specs
    BY <1>9, <2>1 DEF Lookup
  <2>3. KeyOf[catalog[want[u][1]]] \in Keys
    BY <2>2
  <2>. QED
    BY <1>9, <2>3 DEF Lookup, AnyNext, RNext
<1>10. ASSUME NEW u \in Users, AliasNotFound(u) PROVE UNCHANGED rvars
  BY <1>10 DEF AliasNotFound
<1>11. ASSUME NEW u \in Users, Wrap(u) \/ Unwrapped(u) \/ Unresolved(u)
       PROVE AnyNext
  BY <1>11 DEF Wrap, Unwrapped, Unresolved, AnyNext, RNext
<1>12. ASSUME NEW u \in Users, DropCall(u) PROVE AnyNext
  BY <1>12 DEF DropCall, AnyNext, RNext
<1>13. ASSUME NEW u \in Users, Use(u) PROVE [AnyNext]_rvars
  BY <1>8, <1>9, <1>10, <1>11, <1>12, <1>13 DEF Use, Reply
<1>14. ASSUME NEW t \in Tasks, Loaded(t) PROVE AnyNext
  <2>1. PICK i \in FreeInstances : LoadAs(t, i)
    BY <1>14 DEF Loaded
  <2>. QED
    BY <2>1 DEF AnyNext
<1>15. ASSUME NEW t \in Tasks, Resolve(t) PROVE AnyNext
  BY <1>14, <1>15 DEF Resolve, AnyNext, RNext, Step, Load
<1>16. CASE UNCHANGED mvars
  BY <1>16 DEF mvars
<1>. QED
  BY <1>5, <1>6, <1>7, <1>13, <1>15, <1>16 DEF MNext

(* The users' side keeps its types and what its calls remember. *)
LEMMA FrontStep == MInv /\ [MNext]_mvars => FrontType' /\ CallOK'
<1> SUFFICES ASSUME MInv, [MNext]_mvars PROVE FrontType' /\ CallOK'
  OBVIOUS
<1> DEFINE Goal == FrontType' /\ CallOK'
<1> USE DEF FrontType, CallOK
<1>0. FrontType /\ CallOK /\ LocalsOK
  BY DEF MInv, BaseInv
<1>1. ASSUME UNCHANGED front PROVE Goal
  BY <1>0, <1>1 DEF front
<1>2. ASSUME NEW a \in Aliases, NEW sp \in Specs, Register(a, sp) PROVE Goal
  <2>1. FrontType'
    BY <1>0, <1>2 DEF Register
  <2>2. ASSUME NEW u \in Users, call[u] = "resolve"
        PROVE want[u][1] # a
    BY <1>0, <1>2, <2>2 DEF Register
  <2>3. CallOK'
    BY <1>0, <1>2, <2>2 DEF Register
  <2>. QED
    BY <2>1, <2>3
<1>3. ASSUME NEW u \in Users, NEW a \in Aliases, Prefetch(u, a) PROVE Goal
  <2>1. FrontType'
    BY <1>0, <1>3 DEF Prefetch
  <2>2. CallOK'
    BY <1>0, <1>3 DEF Prefetch
  <2>. QED
    BY <2>1, <2>2
<1>4. ASSUME NEW u \in Users, NEW a \in Aliases, NEW s \in Surfaces, Get(u, a, s)
      PROVE Goal
  <2>0. <<a, s>> \in Aliases \X Surfaces
    OBVIOUS
  <2>1. FrontType'
    BY <1>0, <1>4, <2>0 DEF Get
  <2>2. CallOK'
    BY <1>0, <1>4, <2>0 DEF Get
  <2>. QED
    BY <2>1, <2>2
<1>5. ASSUME NEW u \in Users, AliasNotFound(u) \/ Unwrapped(u) \/ Unresolved(u)
      PROVE Goal
  <2>1. Forget(u) /\ UNCHANGED <<catalog, cache, got>>
    BY <1>5 DEF AliasNotFound, Unwrapped, Unresolved
  <2>. QED
    BY <1>0, <2>1 DEF Forget
<1>6. ASSUME NEW u \in Users, Lookup(u) PROVE Goal
  <2>1. want[u] \in Aliases \X (Surfaces \cup {None})
    BY <1>0, <1>6 DEF Lookup
  <2>2. catalog[want[u][1]] \in Specs
    BY <1>0, <1>6, <2>1 DEF Lookup
  <2>. QED
    BY <1>0, <1>6, <2>2 DEF Lookup
<1>7. ASSUME NEW u \in Users, Wrap(u) PROVE Goal
  <2>1. /\ want[u] \in Aliases \X Surfaces
        /\ Wrapper(spec[u], handle[u]) \in Wrappers
    <3>1. key[u] \in Keys /\ handle[u] \in Instances
      BY <1>0, <1>7 DEF Wrap, LocalsOK
    <3>2. want[u][2] \in Surfaces
      BY <1>7, <3>1 DEF Wrap
    <3>3. want[u] \in Aliases \X (Surfaces \cup {None})
      BY <1>0, <1>7 DEF Wrap
    <3>4. spec[u] \in Specs
      BY <1>0, <1>7 DEF Wrap
    <3>. QED
      BY <3>1, <3>2, <3>3, <3>4 DEF Wrapper, Wrappers
  <2>2. cache' \in [Aliases \X Surfaces -> Wrappers \cup {None}]
    BY <1>0, <1>7, <2>1 DEF Wrap
  <2>3. got' \in [Users -> Wrappers \cup {None}]
    BY <1>0, <1>7, <2>1, <2>2 DEF Wrap
  <2>4. FrontType'
    BY <1>0, <1>7, <2>2, <2>3 DEF Wrap
  <2>5. CallOK'
    BY <1>0, <1>7 DEF Wrap
  <2>. QED
    BY <2>4, <2>5
<1>8. ASSUME Build PROVE UNCHANGED front
  BY <1>8 DEF Build, ProvidersWarm, ProvidersFail, EagerWarmed, EagerFailed,
              Built, Spawn, WarmEagerly
<1>9. ASSUME NEW a \in Aliases, WarmDetached(a) PROVE UNCHANGED front
  BY <1>9 DEF WarmDetached
<1>10. ASSUME NEW t \in Tasks, Resolve(t) PROVE UNCHANGED front
  BY <1>10 DEF Resolve
<1>11. ASSUME NEW u \in Users, DropCall(u) PROVE UNCHANGED front
  BY <1>11 DEF DropCall
<1>12. ASSUME NEW u \in Users, Use(u) PROVE Goal
  BY <1>1, <1>3, <1>4, <1>5, <1>6, <1>7, <1>11, <1>12 DEF Use, Reply
<1>13. CASE UNCHANGED mvars
  BY <1>1, <1>13 DEF mvars
<1>. QED
  BY <1>1, <1>2, <1>8, <1>9, <1>10, <1>12, <1>13 DEF MNext

LEMMA BuilderStep == MInv /\ [MNext]_mvars => BuilderType'
<1> SUFFICES ASSUME MInv, [MNext]_mvars PROVE BuilderType'
  OBVIOUS
<1> USE DEF MInv, BuilderType
<1>1. ASSUME UNCHANGED builder PROVE BuilderType'
  BY <1>1 DEF builder
<1>2. CASE Build
  BY <1>2 DEF Build, ProvidersWarm, ProvidersFail, EagerWarmed, EagerFailed,
              Built, Spawn, WarmEagerly
<1>3. ASSUME NEW u \in Users, Use(u) PROVE UNCHANGED builder
  BY <1>3 DEF Use, Reply, Prefetch, Get, AliasNotFound, Lookup, Wrap,
              Unwrapped, Unresolved, DropCall
<1>4. ASSUME NEW a \in Aliases, NEW sp \in Specs,
             WarmDetached(a) \/ Register(a, sp)
      PROVE UNCHANGED builder
  BY <1>4 DEF WarmDetached, Register
<1>4a. ASSUME NEW a \in Aliases, WarmDetached(a) PROVE UNCHANGED builder
  BY <1>4a DEF WarmDetached
<1>5. ASSUME NEW t \in Tasks, Resolve(t) PROVE UNCHANGED builder
  BY <1>5 DEF Resolve
<1>6. CASE UNCHANGED mvars
  BY <1>1, <1>6 DEF mvars
<1>. QED
  BY <1>1, <1>2, <1>3, <1>4, <1>4a, <1>5, <1>6 DEF MNext

LEMMA RuntimeInvariance == MSpec => []MInv
<1>1. ASSUME MInv, [MNext]_mvars PROVE MInv'
  <2>1. BaseInv'
    BY <1>1, RuntimeStepProjects, BaseStep DEF MInv
  <2>. QED
    BY <1>1, <2>1, FrontStep, BuilderStep DEF MInv
<1>. QED
  BY <1>1, MInitInv, PTL DEF MSpec

(* The registry inside the runtime behaves as ModelRegistry specifies. *)
LEMMA RuntimeUsesRegistry == MSpec => AnySpec
<1>1. MInit => RInit
  BY DEF MInit
<1>. QED
  BY <1>1, RuntimeInvariance, RuntimeStepProjects, PTL DEF MSpec, AnySpec

-----------------------------------------------------------------------------

(* The runtime's own state keeps its types. *)
THEOREM RuntimeTypeCorrect == MSpec => []MTypeOK
<1>1. MInv => MTypeOK
  BY DEF MInv, BaseInv, FrontType, BuilderType, MTypeOK
<1>. QED
  BY <1>1, RuntimeInvariance, PTL

(* No two of the builder, the background tasks and the users ever load a   *)
(* reliable key at the same time.                                          *)
THEOREM RuntimeLoadsAreSingle == MSpec => []SingleReliableLoader
  BY RuntimeUsesRegistry, QueueInvariance, QueueExcludes, PTL

(* On its reliable keys the registry of a runtime keeps the promise of     *)
(* LoadOnce to all of them, whoever of them drops its call: each key is    *)
(* filled once, and whoever asks for it is served what it holds.           *)
THEOREM RuntimeLoadsOnce == MSpec => ImplementsLoadOnce
  BY RuntimeUsesRegistry, LoadsOnce, PTL

(* Nothing half-warm is registered or handed out by a runtime, whatever    *)
(* fails, times out or is dropped (runtime.rs, 918-957).                   *)
THEOREM RuntimeModelsAreWarm == MSpec => []OnlyWarmModels
  BY RuntimeUsesRegistry, BaseInvariance, PTL DEF BaseInv

(* Unless calls are dropped, a runtime's lock map holds a lock only while  *)
(* a task that will remove it is under way (runtime.rs, 884-888, 974-981). *)
THEOREM RuntimeLockMapIsBounded == MSpec => []LockMapBounded
  BY RuntimeUsesRegistry, MapInvariance, PTL

-----------------------------------------------------------------------------

(* Wrap fills an empty entry of the cache and touches no other.            *)
LEMMA WrapStep ==
  ASSUME MInv, NEW u \in Users, Wrap(u)
  PROVE  /\ want[u] \in Aliases \X Surfaces
         /\ \A x \in Aliases \X Surfaces :
              cache'[x] = IF x = want[u] /\ cache[x] = None
                            THEN Wrapper(spec[u], handle[u]) ELSE cache[x]
         /\ got' = [got EXCEPT ![u] = cache'[want[u]]]
         /\ want' = want
<1> USE DEF MInv, BaseInv, FrontType, CallOK
<1>1. key[u] \in Keys
  BY DEF Wrap, LocalsOK
<1>2. want[u][2] \in Surfaces
  BY <1>1 DEF Wrap
<1>3. want[u] \in Aliases \X (Surfaces \cup {None})
  BY DEF Wrap
<1>4. want[u] \in Aliases \X Surfaces
  BY <1>2, <1>3
<1>. QED
  BY <1>4 DEF Wrap

(* A user that has a wrapper is at rest and remembers what it asked for. *)
GotIsWanted ==
  \A u \in Users : got[u] # None => want[u] \in Aliases \X Surfaces

(* Every handle an accessor ever returned for an alias and a trait is the  *)
(* one in the cache, whatever first callers, failures and drops interleave.*)
THEOREM WrapperIsUnique == MSpec => []OneWrapper
<1> DEFINE OInv == OneWrapper /\ GotIsWanted
<1>1. MInit => OInv
  BY DEF MInit, OneWrapper, GotIsWanted
<1>2. ASSUME MInv, OInv, [MNext]_mvars PROVE OInv'
  <2> USE <1>2 DEF OneWrapper, GotIsWanted
  <2>0. FrontType /\ CallOK
    BY DEF MInv
  <2>1. ASSUME UNCHANGED <<cache, want, got>> PROVE OInv'
    BY <2>1
  <2>2. ASSUME NEW u \in Users, NEW a \in Aliases, Prefetch(u, a) PROVE OInv'
    BY <2>0, <2>2 DEF Prefetch, FrontType
  <2>3. ASSUME NEW u \in Users, NEW a \in Aliases, NEW s \in Surfaces,
               Get(u, a, s)
        PROVE OInv'
    BY <2>0, <2>3 DEF Get, FrontType
  <2>4. ASSUME NEW u \in Users,
               AliasNotFound(u) \/ Unwrapped(u) \/ Unresolved(u)
        PROVE OInv'
    <3>1. call[u] # "rest" /\ Forget(u) /\ UNCHANGED <<cache, got>>
      BY <2>4 DEF AliasNotFound, Unwrapped, Unresolved
    <3>2. got[u] = None
      BY <2>0, <3>1 DEF CallOK
    <3>. QED
      BY <2>0, <3>1, <3>2 DEF Forget, FrontType
  <2>5. ASSUME NEW u \in Users, Wrap(u) PROVE OInv'
    <3>1. /\ want[u] \in Aliases \X Surfaces
          /\ \A x \in Aliases \X Surfaces :
               cache'[x] = IF x = want[u] /\ cache[x] = None
                             THEN Wrapper(spec[u], handle[u]) ELSE cache[x]
          /\ got' = [got EXCEPT ![u] = cache'[want[u]]]
          /\ want' = want
      BY <2>5, WrapStep
    <3>2. ASSUME NEW v \in Users, v # u, got'[v] # None
          PROVE got'[v] = cache'[want'[v]] /\ want'[v] \in Aliases \X Surfaces
      <4>1. got[v] = got'[v] /\ got[v] = cache[want[v]]
            /\ want[v] \in Aliases \X Surfaces
        BY <2>0, <3>1, <3>2 DEF FrontType
      <4>. QED
        BY <3>1, <3>2, <4>1
    <3>3. got'[u] = cache'[want'[u]] /\ want'[u] \in Aliases \X Surfaces
      BY <2>0, <3>1 DEF FrontType
    <3>. QED
      BY <3>2, <3>3
  <2>6. ASSUME NEW u \in Users, Lookup(u) \/ DropCall(u)
        PROVE UNCHANGED <<cache, want, got>>
    BY <2>6 DEF Lookup, DropCall, front
  <2>7. ASSUME NEW u \in Users, Use(u) PROVE OInv'
    BY <2>1, <2>2, <2>3, <2>4, <2>5, <2>6, <2>7 DEF Use, Reply
  <2>8. ASSUME Build PROVE UNCHANGED <<cache, want, got>>
    BY <2>8 DEF Build, ProvidersWarm, ProvidersFail, EagerWarmed, EagerFailed,
                Built, Spawn, WarmEagerly, front
  <2>9. ASSUME NEW a \in Aliases,
               WarmDetached(a) \/ \E sp \in Specs : Register(a, sp)
        PROVE UNCHANGED <<cache, want, got>>
    BY <2>9 DEF WarmDetached, Register, front
  <2>10. ASSUME NEW t \in Tasks, Resolve(t) PROVE UNCHANGED <<cache, want, got>>
    BY <2>10 DEF Resolve, front
  <2>11. CASE UNCHANGED mvars
    BY <2>1, <2>11 DEF mvars, front
  <2>. QED
    BY <2>1, <2>7, <2>8, <2>9, <2>10, <2>11 DEF MNext
<1>3. OInv => OneWrapper
  OBVIOUS
<1>. QED
  BY <1>1, <1>2, <1>3, RuntimeInvariance, PTL DEF MSpec

-----------------------------------------------------------------------------
(* A load never returns an instance that a wrapper holds, so a model stays *)
(* warm while it is in the cache.                                          *)
LEMMA CachedStaysWarm ==
  ASSUME MInv, [MNext]_mvars,
         NEW x \in Aliases \X Surfaces, cache[x] # None, cache[x].inner \in warmed
  PROVE  cache[x].inner \in warmed'
<1>1. ASSUME NEW t \in Tasks, Resolve(t) PROVE cache[x].inner \in warmed'
  <2>1. CASE Loaded(t)
    <3>1. PICK i \in FreeInstances \ Pinned : LoadAs(t, i)
      BY <2>1 DEF Loaded
    <3>2. cache[x].inner \in Pinned
      BY DEF Pinned
    <3>. QED
      BY <3>1, <3>2 DEF LoadAs
  <2>2. CASE ~Loaded(t)
    BY <1>1, <2>2 DEF Resolve, Enqueue, Acquire, Check, Evict, Cleanup, LoadErr,
      WarmOk, WarmErr, Publish, Timeout
  <2>. QED
    BY <2>1, <2>2
<1>2. CASE Build
  BY <1>2 DEF Build, ProvidersWarm, ProvidersFail, EagerWarmed, EagerFailed,
    Built, Spawn, WarmEagerly, Request, Return, rvars
<1>3. ASSUME NEW a \in Aliases,
             WarmDetached(a) \/ \E sp \in Specs : Register(a, sp)
      PROVE  UNCHANGED warmed
  BY <1>3 DEF WarmDetached, Register, Request, rvars
<1>4. ASSUME NEW u \in Users, Use(u) PROVE UNCHANGED warmed
  BY <1>4 DEF Use, Reply, Prefetch, Get, AliasNotFound, Lookup, Wrap, Unwrapped,
    Unresolved, DropCall, Request, Return, Cancel, rvars
<1>5. CASE UNCHANGED mvars
  BY <1>5 DEF mvars, rvars
<1>. QED
  BY <1>1, <1>2, <1>3, <1>4, <1>5 DEF MNext

(* A cached handle belongs to the spec that the catalog has for its alias, *)
(* and its model is warm, whatever is registered, loaded or dropped.       *)
THEOREM CacheFollows == MSpec => []CacheFollowsCatalog
<1>1. MInit => CacheFollowsCatalog
  BY DEF MInit, CacheFollowsCatalog
<1>2. ASSUME MInv, CacheFollowsCatalog, [MNext]_mvars
      PROVE  CacheFollowsCatalog'
  <2>0. FrontType /\ CallOK
    BY <1>2 DEF MInv
  <2>1. ASSUME UNCHANGED <<catalog, cache>> PROVE CacheFollowsCatalog'
    BY <1>2, <2>1, CachedStaysWarm DEF CacheFollowsCatalog
  <2>2. ASSUME NEW a \in Aliases, NEW sp \in Specs, Register(a, sp)
        PROVE  CacheFollowsCatalog'
    <3>1. catalog[a] = None /\ cache' = cache /\ warmed' = warmed
          /\ catalog' = [catalog EXCEPT ![a] = sp]
      BY <2>2 DEF Register, rvars
    <3>2. \A s \in Surfaces : cache[<<a, s>>] = None
      <4>. SUFFICES ASSUME NEW s \in Surfaces, cache[<<a, s>>] # None PROVE FALSE
        OBVIOUS
      <4>1. cache[<<a, s>>] \in Wrappers
        BY <2>0 DEF FrontType
      <4>. QED
        BY <1>2, <3>1, <4>1 DEF CacheFollowsCatalog, Wrappers
    <3>. QED
      BY <1>2, <2>0, <3>1, <3>2 DEF CacheFollowsCatalog, FrontType
  <2>3. ASSUME NEW u \in Users, Wrap(u) PROVE CacheFollowsCatalog'
    <3>1. /\ want[u] \in Aliases \X Surfaces
          /\ \A x \in Aliases \X Surfaces :
               cache'[x] = IF x = want[u] /\ cache[x] = None
                             THEN Wrapper(spec[u], handle[u]) ELSE cache[x]
      BY <1>2, <2>3, WrapStep
    <3>2. spec[u] = catalog[want[u][1]] /\ catalog' = catalog /\ warmed' = warmed
      BY <2>0, <2>3 DEF Wrap, CallOK, Return
    <3>3. handle[u] \in warmed
      BY <1>2, <2>3 DEF Wrap, MInv, BaseInv, OnlyWarmModels
    <3>. QED
      BY <1>2, <3>1, <3>2, <3>3 DEF CacheFollowsCatalog, Wrapper
  <2>4. ASSUME NEW u \in Users, Use(u) PROVE CacheFollowsCatalog'
    <3>1. CASE ~Wrap(u)
      <4>1. UNCHANGED <<catalog, cache>>
        BY <2>4, <3>1 DEF Use, Reply, Prefetch, Get, AliasNotFound, Lookup,
          Unwrapped, Unresolved, DropCall, front
      <4>. QED
        BY <2>1, <4>1
    <3>. QED
      BY <2>3, <3>1
  <2>5. ASSUME Build PROVE UNCHANGED <<catalog, cache>>
    BY <2>5 DEF Build, ProvidersWarm, ProvidersFail, EagerWarmed, EagerFailed,
      Built, Spawn, WarmEagerly, front
  <2>6. ASSUME NEW a \in Aliases, WarmDetached(a) PROVE UNCHANGED <<catalog, cache>>
    BY <2>6 DEF WarmDetached, front
  <2>7. ASSUME NEW t \in Tasks, Resolve(t) PROVE UNCHANGED <<catalog, cache>>
    BY <2>7 DEF Resolve, front
  <2>8. CASE UNCHANGED mvars
    BY <2>1, <2>8 DEF mvars, front
  <2>. QED
    BY <1>2, <2>1, <2>2, <2>4, <2>5, <2>6, <2>7, <2>8 DEF MNext
<1>. QED
  BY <1>1, <1>2, RuntimeInvariance, PTL DEF MSpec

-----------------------------------------------------------------------------
(* No registered instance is ever removed: publishing replaces it at most. *)
LEMMA InstancesStay ==
  ASSUME BaseInv, [AnyNext]_rvars, NEW k \in Keys, instances[k] # None
  PROVE  instances'[k] # None
<1>1. ASSUME NEW t \in Tasks, Publish(t) PROVE instances'[k] # None
  <2>1. handle[t] # None
    BY <1>1 DEF Publish, BaseInv, LocalsOK
  <2>. QED
    BY <1>1, <2>1 DEF Publish, BaseInv, RTypeOK
<1>2. ASSUME ~(\E t \in Tasks : Publish(t)) PROVE UNCHANGED instances
  BY <1>2 DEF AnyNext, RNext, Step, Load, Request, Enqueue, Acquire, Check, Evict,
    LoadOk, LoadAs, LoadErr, WarmOk, WarmErr, Timeout, Cleanup, Cancel, Return, rvars
<1>. QED
  BY <1>1, <1>2

(* Whoever is answered by the registry finds the key registered.           *)
ServedIsRegistered ==
  \A t \in Tasks :
    \/ pc[t] \in {"evict", "ok"}
    \/ pc[t] = "cleanup" /\ handle[t] # None
    => instances[key[t]] # None

LEMMA ServedStep == BaseInv /\ ServedIsRegistered /\ [AnyNext]_rvars => ServedIsRegistered'
<1>. SUFFICES ASSUME BaseInv, ServedIsRegistered, [AnyNext]_rvars,
                     NEW u \in Tasks,
                     \/ pc'[u] \in {"evict", "ok"}
                     \/ pc'[u] = "cleanup" /\ handle'[u] # None
              PROVE  instances'[key'[u]] # None
  BY DEF ServedIsRegistered
<1>. USE DEF BaseInv, RTypeOK, Goto, Rest, InFlight, Guarded, LoadSteps, locals
<1>0. \A k \in Keys : instances[k] # None => instances'[k] # None
  BY InstancesStay
<1>1. ASSUME pc'[u] = pc[u], key'[u] = key[u], handle'[u] = handle[u]
      PROVE  instances'[key'[u]] # None
  <2>1. instances[key[u]] # None
    BY <1>1 DEF ServedIsRegistered
  <2>2. key[u] \in Keys
    BY <1>1 DEF LocalsOK
  <2>. QED
    BY <1>0, <1>1, <2>1, <2>2
<1>2. ASSUME NEW t \in Tasks, t # u, AnyNext,
             \/ \E k \in Keys : Request(t, k)
             \/ Step(t) \/ Cancel(t) \/ Return(t)
             \/ \E i \in FreeInstances : LoadAs(t, i)
      PROVE  pc'[u] = pc[u] /\ key'[u] = key[u] /\ handle'[u] = handle[u]
  BY <1>2 DEF Step, Load, Request, Enqueue, Acquire, Check, Evict, LoadOk, LoadAs,
    LoadErr, WarmOk, WarmErr, Publish, Timeout, Cleanup, Cancel, Return
<1>3. ASSUME NEW k \in Keys, Request(u, k) PROVE instances'[key'[u]] # None
  BY <1>0, <1>3 DEF Request
<1>4. ASSUME Check(u) PROVE instances'[key'[u]] # None
  <2>1. key[u] \in Keys
    BY <1>4 DEF Check, LocalsOK
  <2>. QED
    BY <1>0, <1>4, <2>1 DEF Check
<1>5. ASSUME Publish(u) PROVE instances'[key'[u]] # None
  <2>1. key[u] \in Keys /\ handle[u] # None
    BY <1>5 DEF Publish, LocalsOK
  <2>. QED
    BY <1>5, <2>1 DEF Publish
<1>6. ASSUME Evict(u) \/ Cleanup(u) PROVE instances'[key'[u]] # None
  <2>1. key[u] \in Keys /\ key' = key /\ handle' = handle
    BY <1>6 DEF Evict, Cleanup, LocalsOK
  <2>2. instances[key[u]] # None
    BY <1>6, <2>1 DEF Evict, Cleanup, ServedIsRegistered
  <2>. QED
    BY <1>0, <2>1, <2>2
<1>7. ~(LoadErr(u) \/ WarmErr(u) \/ Timeout(u))
  BY DEF LoadErr, WarmErr, Timeout, InLoad, LocalsOK
<1>8. ~(Enqueue(u) \/ Acquire(u) \/ WarmOk(u) \/ Cancel(u) \/ Return(u))
  BY DEF Enqueue, Acquire, WarmOk, Cancel, Return
<1>9. ~(\E i \in FreeInstances : LoadAs(u, i))
  BY DEF LoadAs
<1>10. CASE UNCHANGED rvars
  BY <1>1, <1>10 DEF rvars
<1>11. ASSUME NEW t \in Tasks,
             \/ \E k \in Keys : Request(t, k)
             \/ Step(t) \/ Cancel(t) \/ Return(t)
             \/ \E i \in FreeInstances : LoadAs(t, i)
       PROVE  instances'[key'[u]] # None
  <2>1. CASE t # u
    <3>1. AnyNext
      BY <1>11 DEF AnyNext, RNext
    <3>. QED
      BY <1>1, <1>2, <1>11, <2>1, <3>1
  <2>2. CASE t = u
    BY <1>3, <1>4, <1>5, <1>6, <1>7, <1>8, <1>9, <1>11, <2>2, LoadOkIsLoadAs
      DEF Step, Load
  <2>. QED
    BY <2>1, <2>2
<1>. QED
  BY <1>10, <1>11 DEF AnyNext, RNext

-----------------------------------------------------------------------------
(* The builder's own task: which alias its call is for, and what startup   *)
(* has made sure of so far.                                                *)
AwaitsAlias ==
  warming # None =>
    /\ build = "models" /\ warming \in Eager \cap todo
    /\ pc[Builder] # "idle" /\ key[Builder] = KeyOf[Catalog[warming]]

LoadedSoFar ==
  /\ build = "ready" => todo = {}
  /\ build # "aborted" => \A a \in Eager \ todo :
       Catalog[a] \in Required => instances[KeyOf[Catalog[a]]] # None

BInv == ServedIsRegistered /\ AwaitsAlias /\ LoadedSoFar

(* Nobody but the builder touches its call.                                *)
LEMMA BuilderIsAlone ==
  ASSUME MInv, [MNext]_mvars, ~Build, pc[Builder] # "idle"
  PROVE  pc'[Builder] # "idle" /\ key'[Builder] = key[Builder]
<1>. USE DEF MInv, BaseInv, RTypeOK, BuilderType, Goto, locals, rvars
<1>1. ASSUME NEW t \in Tasks, Resolve(t)
      PROVE  pc'[Builder] # "idle" /\ key'[Builder] = key[Builder]
  BY <1>1 DEF Resolve, Enqueue, Acquire, Check, Evict, Cleanup, Loaded, LoadAs,
    LoadErr, WarmOk, WarmErr, Publish, Timeout
<1>2. ASSUME NEW a \in Aliases, WarmDetached(a)
      PROVE  pc'[Builder] = pc[Builder] /\ key'[Builder] = key[Builder]
  <2>1. a # Builder
    BY <1>2 DEF WarmDetached
  <2>. QED
    BY <1>2, <2>1 DEF WarmDetached, Request
<1>3. ASSUME NEW a \in Aliases, NEW sp \in Specs, Register(a, sp) PROVE UNCHANGED <<pc, key>>
  BY <1>3 DEF Register
<1>4. ASSUME NEW u \in Users, Use(u)
      PROVE  pc'[Builder] = pc[Builder] /\ key'[Builder] = key[Builder]
  <2>1. u # Builder
    OBVIOUS
  <2>. QED
    BY <1>4, <2>1 DEF Use, Reply, Prefetch, Get, AliasNotFound, Lookup, Wrap,
      Unwrapped, Unresolved, DropCall, Request, Return, Cancel
<1>5. CASE UNCHANGED mvars
  BY <1>5 DEF mvars
<1>. QED
  BY <1>1, <1>2, <1>3, <1>4, <1>5 DEF MNext

LEMMA BuildKeepsBInv ==
  ASSUME MInv, AwaitsAlias, LoadedSoFar, ServedIsRegistered, Build,
         \A k \in Keys : instances[k] # None => instances'[k] # None
  PROVE  AwaitsAlias' /\ LoadedSoFar'
<1>. USE DEF AwaitsAlias, LoadedSoFar, MInv, BuilderType
<1>0. \A a \in Eager : Catalog[a] \in Specs /\ KeyOf[Catalog[a]] \in Keys
  BY DEF Eager, Configured
<1>1. ASSUME ProvidersWarm \/ ProvidersFail \/ Built PROVE AwaitsAlias' /\ LoadedSoFar'
  BY <1>1 DEF ProvidersWarm, ProvidersFail, Built, rvars
<1>2. ASSUME NEW a \in Aliases, Spawn(a) PROVE AwaitsAlias' /\ LoadedSoFar'
  <2>1. a \notin Eager
    BY <1>2 DEF Spawn, Background, Eager
  <2>. QED
    BY <1>2, <2>1 DEF Spawn, rvars
<1>3. ASSUME NEW a \in Aliases, WarmEagerly(a) PROVE AwaitsAlias' /\ LoadedSoFar'
  <2>1. /\ pc'[Builder] # "idle" /\ key'[Builder] = KeyOf[Catalog[a]]
        /\ UNCHANGED instances
    BY <1>3 DEF WarmEagerly, Request, Goto, BaseInv, RTypeOK
  <2>. QED
    BY <1>3, <2>1 DEF WarmEagerly
<1>4. CASE EagerWarmed
  <2>1. instances[KeyOf[Catalog[warming]]] # None
    BY <1>4 DEF EagerWarmed, ServedIsRegistered
  <2>2. UNCHANGED instances /\ todo' = todo \ {warming} /\ warming' = None /\ build' = build
    BY <1>4 DEF EagerWarmed, Return
  <2>3. build # "ready"
    BY <1>4 DEF EagerWarmed
  <2>. QED
    BY <2>1, <2>2, <2>3
<1>5. CASE EagerFailed
  <2>1. UNCHANGED instances /\ todo' = todo \ {warming} /\ warming' = None
    BY <1>5 DEF EagerFailed, Return
  <2>2. build' = IF Catalog[warming] \in Required THEN "aborted" ELSE "models"
    BY <1>5 DEF EagerFailed
  <2>3. build = "models"
    BY <1>5 DEF EagerFailed
  <2>. QED
    BY <2>1, <2>2, <2>3
<1>. QED
  BY <1>1, <1>2, <1>3, <1>4, <1>5 DEF Build

(* A runtime that was built has every required eager alias loaded, however *)
(* many others load, fail and drop the same models meanwhile.              *)
THEOREM RequiredAreLoaded == MSpec => []RequiredIsLoaded
<1>1. MInit => BInv
  BY DEF MInit, RInit, BInv, ServedIsRegistered, AwaitsAlias, LoadedSoFar
<1>2. ASSUME MInv, BInv, [MNext]_mvars PROVE BInv'
  <2>0. BaseInv /\ [AnyNext]_rvars
    BY <1>2, RuntimeStepProjects DEF MInv
  <2>1. ServedIsRegistered'
    BY <1>2, <2>0, ServedStep DEF BInv
  <2>2. \A k \in Keys : instances[k] # None => instances'[k] # None
    BY <2>0, InstancesStay
  <2>3. CASE Build
    BY <1>2, <2>1, <2>2, <2>3, BuildKeepsBInv DEF BInv
  <2>4. CASE ~Build
    <3>1. UNCHANGED builder
      BY <1>2, <2>4 DEF MNext, Use, Reply, Prefetch, Get, AliasNotFound, Lookup,
        Wrap, Unwrapped, Unresolved, DropCall, WarmDetached, Register, Resolve, mvars
    <3>2. AwaitsAlias'
      BY <1>2, <2>4, <3>1, BuilderIsAlone DEF BInv, AwaitsAlias, builder
    <3>3. \A a \in Eager : KeyOf[Catalog[a]] \in Keys
      BY DEF Eager, Configured
    <3>4. LoadedSoFar'
      BY <1>2, <2>2, <3>1, <3>3 DEF BInv, LoadedSoFar, builder
    <3>. QED
      BY <2>1, <3>2, <3>4 DEF BInv
  <2>. QED
    BY <2>3, <2>4
<1>3. BInv => RequiredIsLoaded
  BY DEF BInv, LoadedSoFar, RequiredIsLoaded
<1>. QED
  BY <1>1, <1>2, <1>3, RuntimeInvariance, PTL DEF MSpec


=============================================================================
