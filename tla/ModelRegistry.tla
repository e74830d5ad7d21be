--------------------------- MODULE ModelRegistry ---------------------------
(***************************************************************************)
(* The load-once registry of runtime.rs: ModelRegistry and                 *)
(* ModelRuntime::resolve_and_load_internal, run by concurrent tasks.       *)
(*                                                                         *)
(* A task that misses the registry takes (or creates) the loader lock of   *)
(* its key, waits for it, looks again, loads and warms the model under a   *)
(* timeout, publishes it, and removes the loader lock from the map before  *)
(* its guard is dropped.  Each await of that function is a point where     *)
(* other tasks run, where the load timeout may expire (inside the timed    *)
(* block) and where the caller may drop the whole future; one action here  *)
(* is the code between two awaits.                                         *)
(*                                                                         *)
(* Loader locks and model instances are reference-counted (Arc): a lock or *)
(* an instance that nothing refers to any more is free to be "allocated"   *)
(* again, which keeps the model finite without bounding the behaviour.     *)
(***************************************************************************)
EXTENDS Naturals, FiniteSets

CONSTANTS
  Tasks,      \* tokio tasks that resolve models
  Keys,       \* ModelRuntimeKey values
  Locks,      \* identities of Arc<Mutex<()>>
  Instances,  \* identities of LoadedModelHandle
  Faulty,     \* the keys whose load may fail, fail to warm up, or time out
  CanCancel,  \* may a caller drop the future it awaits?
  None        \* Option::None

ASSUME NoneIsNothing == None \notin Keys \cup Locks \cup Instances
ASSUME FaultType == Faulty \subseteq Keys /\ CanCancel \in BOOLEAN

VARIABLES
  instances,    \* ModelRegistry::instances
  loaderLocks,  \* ModelRegistry::loader_locks
  pc,           \* where each task is in resolve_and_load_internal
  key,          \* its local `key`
  lock,         \* its local `lock`, the cloned Arc
  handle,       \* its local `handle`; what it returned once it is at rest
  warmed        \* history: the instances whose warmup returned Ok

locals == <<key, lock, handle>>
rvars == <<instances, loaderLocks, pc, key, lock, handle, warmed>>

(* A task at rest is not in the function: it has not called it ("idle"),   *)
(* it returned Ok or Err, or its future was dropped.                       *)
Rest == {"idle", "ok", "failed", "dropped"}
LoadSteps == {"loading", "warming", "publish"}
Guarded == {"check", "evict", "cleanup"} \cup LoadSteps
InFlight == {"enqueue", "waiting"} \cup Guarded

Holds(t) == pc[t] \in Guarded
InLoad(t) == pc[t] \in LoadSteps

Goto(t, l) == pc' = [pc EXCEPT ![t] = l]

FreeLocks ==
  {l \in Locks : /\ \A k \in Keys : loaderLocks[k] # l
                /\ \A t \in Tasks : lock[t] # l}
FreeInstances ==
  {i \in Instances : /\ \A k \in Keys : instances[k] # i
                    /\ \A t \in Tasks : handle[t] # i}

\* Arc::new: which of the free identities it gets makes no difference.
NewLock == CHOOSE l \in FreeLocks : TRUE
NewInstance == CHOOSE i \in FreeInstances : TRUE

(***************************************************************************)
(* ModelRegistry::default.                                                 *)
(***************************************************************************)
RInit ==
  /\ instances = [k \in Keys |-> None]
  /\ loaderLocks = [k \in Keys |-> None]
  /\ pc = [t \in Tasks |-> "idle"]
  /\ key = [t \in Tasks |-> None]
  /\ lock = [t \in Tasks |-> None]
  /\ handle = [t \in Tasks |-> None]
  /\ warmed = {}

(***************************************************************************)
(* The fast path: one read of `instances`.                                 *)
(***************************************************************************)
Request(t, k) ==
  /\ pc[t] = "idle"
  /\ key' = [key EXCEPT ![t] = k]
  /\ handle' = [handle EXCEPT ![t] = instances[k]]
  /\ Goto(t, IF instances[k] # None THEN "ok" ELSE "enqueue")
  /\ UNCHANGED <<instances, loaderLocks, lock, warmed>>

(***************************************************************************)
(* Get or insert the key's loader lock and clone the Arc.                  *)
(***************************************************************************)

\* Variant: every task brings a lock of its own.
EnqueueOwnLock(t) ==
  /\ pc[t] = "enqueue"
  /\ FreeLocks # {}
  /\ loaderLocks' = [loaderLocks EXCEPT ![key[t]] = NewLock]
  /\ lock' = [lock EXCEPT ![t] = NewLock]
  /\ Goto(t, "waiting")
  /\ UNCHANGED <<instances, key, handle, warmed>>

Enqueue(t) ==
  /\ pc[t] = "enqueue"
  /\ \/ /\ loaderLocks[key[t]] # None
        /\ lock' = [lock EXCEPT ![t] = loaderLocks[key[t]]]
        /\ UNCHANGED loaderLocks
     \/ /\ loaderLocks[key[t]] = None
        /\ FreeLocks # {}
        /\ lock' = [lock EXCEPT ![t] = NewLock]
        /\ loaderLocks' = [loaderLocks EXCEPT ![key[t]] = NewLock]
  /\ Goto(t, "waiting")
  /\ UNCHANGED <<instances, key, handle, warmed>>

Acquire(t) ==
  /\ pc[t] = "waiting"
  /\ \A u \in Tasks : Holds(u) => lock[u] # lock[t]
  /\ Goto(t, "check")
  /\ UNCHANGED <<instances, loaderLocks, locals, warmed>>

(***************************************************************************)
(* The double check.  A hit keeps the read guard of `instances` while the  *)
(* task waits for loader_locks ("evict"), then removes the key and returns *)
(* what it read; a miss goes on to load.                                   *)
(***************************************************************************)

\* Variant: no second look at the registry, the task loads at once.
CheckSkipped(t) ==
  /\ pc[t] = "check"
  /\ Goto(t, "loading")
  /\ UNCHANGED <<instances, loaderLocks, locals, warmed>>

Check(t) ==
  /\ pc[t] = "check"
  /\ handle' = [handle EXCEPT ![t] = instances[key[t]]]
  /\ Goto(t, IF instances[key[t]] # None THEN "evict" ELSE "loading")
  /\ UNCHANGED <<instances, loaderLocks, key, lock, warmed>>

\* Variant: the early return forgets the loader lock map.
EvictForgotten(t) ==
  /\ pc[t] = "evict"
  /\ lock' = [lock EXCEPT ![t] = None]
  /\ Goto(t, "ok")
  /\ UNCHANGED <<instances, loaderLocks, key, handle, warmed>>

Evict(t) ==
  /\ pc[t] = "evict"
  /\ loaderLocks' = [loaderLocks EXCEPT ![key[t]] = None]
  /\ lock' = [lock EXCEPT ![t] = None]
  /\ Goto(t, "ok")
  /\ UNCHANGED <<instances, key, handle, warmed>>

(***************************************************************************)
(* The timed block: provider.load, warmup, publication.                    *)
(***************************************************************************)
LoadAs(t, i) ==
  /\ pc[t] = "loading"
  /\ handle' = [handle EXCEPT ![t] = i]
  /\ warmed' = warmed \ {i}
  /\ Goto(t, "warming")
  /\ UNCHANGED <<instances, loaderLocks, key, lock>>

LoadOk(t) == FreeInstances # {} /\ LoadAs(t, NewInstance)

LoadErr(t) ==
  /\ key[t] \in Faulty
  /\ pc[t] = "loading"
  /\ Goto(t, "cleanup")
  /\ UNCHANGED <<instances, loaderLocks, locals, warmed>>

WarmOk(t) ==
  /\ pc[t] = "warming"
  /\ warmed' = warmed \cup {handle[t]}
  /\ Goto(t, "publish")
  /\ UNCHANGED <<instances, loaderLocks, locals>>

\* Variant: a failed warmup is logged and the model published all the same.
WarmErrIgnored(t) ==
  /\ key[t] \in Faulty
  /\ pc[t] = "warming"
  /\ Goto(t, "publish")
  /\ UNCHANGED <<instances, loaderLocks, locals, warmed>>

WarmErr(t) ==
  /\ key[t] \in Faulty
  /\ pc[t] = "warming"
  /\ handle' = [handle EXCEPT ![t] = None]
  /\ Goto(t, "cleanup")
  /\ UNCHANGED <<instances, loaderLocks, key, lock, warmed>>

\* `instances.write()` waits for the read guards held across an await.
Publish(t) ==
  /\ pc[t] = "publish"
  /\ \A u \in Tasks : pc[u] # "evict"
  /\ instances' = [instances EXCEPT ![key[t]] = handle[t]]
  /\ Goto(t, "cleanup")
  /\ UNCHANGED <<loaderLocks, locals, warmed>>

\* The timeout drops the block at whichever await it has reached.
Timeout(t) ==
  /\ key[t] \in Faulty
  /\ InLoad(t)
  /\ handle' = [handle EXCEPT ![t] = None]
  /\ Goto(t, "cleanup")
  /\ UNCHANGED <<instances, loaderLocks, key, lock, warmed>>

(***************************************************************************)
(* Remove the key's loader lock, whoever put it there, drop the guard and  *)
(* return.  Waiters keep their clone of the lock.                          *)
(***************************************************************************)

Cleanup(t) ==
  /\ pc[t] = "cleanup"
  /\ loaderLocks' = [loaderLocks EXCEPT ![key[t]] = None]
  /\ lock' = [lock EXCEPT ![t] = None]
  /\ Goto(t, IF handle[t] # None THEN "ok" ELSE "failed")
  /\ UNCHANGED <<instances, key, handle, warmed>>

(***************************************************************************)
(* The caller drops the future: the guard and the Arc go, nothing else     *)
(* runs, so the loader lock stays in the map.                              *)
(***************************************************************************)
Cancel(t) ==
  /\ CanCancel
  /\ pc[t] \in InFlight
  /\ lock' = [lock EXCEPT ![t] = None]
  /\ handle' = [handle EXCEPT ![t] = None]
  /\ Goto(t, "dropped")
  /\ UNCHANGED <<instances, loaderLocks, key, warmed>>

\* The caller has taken the result; the function's locals are gone.
Return(t) ==
  /\ pc[t] \in Rest \ {"idle"}
  /\ key' = [key EXCEPT ![t] = None]
  /\ handle' = [handle EXCEPT ![t] = None]
  /\ Goto(t, "idle")
  /\ UNCHANGED <<instances, loaderLocks, lock, warmed>>

Load(t) ==
  LoadOk(t) \/ LoadErr(t) \/ WarmOk(t) \/ WarmErr(t) \/ Publish(t) \/ Timeout(t)

Step(t) ==
  Enqueue(t) \/ Acquire(t) \/ Check(t) \/ Evict(t) \/ Load(t) \/ Cleanup(t)

RNext ==
  \E t \in Tasks :
    \/ \E k \in Keys : Request(t, k)
    \/ Step(t)
    \/ Cancel(t)
    \/ Return(t)

RSpec == RInit /\ [][RNext]_rvars

-----------------------------------------------------------------------------
(* Properties *)

RTypeOK ==
  /\ instances \in [Keys -> Instances \cup {None}]
  /\ loaderLocks \in [Keys -> Locks \cup {None}]
  /\ pc \in [Tasks -> Rest \cup InFlight]
  /\ key \in [Tasks -> Keys \cup {None}]
  /\ lock \in [Tasks -> Locks \cup {None}]
  /\ handle \in [Tasks -> Instances \cup {None}]
  /\ warmed \subseteq Instances

(* "Per-key mutexes to prevent concurrent loads of the same model": no two *)
(* tasks are inside the load of one key at the same time.                  *)
LoadedAlone(k) ==
  \A t, u \in Tasks :
    InLoad(t) /\ InLoad(u) /\ key[t] = k /\ key[u] = k => t = u

SingleLoader == \A k \in Keys : LoadedAlone(k)

(* The same, of the keys whose loads succeed: failures of other keys, and  *)
(* callers that drop their futures, do not make them load twice.           *)
Reliable == Keys \ Faulty
SingleReliableLoader == \A k \in Reliable : LoadedAlone(k)

(* Aliases with one runtime key share one loaded instance: whoever got a   *)
(* handle for a reliable key got the instance the registry holds for it.   *)
SharedInstance ==
  \A t \in Tasks : pc[t] = "ok" /\ key[t] \in Reliable =>
    handle[t] = instances[key[t]]

(* A model that failed to warm up, or whose load timed out or was dropped  *)
(* half way, is neither registered nor handed out.                         *)
OnlyWarmModels ==
  /\ \A k \in Keys : instances[k] # None => instances[k] \in warmed
  /\ \A t \in Tasks : pc[t] = "ok" => handle[t] \in warmed

(* "Bound loader lock map growth": unless a caller drops its future, a     *)
(* lock is in the map only while some task that will remove it is still    *)
(* resolving that key.                                                     *)
LockMapBounded ==
  CanCancel \/ \A k \in Keys : loaderLocks[k] # None =>
    \E t \in Tasks : pc[t] \in InFlight \ {"enqueue"} /\ key[t] = k

(* On its reliable keys the registry implements LoadOnce: its cells are    *)
(* the registered instances, and a task is served what the function        *)
(* returned to it.                                                         *)
Once == INSTANCE LoadOnce WITH
  Keys <- Reliable,
  cell <- [k \in Reliable |-> instances[k]],
  served <- [t \in Tasks |-> IF pc[t] = "ok" /\ key[t] \in Reliable
                                THEN handle[t] ELSE None]

ImplementsLoadOnce == Once!OSpec

=============================================================================
