------------------------ MODULE ModelRegistryProofs ------------------------
(***************************************************************************)
(* Theorems of ModelRegistry, for any tasks, keys, locks and instances.    *)
(*                                                                         *)
(* BaseInv holds whatever fails: the loader locks exclude, and only models *)
(* that warmed up circulate.  That a key is loaded by one task at a time   *)
(* needs more: while it is not registered, all its tasks must queue for    *)
(* the one lock that is in the map (OneQueue).  A failed load breaks       *)
(* exactly that, since it takes the lock out of the map and leaves the key *)
(* unregistered, so OneQueue is shown of the reliable keys, whatever       *)
(* happens to the others.  A dropped caller leaves the lock where it is,   *)
(* so dropping is harmless here.                                           *)
(***************************************************************************)
EXTENDS ModelRegistry, TLAPS

USE NoneIsNothing, FaultType

(* Locals are set when, and as long as, the code has them. *)
LocalsOK ==
  \A t \in Tasks :
    /\ pc[t] \in InFlight \cup {"ok"} => key[t] \in Keys
    /\ pc[t] \in Guarded \cup {"waiting"} => lock[t] \in Locks
    /\ pc[t] \in {"warming", "publish", "evict", "ok"} =>
         handle[t] \in Instances
    /\ pc[t] = "loading" => handle[t] = None

(* A loader lock has one holder. *)
Exclusion ==
  \A t, u \in Tasks : Holds(t) /\ Holds(u) /\ lock[t] = lock[u] => t = u

(* What is about to be published, returned or read has warmed up. *)
WarmInFlight ==
  \A t \in Tasks :
    /\ pc[t] \in {"publish", "evict"} => handle[t] \in warmed
    /\ pc[t] = "cleanup" /\ handle[t] # None => handle[t] \in warmed

BaseInv ==
  RTypeOK /\ LocalsOK /\ Exclusion /\ WarmInFlight /\ OnlyWarmModels

-----------------------------------------------------------------------------

(* Arc::new returns an identity that nothing refers to. *)
LEMMA NewLockIsFree == FreeLocks # {} => NewLock \in FreeLocks
  BY DEF NewLock

(* Which free instance a load returns makes no difference to the registry. *)
(* RNext takes one; everything below holds of AnyNext, which takes any, as *)
(* ModelRuntime does when wrappers keep instances alive.                   *)
AnyNext == RNext \/ \E t \in Tasks, i \in FreeInstances : LoadAs(t, i)

AnySpec == RInit /\ [][AnyNext]_rvars

LEMMA SpecIsAnySpec == RSpec => AnySpec
<1>1. [RNext]_rvars => [AnyNext]_rvars
  BY DEF AnyNext
<1>. QED
  BY <1>1, PTL DEF RSpec, AnySpec

LEMMA LoadOkIsLoadAs ==
  ASSUME NEW t \in Tasks, LoadOk(t)
  PROVE  \E i \in FreeInstances : LoadAs(t, i)
  BY DEF LoadOk, NewInstance

LEMMA BaseInit == RInit => BaseInv
<1> SUFFICES ASSUME RInit PROVE BaseInv
  OBVIOUS
<1> USE DEF RInit, Rest, InFlight, Guarded, LoadSteps
<1>1. RTypeOK
  BY DEF RTypeOK
<1>2. LocalsOK /\ Exclusion /\ WarmInFlight /\ OnlyWarmModels
  BY DEF LocalsOK, Exclusion, WarmInFlight, OnlyWarmModels, Holds
<1>. QED
  BY <1>1, <1>2 DEF BaseInv

LEMMA TypeStep == RTypeOK /\ LocalsOK /\ [AnyNext]_rvars => RTypeOK'
<1> SUFFICES ASSUME RTypeOK, LocalsOK, [AnyNext]_rvars PROVE RTypeOK'
  OBVIOUS
<1> USE DEF RTypeOK, LocalsOK, Rest, InFlight, Guarded, LoadSteps, Goto, locals
<1>1. ASSUME NEW t \in Tasks, NEW k \in Keys, Request(t, k) PROVE RTypeOK'
  BY <1>1 DEF Request
<1>2. ASSUME NEW t \in Tasks, Enqueue(t) PROVE RTypeOK'
  <2>1. CASE loaderLocks[key[t]] # None
    BY <1>2, <2>1 DEF Enqueue
  <2>2. CASE loaderLocks[key[t]] = None
    <3>1. NewLock \in Locks
      BY <1>2, <2>2, NewLockIsFree DEF Enqueue, FreeLocks
    <3>. QED
      BY <1>2, <2>2, <3>1 DEF Enqueue
  <2>. QED
    BY <2>1, <2>2
<1>3. ASSUME NEW t \in Tasks, Acquire(t) \/ Check(t) \/ Evict(t) \/ Cleanup(t)
      PROVE RTypeOK'
  BY <1>3 DEF Acquire, Check, Evict, Cleanup
<1>4. ASSUME NEW t \in Tasks, NEW i \in FreeInstances, LoadAs(t, i)
      PROVE RTypeOK'
  BY <1>4 DEF LoadAs, FreeInstances
<1>5. ASSUME NEW t \in Tasks,
             LoadErr(t) \/ WarmOk(t) \/ WarmErr(t) \/ Publish(t) \/ Timeout(t)
      PROVE RTypeOK'
  BY <1>5 DEF LoadErr, WarmOk, WarmErr, Publish, Timeout, InLoad
<1>6. ASSUME NEW t \in Tasks, Cancel(t) \/ Return(t) PROVE RTypeOK'
  BY <1>6 DEF Cancel, Return
<1>7. CASE UNCHANGED rvars
  BY <1>7 DEF rvars
<1>. QED
  BY <1>1, <1>2, <1>3, <1>4, <1>5, <1>6, <1>7, LoadOkIsLoadAs
     DEF AnyNext, RNext, Step, Load

LEMMA LocalsStep == RTypeOK /\ LocalsOK /\ [AnyNext]_rvars => LocalsOK'
<1> SUFFICES ASSUME RTypeOK, LocalsOK, [AnyNext]_rvars PROVE LocalsOK'
  OBVIOUS
<1> USE DEF RTypeOK, LocalsOK, Rest, InFlight, Guarded, LoadSteps, Goto, locals
<1>1. ASSUME NEW t \in Tasks, NEW k \in Keys, Request(t, k) PROVE LocalsOK'
  BY <1>1 DEF Request
<1>2. ASSUME NEW t \in Tasks, Enqueue(t) PROVE LocalsOK'
  <2>1. CASE loaderLocks[key[t]] # None
    BY <1>2, <2>1 DEF Enqueue
  <2>2. CASE loaderLocks[key[t]] = None
    <3>1. NewLock \in Locks
      BY <1>2, <2>2, NewLockIsFree DEF Enqueue, FreeLocks
    <3>. QED
      BY <1>2, <2>2, <3>1 DEF Enqueue
  <2>. QED
    BY <2>1, <2>2
<1>3. ASSUME NEW t \in Tasks, Acquire(t) PROVE LocalsOK'
  BY <1>3 DEF Acquire
<1>4. ASSUME NEW t \in Tasks, Check(t) PROVE LocalsOK'
  BY <1>4 DEF Check
<1>5. ASSUME NEW t \in Tasks, Evict(t) \/ Cleanup(t) PROVE LocalsOK'
  BY <1>5 DEF Evict, Cleanup
<1>6. ASSUME NEW t \in Tasks, NEW i \in FreeInstances, LoadAs(t, i)
      PROVE LocalsOK'
  BY <1>6 DEF LoadAs, FreeInstances
<1>7. ASSUME NEW t \in Tasks,
             LoadErr(t) \/ WarmOk(t) \/ WarmErr(t) \/ Publish(t) \/ Timeout(t)
      PROVE LocalsOK'
  BY <1>7 DEF LoadErr, WarmOk, WarmErr, Publish, Timeout, InLoad
<1>8. ASSUME NEW t \in Tasks, Cancel(t) \/ Return(t) PROVE LocalsOK'
  BY <1>8 DEF Cancel, Return
<1>9. CASE UNCHANGED rvars
  BY <1>9 DEF rvars
<1>. QED
  BY <1>1, <1>2, <1>3, <1>4, <1>5, <1>6, <1>7, <1>8, <1>9, LoadOkIsLoadAs
     DEF AnyNext, RNext, Step, Load

(* Only Acquire makes a task a holder, and it looks at all the others. *)
LEMMA ExclusionStep ==
  RTypeOK /\ Exclusion /\ [AnyNext]_rvars => Exclusion'
<1> SUFFICES ASSUME RTypeOK, Exclusion, [AnyNext]_rvars PROVE Exclusion'
  OBVIOUS
<1> USE DEF RTypeOK, Exclusion, Holds, Rest, InFlight, Guarded, LoadSteps,
            Goto, locals
<1>1. ASSUME NEW t \in Tasks, NEW k \in Keys, Request(t, k) PROVE Exclusion'
  BY <1>1 DEF Request
<1>2. ASSUME NEW t \in Tasks, Enqueue(t) PROVE Exclusion'
  <2>1. /\ pc' = [pc EXCEPT ![t] = "waiting"]
        /\ \A u \in Tasks : u # t => lock'[u] = lock[u]
    BY <1>2 DEF Enqueue
  <2>. QED
    BY <2>1
<1>3. ASSUME NEW t \in Tasks, Acquire(t) PROVE Exclusion'
  BY <1>3 DEF Acquire
<1>4. ASSUME NEW t \in Tasks, Check(t) PROVE Exclusion'
  BY <1>4 DEF Check
<1>5. ASSUME NEW t \in Tasks,
             Evict(t) \/ Cleanup(t) \/ Cancel(t) \/ Return(t)
      PROVE Exclusion'
  BY <1>5 DEF Evict, Cleanup, Cancel, Return
<1>6. ASSUME NEW t \in Tasks, NEW i \in FreeInstances, LoadAs(t, i)
      PROVE Exclusion'
  BY <1>6 DEF LoadAs
<1>6a. ASSUME NEW t \in Tasks, Load(t) PROVE Exclusion'
  BY <1>6a DEF Load, LoadOk, LoadAs, LoadErr, WarmOk, WarmErr, Publish,
               Timeout, InLoad
<1>7. CASE UNCHANGED rvars
  BY <1>7 DEF rvars
<1>. QED
  BY <1>1, <1>2, <1>3, <1>4, <1>5, <1>6, <1>6a, <1>7
     DEF AnyNext, RNext, Step

(* A new instance is none of those in circulation, so recording that it is *)
(* cold takes the warmth of none of them away.                             *)
LEMMA WarmStep ==
  RTypeOK /\ LocalsOK /\ WarmInFlight /\ OnlyWarmModels /\ [AnyNext]_rvars
    => WarmInFlight' /\ OnlyWarmModels'
<1> SUFFICES ASSUME RTypeOK, LocalsOK, WarmInFlight, OnlyWarmModels,
                    [AnyNext]_rvars
             PROVE WarmInFlight' /\ OnlyWarmModels'
  OBVIOUS
<1> USE DEF RTypeOK, WarmInFlight, OnlyWarmModels, Rest, InFlight, Guarded,
            LoadSteps, Goto, locals
<1> DEFINE Goal == WarmInFlight' /\ OnlyWarmModels'
<1>1. ASSUME NEW t \in Tasks, NEW k \in Keys, Request(t, k) PROVE Goal
  BY <1>1 DEF Request
<1>2. ASSUME NEW t \in Tasks, Enqueue(t) \/ Acquire(t) PROVE Goal
  BY <1>2 DEF Enqueue, Acquire
<1>3. ASSUME NEW t \in Tasks, Check(t) PROVE Goal
  <2>1. key[t] \in Keys
    BY <1>3 DEF Check, LocalsOK
  <2>. QED
    BY <1>3, <2>1 DEF Check
<1>4. ASSUME NEW t \in Tasks,
             Evict(t) \/ Cleanup(t) \/ Cancel(t) \/ Return(t)
      PROVE Goal
  BY <1>4 DEF Evict, Cleanup, Cancel, Return
<1>5. ASSUME NEW t \in Tasks, NEW i \in FreeInstances, LoadAs(t, i)
      PROVE Goal
  <2>1. /\ \A k \in Keys : instances[k] # i
        /\ \A u \in Tasks : handle[u] # i
    BY <1>5 DEF FreeInstances
  <2>. QED
    BY <1>5, <2>1 DEF LoadAs
<1>6. ASSUME NEW t \in Tasks, LoadErr(t) PROVE Goal
  <2>1. handle[t] = None
    BY <1>6 DEF LoadErr, LocalsOK
  <2>. QED
    BY <1>6, <2>1 DEF LoadErr
<1>7. ASSUME NEW t \in Tasks, WarmOk(t) PROVE Goal
  BY <1>7 DEF WarmOk
<1>8. ASSUME NEW t \in Tasks, WarmErr(t) \/ Timeout(t) PROVE Goal
  BY <1>8 DEF WarmErr, Timeout, InLoad
<1>9. ASSUME NEW t \in Tasks, Publish(t) PROVE Goal
  <2>1. key[t] \in Keys /\ handle[t] \in warmed
    BY <1>9 DEF Publish, LocalsOK
  <2>. QED
    BY <1>9, <2>1 DEF Publish
<1>10. CASE UNCHANGED rvars
  BY <1>10 DEF rvars
<1>. QED
  BY <1>1, <1>2, <1>3, <1>4, <1>5, <1>6, <1>7, <1>8, <1>9, <1>10,
     LoadOkIsLoadAs DEF AnyNext, RNext, Step, Load

LEMMA BaseStep == BaseInv /\ [AnyNext]_rvars => BaseInv'
  BY TypeStep, LocalsStep, ExclusionStep, WarmStep DEF BaseInv

LEMMA BaseInvariance == AnySpec => []BaseInv
  BY BaseInit, BaseStep, PTL DEF AnySpec

-----------------------------------------------------------------------------

(* The registry's state and every task's locals keep their types.          *)
THEOREM RegistryTypeCorrect == RSpec => []RTypeOK
  BY BaseInvariance, SpecIsAnySpec, PTL DEF BaseInv

(* Whatever fails, times out or is dropped, a model that did not finish    *)
(* its warmup is neither registered nor handed out.                        *)
THEOREM ModelsAreWarm == RSpec => []OnlyWarmModels
  BY BaseInvariance, SpecIsAnySpec, PTL DEF BaseInv

-----------------------------------------------------------------------------

(* A lock is in the map only while a task that will remove it is on its    *)
(* way: the task that inserted it, or one that found it there.             *)
LEMMA MapStep ==
  ASSUME ~CanCancel, BaseInv, LockMapBounded, [AnyNext]_rvars
  PROVE  LockMapBounded'
<1> USE DEF BaseInv, RTypeOK, LockMapBounded, Rest, InFlight, Guarded,
            LoadSteps, Goto, locals
<1>1. ASSUME NEW t \in Tasks, NEW k \in Keys, Request(t, k)
      PROVE LockMapBounded'
  BY <1>1 DEF Request
<1>2. ASSUME NEW t \in Tasks, Enqueue(t) PROVE LockMapBounded'
  <2>1. key[t] \in Keys
    BY <1>2 DEF Enqueue, LocalsOK
  <2>. QED
    BY <1>2, <2>1 DEF Enqueue
<1>3. ASSUME NEW t \in Tasks, Acquire(t) \/ Check(t) PROVE LockMapBounded'
  BY <1>3 DEF Acquire, Check
<1>4. ASSUME NEW t \in Tasks, Evict(t) \/ Cleanup(t) PROVE LockMapBounded'
  <2>1. /\ loaderLocks' = [loaderLocks EXCEPT ![key[t]] = None]
        /\ key' = key
        /\ \A u \in Tasks : u # t => pc'[u] = pc[u]
    BY <1>4 DEF Evict, Cleanup
  <2>2. SUFFICES ASSUME NEW k \in Keys, loaderLocks'[k] # None
                 PROVE \E u \in Tasks :
                         pc'[u] \in InFlight \ {"enqueue"} /\ key'[u] = k
    OBVIOUS
  <2>3. key[t] # k /\ loaderLocks[k] # None
    BY <2>1, <2>2
  <2>4. PICK u \in Tasks : pc[u] \in InFlight \ {"enqueue"} /\ key[u] = k
    BY <2>3
  <2>. QED
    BY <2>1, <2>3, <2>4
<1>5. ASSUME NEW t \in Tasks,
             LoadErr(t) \/ WarmOk(t) \/ WarmErr(t) \/ Publish(t) \/ Timeout(t)
      PROVE LockMapBounded'
  BY <1>5 DEF LoadErr, WarmOk, WarmErr, Publish, Timeout, InLoad
<1>6. ASSUME NEW t \in Tasks, NEW i \in FreeInstances, LoadAs(t, i)
      PROVE LockMapBounded'
  BY <1>6 DEF LoadAs
<1>7. ASSUME NEW t \in Tasks, Return(t) PROVE LockMapBounded'
  BY <1>7 DEF Return
<1>8. CASE UNCHANGED rvars
  BY <1>8 DEF rvars
<1>. QED
  BY <1>1, <1>2, <1>3, <1>4, <1>5, <1>6, <1>7, <1>8, LoadOkIsLoadAs
     DEF AnyNext, RNext, Step, Load, Cancel

LEMMA MapInvariance == AnySpec => []LockMapBounded
<1>1. RInit => LockMapBounded
  BY DEF RInit, LockMapBounded
<1>2. ASSUME BaseInv, LockMapBounded, [AnyNext]_rvars PROVE LockMapBounded'
  <2>1. CASE CanCancel
    BY <2>1 DEF LockMapBounded
  <2>2. CASE ~CanCancel
    BY <1>2, <2>2, MapStep
  <2>. QED
    BY <2>1, <2>2
<1>. QED
  BY <1>1, <1>2, BaseInvariance, PTL DEF AnySpec

(* The loader lock map does not grow beyond the keys being resolved, loads *)
(* that fail or time out included.                                         *)
THEOREM LockMapIsBounded == RSpec => []LockMapBounded
  BY MapInvariance, SpecIsAnySpec, PTL

-----------------------------------------------------------------------------

(* While a reliable key is unregistered its tasks share the lock that is   *)
(* in the map; a task past a successful load or a hit sees the key         *)
(* registered, and what it has in hand is what is registered.              *)
OneQueue ==
  \A t \in Tasks : key[t] \in Reliable =>
    /\ pc[t] \in {"waiting", "check"} \cup LoadSteps
         /\ instances[key[t]] = None => loaderLocks[key[t]] = lock[t]
    /\ InLoad(t) => instances[key[t]] = None
    /\ pc[t] \in {"evict", "cleanup", "ok"} =>
         instances[key[t]] # None /\ handle[t] = instances[key[t]]

(* Tasks in the load of one key hold the lock in the map: they are one.    *)
LEMMA QueueExcludes == BaseInv /\ OneQueue => SingleReliableLoader
  BY DEF BaseInv, Exclusion, OneQueue, SingleReliableLoader, LoadedAlone, InLoad, Holds, Guarded,
         LoadSteps

LEMMA QueueShares == OneQueue => SharedInstance
  BY DEF OneQueue, SharedInstance

LEMMA QueueStep ==
  ASSUME BaseInv, OneQueue, [AnyNext]_rvars
  PROVE  OneQueue'
<1> USE DEF BaseInv, RTypeOK, OneQueue, Reliable, Rest, InFlight, Guarded,
            LoadSteps, InLoad, Goto, locals
<1>1. ASSUME NEW t \in Tasks, NEW k \in Keys, Request(t, k) PROVE OneQueue'
  BY <1>1 DEF Request
<1>2. ASSUME NEW t \in Tasks, Enqueue(t) PROVE OneQueue'
  <2>1. key[t] \in Keys
    BY <1>2 DEF Enqueue, LocalsOK
  <2>2. CASE loaderLocks[key[t]] # None
    BY <1>2, <2>1, <2>2 DEF Enqueue
  <2>3. CASE loaderLocks[key[t]] = None
    <3>1. ASSUME NEW u \in Tasks, u # t, key[u] \in Reliable,
                 pc[u] \in {"waiting", "check"} \cup LoadSteps,
                 instances[key[u]] = None
          PROVE key[u] # key[t]
      <4>1. lock[u] \in Locks
        BY <3>1 DEF LocalsOK
      <4>2. loaderLocks[key[u]] = lock[u]
        BY <3>1
      <4>. QED
        BY <2>3, <4>1, <4>2
    <3>2. /\ pc' = [pc EXCEPT ![t] = "waiting"]
          /\ lock' = [lock EXCEPT ![t] = NewLock]
          /\ loaderLocks' = [loaderLocks EXCEPT ![key[t]] = NewLock]
          /\ UNCHANGED <<instances, key, handle>>
      BY <1>2, <2>3 DEF Enqueue
    <3>. QED
      BY <2>1, <3>1, <3>2
  <2>. QED
    BY <2>2, <2>3
<1>3. ASSUME NEW t \in Tasks, Acquire(t) PROVE OneQueue'
  BY <1>3 DEF Acquire
<1>4. ASSUME NEW t \in Tasks, Check(t) PROVE OneQueue'
  BY <1>4 DEF Check
<1>5. ASSUME NEW t \in Tasks, Evict(t) \/ Cleanup(t) PROVE OneQueue'
  <2>1. /\ pc[t] \in {"evict", "cleanup"}
        /\ lock' = [lock EXCEPT ![t] = None]
        /\ loaderLocks' = [loaderLocks EXCEPT ![key[t]] = None]
        /\ UNCHANGED <<instances, key, handle>>
    BY <1>5 DEF Evict, Cleanup
  <2>2. key[t] \in Keys
    BY <2>1 DEF LocalsOK
  <2>3. key[t] \in Reliable =>
          instances[key[t]] # None /\ handle[t] = instances[key[t]]
    BY <2>1
  <2>4. ASSUME NEW u \in Tasks, key[u] \in Reliable, instances[key[u]] = None
        PROVE key[u] # key[t]
    BY <2>3, <2>4
  <2>5. \/ pc' = [pc EXCEPT ![t] = "ok"]
        \/ pc' = [pc EXCEPT ![t] = "failed"]
    BY <1>5 DEF Evict, Cleanup
  <2>. QED
    BY <2>1, <2>2, <2>3, <2>4, <2>5
<1>6. ASSUME NEW t \in Tasks, NEW i \in FreeInstances, LoadAs(t, i)
      PROVE OneQueue'
  BY <1>6 DEF LoadAs
<1>w. ASSUME NEW t \in Tasks, WarmOk(t) PROVE OneQueue'
  BY <1>w DEF WarmOk
<1>f. ASSUME NEW t \in Tasks, LoadErr(t) \/ WarmErr(t) \/ Timeout(t)
      PROVE OneQueue'
  <2>1. /\ key[t] \notin Reliable
        /\ pc' = [pc EXCEPT ![t] = "cleanup"]
        /\ \A u \in Tasks : u # t => handle'[u] = handle[u]
        /\ UNCHANGED <<instances, loaderLocks, key, lock>>
    BY <1>f DEF LoadErr, WarmErr, Timeout
  <2>. QED
    BY <2>1
<1>7. ASSUME NEW t \in Tasks, Publish(t) PROVE OneQueue'
  <2>1. /\ key[t] \in Keys /\ handle[t] # None
        /\ key[t] \in Reliable => instances[key[t]] = None
    BY <1>7 DEF Publish, LocalsOK
  <2>2. ASSUME NEW u \in Tasks, InLoad(u), key[u] = key[t],
               key[t] \in Reliable
        PROVE u = t
    BY <1>7, <2>2, QueueExcludes
       DEF Publish, SingleReliableLoader, LoadedAlone
  <2>3. /\ pc' = [pc EXCEPT ![t] = "cleanup"]
        /\ instances' = [instances EXCEPT ![key[t]] = handle[t]]
        /\ UNCHANGED <<loaderLocks, key, lock, handle>>
    BY <1>7 DEF Publish
  <2>. QED
    BY <1>7, <2>1, <2>2, <2>3 DEF Publish
<1>8. ASSUME NEW t \in Tasks, Cancel(t) \/ Return(t) PROVE OneQueue'
  BY <1>8 DEF Cancel, Return
<1>9. CASE UNCHANGED rvars
  BY <1>9 DEF rvars
<1>. QED
  BY <1>1, <1>2, <1>3, <1>4, <1>5, <1>6, <1>w, <1>f, <1>7, <1>8, <1>9,
     LoadOkIsLoadAs DEF AnyNext, RNext, Step, Load

LEMMA QueueInvariance == AnySpec => [](BaseInv /\ OneQueue)
<1>1. RInit => OneQueue
  BY DEF RInit, OneQueue, InLoad, LoadSteps
<1>2. ASSUME BaseInv, OneQueue, [AnyNext]_rvars PROVE OneQueue'
  BY <1>2, QueueStep
<1>. QED
  BY <1>1, <1>2, BaseInvariance, PTL DEF AnySpec

(* No two tasks ever load a reliable key at the same time, however many    *)
(* ask for it at once, whoever drops its request and whatever becomes of   *)
(* the loads of other keys.                                                *)
THEOREM LoadsAreSingle == RSpec => []SingleReliableLoader
  BY QueueInvariance, QueueExcludes, SpecIsAnySpec, PTL

(* ... and everybody who asked for one got the one registered instance.    *)
THEOREM InstancesAreShared == RSpec => []SharedInstance
  BY QueueInvariance, QueueShares, SpecIsAnySpec, PTL

-----------------------------------------------------------------------------

(* The refinement of LoadOnce. *)
Cell == [k \in Reliable |-> instances[k]]
Served ==
  [t \in Tasks |-> IF pc[t] = "ok" /\ key[t] \in Reliable
                     THEN handle[t] ELSE None]

LEMMA OnceInit == RInit => Once!OInit
<1> SUFFICES ASSUME RInit PROVE Cell = [k \in Reliable |-> None]
                              /\ Served = [t \in Tasks |-> None]
  BY DEF Once!OInit, Cell, Served
<1>. QED
  BY DEF RInit, Cell, Served, Reliable

(* One step of the registry, in the words of LoadOnce. *)
OnceAsks(t) == Cell' = Cell /\ Served' = [Served EXCEPT ![t] = None]
OnceServes(t, k) ==
  /\ Cell[k] # None
  /\ Cell' = Cell
  /\ Served' = [Served EXCEPT ![t] = Cell[k]]
OnceFills(k, i) ==
  /\ Cell[k] = None
  /\ Cell' = [Cell EXCEPT ![k] = i]
  /\ Served' = Served
OnceStutters == Cell' = Cell /\ Served' = Served

LEMMA InWordsOfLoadOnce ==
  ASSUME \/ OnceStutters
         \/ \E k \in Reliable, i \in Instances : OnceFills(k, i)
         \/ \E t \in Tasks :
              OnceAsks(t) \/ \E k \in Reliable : OnceServes(t, k)
  PROVE  [Once!ONext]_(Once!ovars)
<1>1. CASE OnceStutters
  BY <1>1 DEF OnceStutters, Once!ovars, Cell, Served
<1>2. ASSUME NEW k \in Reliable, NEW i \in Instances, OnceFills(k, i)
      PROVE Once!ONext
  <2>1. Once!Fill(k, i)
    BY <1>2 DEF OnceFills, Once!Fill, Cell, Served
  <2>. QED
    BY <2>1 DEF Once!ONext
<1>3. ASSUME NEW t \in Tasks, OnceAsks(t) PROVE Once!ONext
  <2>1. Once!Ask(t)
    BY <1>3 DEF OnceAsks, Once!Ask, Cell, Served
  <2>. QED
    BY <2>1 DEF Once!ONext
<1>4. ASSUME NEW t \in Tasks, NEW k \in Reliable, OnceServes(t, k)
      PROVE Once!ONext
  <2>1. Once!Serve(t, k)
    BY <1>4 DEF OnceServes, Once!Serve, Cell, Served
  <2>. QED
    BY <2>1 DEF Once!ONext
<1>. QED
  BY <1>1, <1>2, <1>3, <1>4

LEMMA OnceStep ==
  ASSUME BaseInv, OneQueue, OneQueue', [AnyNext]_rvars
  PROVE  [Once!ONext]_(Once!ovars)
<1> DEFINE Goal ==
      \/ OnceStutters
      \/ \E k \in Reliable, i \in Instances : OnceFills(k, i)
      \/ \E t \in Tasks : OnceAsks(t) \/ \E k \in Reliable : OnceServes(t, k)
<1> USE DEF BaseInv, RTypeOK, Reliable, Goto, locals
<1>1. ASSUME NEW t \in Tasks, NEW k \in Keys, Request(t, k) PROVE Goal
  <2>0. Cell' = Cell
    BY <1>1 DEF Request, Cell
  <2>1. CASE instances[k] # None /\ k \in Reliable
    <3>1. Served' = [Served EXCEPT ![t] = instances[k]]
      BY <1>1, <2>1 DEF Request, Served
    <3>2. Cell[k] = instances[k]
      BY <2>1 DEF Cell
    <3>3. OnceServes(t, k)
      BY <2>0, <2>1, <3>1, <3>2 DEF OnceServes
    <3>. QED
      BY <2>1, <3>3
  <2>2. CASE instances[k] = None \/ k \notin Reliable
    <3>1. Served' = [Served EXCEPT ![t] = None]
      BY <1>1, <2>2 DEF Request, Served
    <3>. QED
      BY <2>0, <3>1 DEF OnceAsks
  <2>. QED
    BY <2>1, <2>2
<1>2. ASSUME NEW t \in Tasks,
             \/ Enqueue(t) \/ Acquire(t) \/ Check(t) \/ WarmOk(t)
             \/ LoadErr(t) \/ WarmErr(t) \/ Timeout(t)
      PROVE OnceStutters
  <2>1. Cell' = Cell
    BY <1>2 DEF Enqueue, Acquire, Check, WarmOk, LoadErr, WarmErr, Timeout,
                Cell
  <2>2. Served' = Served
    BY <1>2 DEF Enqueue, Acquire, Check, WarmOk, LoadErr, WarmErr, Timeout,
                InLoad, LoadSteps, Served
  <2>. QED
    BY <2>1, <2>2 DEF OnceStutters
<1>a. ASSUME NEW t \in Tasks, NEW i \in FreeInstances, LoadAs(t, i)
      PROVE OnceStutters
  BY <1>a DEF LoadAs, Served, Cell, OnceStutters
<1>3. ASSUME NEW t \in Tasks, Evict(t) \/ Cleanup(t) PROVE Goal
  <2>0. Cell' = Cell
    BY <1>3 DEF Evict, Cleanup, Cell
  <2>1. CASE key[t] \in Reliable
    <3>1. instances[key[t]] # None /\ handle[t] = instances[key[t]]
      BY <1>3, <2>1 DEF Evict, Cleanup, OneQueue
    <3>2. handle[t] # None
      BY <3>1
    <3>3. Served' = [Served EXCEPT ![t] = instances[key[t]]]
      BY <1>3, <2>1, <3>1, <3>2 DEF Evict, Cleanup, Served
    <3>4. Cell[key[t]] = instances[key[t]]
      BY <2>1 DEF Cell
    <3>5. OnceServes(t, key[t])
      BY <2>0, <3>1, <3>3, <3>4 DEF OnceServes
    <3>. QED
      BY <2>1, <3>5
  <2>2. CASE key[t] \notin Reliable
    <3>1. Served' = Served
      BY <1>3, <2>2 DEF Evict, Cleanup, Served
    <3>. QED
      BY <2>0, <3>1 DEF OnceStutters
  <2>. QED
    BY <2>1, <2>2
<1>4. ASSUME NEW t \in Tasks, Publish(t) PROVE Goal
  <2>1. key[t] \in Keys /\ handle[t] \in Instances
    BY <1>4 DEF Publish, LocalsOK, InFlight, Guarded, LoadSteps
  <2>2. Served' = Served
    BY <1>4 DEF Publish, Served
  <2>3. CASE key[t] \in Reliable
    <3>1. instances[key[t]] = None
      BY <1>4, <2>3 DEF Publish, OneQueue, InLoad, LoadSteps
    <3>2. Cell[key[t]] = None
      BY <2>3, <3>1 DEF Cell
    <3>3. Cell' = [Cell EXCEPT ![key[t]] = handle[t]]
      BY <1>4, <2>3 DEF Publish, Cell
    <3>4. OnceFills(key[t], handle[t])
      BY <2>2, <3>2, <3>3 DEF OnceFills
    <3>. QED
      BY <2>1, <2>3, <3>4
  <2>4. CASE key[t] \notin Reliable
    <3>1. Cell' = Cell
      BY <1>4, <2>4 DEF Publish, Cell
    <3>. QED
      BY <2>2, <3>1 DEF OnceStutters
  <2>. QED
    BY <2>3, <2>4
<1>5. ASSUME NEW t \in Tasks, Cancel(t) PROVE OnceStutters
  BY <1>5 DEF Cancel, Served, Cell, InFlight, Guarded, LoadSteps, OnceStutters
<1>6. ASSUME NEW t \in Tasks, Return(t) PROVE OnceAsks(t)
  <2>1. Cell' = Cell
    BY <1>6 DEF Return, Cell
  <2>2. Served' = [Served EXCEPT ![t] = None]
    BY <1>6 DEF Return, Served
  <2>. QED
    BY <2>1, <2>2 DEF OnceAsks
<1>7. ASSUME UNCHANGED rvars PROVE OnceStutters
  BY <1>7 DEF rvars, Served, Cell, OnceStutters
<1>8. Goal
  BY <1>1, <1>2, <1>a, <1>3, <1>4, <1>5, <1>6, <1>7, LoadOkIsLoadAs
     DEF AnyNext, RNext, Step, Load
<1>. QED
  BY <1>8, InWordsOfLoadOnce

LEMMA LoadsOnce == AnySpec => ImplementsLoadOnce
<1>1. ASSUME BaseInv, OneQueue, OneQueue', [AnyNext]_rvars
      PROVE [Once!ONext]_(Once!ovars)
  BY <1>1, OnceStep
<1>. QED
  BY <1>1, OnceInit, QueueInvariance, PTL
     DEF AnySpec, ImplementsLoadOnce, Once!OSpec

(* On its reliable keys the registry implements LoadOnce, callers that     *)
(* drop their requests and failing loads of other keys included: a key is  *)
(* filled once, never again, and every answer is its content.              *)
THEOREM RegistryLoadsOnce == RSpec => ImplementsLoadOnce
  BY LoadsOnce, SpecIsAnySpec, PTL

=============================================================================
