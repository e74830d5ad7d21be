------------------------------ MODULE LocalProofs ------------------------------
(***************************************************************************)
(* Theorems of LocalLoading and its parts, for any calls of a Candle       *)
(* model, any threads, graphs, shards and capacity of the label cache, and *)
(* any list of execution providers on any build; and of batches of raw     *)
(* tensors and of texts, and of the chunks of any WAV file.                *)
(***************************************************************************)
EXTENDS LocalLoading, WhisperAudio, SequenceProofs, FiniteSetTheorems

(***************************************************************************)
(* CandleModel.  LoadedOnce needs that a call past config.json has read an *)
(* architecture that is known: what it then builds is a model, not None.   *)
(***************************************************************************)
ConfigRead == \A c \in Calls : place[c] \in {"tokenizer", "weights"} => arch \in Known

CInv == CTypeOK /\ LoadedOnce /\ ConfigRead

Places == Loading \cup Ended \cup {"idle", "waiting", "waiting to embed"}

(* Nobody has called, nothing is loaded. *)
LEMMA CInitInv == CInit => CInv
BY DEF CInit, CInv, CTypeOK, LoadedOnce, ConfigRead, Loading, Ended

(* A call moves to one of the places. *)
LEMMA MoveType ==
  ASSUME CTypeOK, NEW c \in Calls, NEW p \in Places, To(c, p)
  PROVE  /\ place' \in [Calls -> Places] /\ place'[c] = p
         /\ \A d \in Calls \ {c} : place'[d] = place[d]
BY DEF CTypeOK, To, Places

(* Where ensure_loaded leaves a call. *)
LEMMA AfterLoadMoves ==
  ASSUME NEW c \in Calls, AfterLoad(c)
  PROVE  \E p \in {"answered", "waiting to embed"} : To(c, p)
BY DEF AfterLoad

(* A step that loads nothing, frees the mutex only from its own call and   *)
(* sends that call to a place outside of the load keeps the invariant.     *)
LEMMA LeaveKeeps ==
  ASSUME CInv, NEW c \in Calls, NEW p \in Places \ Loading, To(c, p),
         UNCHANGED <<arch, want, model, builds>>,
         holder' = holder \/ (place[c] \in Loading /\ holder' = None)
                          \/ (holder = c /\ holder' = None)
  PROVE  CInv'
<1>1. /\ place' \in [Calls -> Places] /\ place'[c] = p
      /\ \A d \in Calls \ {c} : place'[d] = place[d]
  BY MoveType DEF CInv
<1>2. CTypeOK'
  BY <1>1 DEF CInv, CTypeOK, Places
<1>3. ASSUME NEW d \in Calls, place'[d] \in Loading PROVE model' = None /\ holder' = d
  <2>1. d # c /\ place[d] \in Loading
    BY <1>1, <1>3
  <2>. QED
    BY <2>1 DEF CInv, LoadedOnce
<1>4. ConfigRead'
  BY <1>1 DEF CInv, ConfigRead, Loading
<1>. QED
  BY <1>2, <1>3, <1>4 DEF CInv, LoadedOnce

(* A step of the call that holds the mutex from one download to the next.  *)
LEMMA NextDownloadKeeps ==
  ASSUME CInv, NEW c \in Calls, place[c] \in Loading, arch \in Known,
         NEW p \in {"tokenizer", "weights"}, To(c, p),
         UNCHANGED <<arch, want, holder, model, builds>>
  PROVE  CInv'
<1>1. /\ place' \in [Calls -> Places] /\ place'[c] = p
      /\ \A d \in Calls \ {c} : place'[d] = place[d]
  BY MoveType DEF CInv, Places, Loading
<1>2. CTypeOK'
  BY <1>1 DEF CInv, CTypeOK, Places
<1>3. LoadedOnce'
  BY <1>1 DEF CInv, LoadedOnce
<1>4. ConfigRead'
  BY <1>1 DEF ConfigRead
<1>. QED
  BY <1>2, <1>3, <1>4 DEF CInv

(* The call that takes the mutex of a model that is not there. *)
LEMMA StartKeeps ==
  ASSUME CInv, NEW c \in Calls, holder = None, model = None,
         holder' = c, To(c, "config"), UNCHANGED <<arch, want, model, builds>>
  PROVE  CInv'
<1>1. /\ place' \in [Calls -> Places] /\ place'[c] = "config"
      /\ \A d \in Calls \ {c} : place'[d] = place[d]
  BY MoveType DEF CInv, Places, Loading
<1>2. \A d \in Calls : place[d] \notin Loading
  BY NoneIsNothing DEF CInv, LoadedOnce
<1>3. CTypeOK'
  BY <1>1 DEF CInv, CTypeOK, Places
<1>4. LoadedOnce' /\ ConfigRead'
  BY <1>1, <1>2 DEF CInv, LoadedOnce, ConfigRead, Loading
<1>. QED
  BY <1>3, <1>4 DEF CInv

(* The first model that is built is the only one. *)
LEMMA BuildsOne == builds = 0 /\ builds' = builds + 1 => builds' = 1
OBVIOUS

(* The call that holds the mutex puts the model in its place: it was not   *)
(* there, and no other call is loading.                                    *)
LEMMA BuildKeeps ==
  ASSUME CInv, NEW c \in Calls, GetWeightsAndBuild(c)
  PROVE  CInv'
<1>1. PICK p \in {"answered", "waiting to embed"} : To(c, p)
  BY AfterLoadMoves DEF GetWeightsAndBuild
<1>2. /\ place' \in [Calls -> Places] /\ place'[c] = p
      /\ \A d \in Calls \ {c} : place'[d] = place[d]
  BY <1>1, MoveType DEF CInv, Places, Ended
<1>3. arch \in Known /\ model = None /\ holder = c
  BY DEF CInv, ConfigRead, LoadedOnce, GetWeightsAndBuild, Loading
<1>4. \A d \in Calls : place'[d] \notin Loading
  <2>1. \A d \in Calls \ {c} : place[d] \notin Loading
    BY <1>3 DEF CInv, LoadedOnce
  <2>. QED
    BY <1>2, <2>1 DEF Loading
<1>5. model' = arch /\ model' # None
  BY <1>3, NoneIsNothing DEF GetWeightsAndBuild
<1>6. builds' = 1
  <2>1. builds = 0
    BY <1>3 DEF CInv, LoadedOnce
  <2>. QED
    BY <2>1, BuildsOne, Zenon DEF GetWeightsAndBuild
<1>8. CTypeOK'
  <2>1. arch' \in Known \cup {"other"} /\ want' \in [Calls -> Kinds]
    BY DEF CInv, CTypeOK, GetWeightsAndBuild
  <2>2. holder' \in Calls \cup {None} /\ model' \in Known \cup {None}
    BY <1>3, <1>5 DEF GetWeightsAndBuild
  <2>. QED
    BY <1>2, <1>6, <2>1, <2>2 DEF CTypeOK, Places
<1>9. LoadedOnce'
  BY <1>4, <1>5, <1>6 DEF LoadedOnce
<1>7. ConfigRead'
  BY <1>4 DEF ConfigRead, Loading
<1>. QED
  BY <1>7, <1>8, <1>9 DEF CInv

(* Every step keeps the invariant. *)
LEMMA CNextKeeps ==
  ASSUME CInv, [CNext]_cvars
  PROVE  CInv'
<1>1. ASSUME NEW c \in Calls, Call(c) PROVE CInv'
  BY <1>1, LeaveKeeps DEF Call, Places, Loading
<1>2. ASSUME NEW c \in Calls, Lock(c) PROVE CInv'
  <2>1. CASE model # None
    <3>1. PICK p \in {"answered", "waiting to embed"} : To(c, p)
      BY <1>2, <2>1, AfterLoadMoves DEF Lock
    <3>. QED
      BY <1>2, <2>1, <3>1, LeaveKeeps DEF Lock, Places, Loading, Ended
  <2>2. CASE model = None
    BY <1>2, <2>2, StartKeeps DEF Lock
  <2>. QED
    BY <2>1, <2>2
<1>3. ASSUME NEW c \in Calls, Fails(c) PROVE CInv'
  BY <1>3, LeaveKeeps DEF Fails, Places, Loading, Ended
<1>4. ASSUME NEW c \in Calls, GetConfig(c) PROVE CInv'
  BY <1>4, NextDownloadKeeps DEF GetConfig, Loading
<1>5. ASSUME NEW c \in Calls, GetTokenizer(c) PROVE CInv'
  <2>1. arch \in Known
    BY <1>5 DEF CInv, ConfigRead, GetTokenizer
  <2>. QED
    BY <1>5, <2>1, NextDownloadKeeps DEF GetTokenizer, Loading
<1>6. ASSUME NEW c \in Calls, GetWeightsAndBuild(c) PROVE CInv'
  BY <1>6, BuildKeeps
<1>7. ASSUME NEW c \in Calls, Embed(c) PROVE CInv'
  <2>1. PICK p \in {"failed", "answered"} : To(c, p)
    BY <1>7 DEF Embed
  <2>. QED
    BY <1>7, <2>1, LeaveKeeps DEF Embed, Places, Loading, Ended
<1>8. ASSUME NEW c \in Calls, GiveUp(c) PROVE CInv'
  BY <1>8, LeaveKeeps DEF GiveUp, Places, Loading, Ended
<1>9. CASE UNCHANGED cvars
  BY <1>9 DEF cvars, CInv, CTypeOK, LoadedOnce, ConfigRead
<1>. QED
  BY <1>1, <1>2, <1>3, <1>4, <1>5, <1>6, <1>7, <1>8, <1>9 DEF CNext, Step

(* However many callers of a Candle model meet before it is there, and     *)
(* whichever loads fail or are given up, it is built once, and who loads   *)
(* it holds its mutex alone.                                               *)
THEOREM CandleLoadsOnce == CSpec => []LoadedOnce
<1>1. CInit => CInv
  BY CInitInv
<1>2. CInv /\ [CNext]_cvars => CInv'
  BY CNextKeeps
<1>3. CInv => LoadedOnce
  BY DEF CInv
<1>. QED
  BY <1>1, <1>2, <1>3, PTL DEF CSpec

(***************************************************************************)
(* GraphSessions.  That a graph is built once rests on the shard: two      *)
(* builders of one graph would hold one shard.  SessionsAreShared says so  *)
(* and is inductive together with the types.                               *)
(***************************************************************************)
ThreadPlaces == {"idle", "looking", "entering", "building", "ready", "running", "done", "failed"}

GTypeOK ==
  /\ job \in [Threads -> Jobs] /\ at \in [Threads -> ThreadPlaces]
  /\ sessions \subseteq Names /\ created \in [Names -> Nat]
  /\ shard \in [Shards -> Threads \cup {Nil}]
  /\ cache \in [Schemas -> Schemas \cup {Nil}]

BuiltOncePerGraph == \A g \in Names : created[g] = (IF g \in sessions THEN 1 ELSE 0)

BuildersHold ==
  \A t \in Threads : at[t] = "building" =>
    shard[ShardOf[job[t].graph]] = t /\ job[t].graph \notin sessions

CacheIsBounded == Cardinality(Cached) <= Capacity

GInv == GTypeOK /\ BuiltOncePerGraph /\ BuildersHold /\ CacheIsBounded

(* Nothing is built, nothing is cached. *)
LEMMA GInitInv ==
  ASSUME GInit
  PROVE  GInv
<1>1. GTypeOK
  BY DEF GInit, GTypeOK, ThreadPlaces
<1>2. BuiltOncePerGraph /\ BuildersHold
  BY DEF GInit, BuiltOncePerGraph, BuildersHold
<1>3. Cached = {}
  BY DEF GInit, Cached
<1>4. CacheIsBounded
  BY <1>3, FS_EmptySet, SessionConstants DEF CacheIsBounded
<1>. QED
  BY <1>1, <1>2, <1>4 DEF GInv

(* What a thread works on is a graph, in one of the shards. *)
LEMMA JobTypes ==
  ASSUME GTypeOK, NEW t \in Threads
  PROVE  job[t].graph \in Names /\ ShardOf[job[t].graph] \in Shards
BY DEF GTypeOK, Names, Shards

(* A step that moves one thread to a place other than "building" and       *)
(* leaves the sessions, their shards and the cache alone.                  *)
LEMMA ThreadMoveKeeps ==
  ASSUME GInv, NEW t \in Threads, NEW p \in ThreadPlaces \ {"building"}, Moves(t, p),
         UNCHANGED <<job, sessions, created, shard, cache>>
  PROVE  GInv'
<1>1. at' \in [Threads -> ThreadPlaces] /\ at'[t] = p /\ \A d \in Threads \ {t} : at'[d] = at[d]
  BY DEF GInv, GTypeOK, Moves
<1>2. GTypeOK'
  BY <1>1 DEF GInv, GTypeOK, Names, Shards, Schemas
<1>3. BuildersHold'
  BY <1>1 DEF GInv, BuildersHold
<1>4. BuiltOncePerGraph' /\ CacheIsBounded'
  BY DEF GInv, BuiltOncePerGraph, CacheIsBounded, Cached
<1>. QED
  BY <1>2, <1>3, <1>4 DEF GInv

(* The thread that finds a vacant entry holds its shard: it was free, so   *)
(* nobody builds a graph of that shard.                                    *)
LEMMA HoldKeeps ==
  ASSUME GInv, NEW t \in Threads, at[t] = "entering", Free(job[t].graph),
         job[t].graph \notin sessions, Hold(job[t].graph, t), Moves(t, "building"),
         UNCHANGED <<job, sessions, created, cache>>
  PROVE  GInv'
<1>. DEFINE s == ShardOf[job[t].graph]
<1>1. at' \in [Threads -> ThreadPlaces] /\ at'[t] = "building" /\ \A d \in Threads \ {t} : at'[d] = at[d]
  BY DEF GInv, GTypeOK, Moves, ThreadPlaces
<1>2. s \in Shards
  BY JobTypes DEF GInv
<1>3. /\ shard' \in [Shards -> Threads \cup {Nil}] /\ shard'[s] = t
      /\ \A x \in Shards \ {s} : shard'[x] = shard[x]
  BY <1>2 DEF GInv, GTypeOK, Hold
<1>4. GTypeOK'
  BY <1>1, <1>3 DEF GInv, GTypeOK
<1>5. ASSUME NEW d \in Threads, at'[d] = "building"
      PROVE  shard'[ShardOf[job'[d].graph]] = d /\ job'[d].graph \notin sessions'
  <2>1. CASE d = t
    BY <1>3, <2>1
  <2>2. CASE d # t
    <3>1. at[d] = "building"
      BY <1>1, <1>5, <2>2
    <3>2. shard[ShardOf[job[d].graph]] = d /\ job[d].graph \notin sessions
      BY <3>1 DEF GInv, BuildersHold
    <3>3. ShardOf[job[d].graph] # s
      BY <3>2, SessionConstants DEF Free
    <3>4. ShardOf[job[d].graph] \in Shards
      BY JobTypes DEF GInv
    <3>. QED
      BY <1>3, <3>2, <3>3, <3>4
  <2>. QED
    BY <2>1, <2>2
<1>6. BuildersHold'
  BY <1>5 DEF BuildersHold
<1>7. BuiltOncePerGraph' /\ CacheIsBounded'
  BY DEF GInv, BuiltOncePerGraph, CacheIsBounded, Cached
<1>. QED
  BY <1>4, <1>6, <1>7 DEF GInv

(* A build ends with the session of its graph, the first one, or without;  *)
(* other builders hold other shards and so build other graphs.             *)
LEMMA SessionKeeps ==
  ASSUME GInv, NEW t \in Threads, BuildSession(t)
  PROVE  GInv'
<1>. DEFINE g == job[t].graph
            s == ShardOf[g]
<1>1. g \in Names /\ s \in Shards
  BY JobTypes DEF GInv
<1>2. shard[s] = t /\ g \notin sessions
  BY DEF GInv, BuildersHold, BuildSession
<1>3. PICK p \in {"ready", "failed"} : Moves(t, p)
  BY DEF BuildSession
<1>4. at' \in [Threads -> ThreadPlaces] /\ at'[t] = p /\ \A d \in Threads \ {t} : at'[d] = at[d]
  BY <1>3 DEF GInv, GTypeOK, Moves, ThreadPlaces
<1>5. /\ shard' \in [Shards -> Threads \cup {Nil}]
      /\ \A x \in Shards \ {s} : shard'[x] = shard[x]
  BY <1>1 DEF GInv, GTypeOK, BuildSession, Hold
<1>6. sessions' \subseteq sessions \cup {g}
  BY DEF BuildSession
<1>7. created' \in [Names -> Nat] /\ BuiltOncePerGraph'
  <2>1. CASE sessions' = sessions \cup {g} /\ created' = [created EXCEPT ![g] = @ + 1]
    <3>1. created[g] = 0
      BY <1>1, <1>2 DEF GInv, BuiltOncePerGraph
    <3>2. created' \in [Names -> Nat] /\ created'[g] = 1 /\ \A n \in Names \ {g} : created'[n] = created[n]
      BY <1>1, <2>1, <3>1 DEF GInv, GTypeOK
    <3>. QED
      BY <2>1, <3>2 DEF GInv, BuiltOncePerGraph
  <2>2. CASE UNCHANGED <<sessions, created>>
    BY <2>2 DEF GInv, GTypeOK, BuiltOncePerGraph
  <2>. QED
    BY <2>1, <2>2 DEF BuildSession
<1>8. GTypeOK'
  BY <1>1, <1>4, <1>5, <1>6, <1>7 DEF GInv, GTypeOK, BuildSession
<1>9. ASSUME NEW d \in Threads, at'[d] = "building"
      PROVE  shard'[ShardOf[job'[d].graph]] = d /\ job'[d].graph \notin sessions'
  <2>1. d # t /\ at[d] = "building"
    BY <1>4, <1>9
  <2>2. shard[ShardOf[job[d].graph]] = d /\ job[d].graph \notin sessions
    BY <2>1 DEF GInv, BuildersHold
  <2>3. ShardOf[job[d].graph] # s /\ ShardOf[job[d].graph] \in Shards
    BY <1>2, <2>1, <2>2, JobTypes DEF GInv
  <2>4. job[d].graph # g
    BY <2>3
  <2>5. job' = job
    BY DEF BuildSession
  <2>. QED
    BY <1>5, <1>6, <2>2, <2>3, <2>4, <2>5
<1>10. BuildersHold'
  BY <1>9 DEF BuildersHold
<1>11. CacheIsBounded'
  BY DEF GInv, CacheIsBounded, Cached, BuildSession
<1>. QED
  BY <1>7, <1>8, <1>10, <1>11 DEF GInv

(* A schema that is put into the cache finds room: a full cache is emptied *)
(* first.                                                                  *)
LEMMA FillKeepsBound ==
  ASSUME GTypeOK, CacheIsBounded, NEW s \in Schemas, cache' = FillCache(s)
  PROVE  cache' \in [Schemas -> Schemas \cup {Nil}] /\ CacheIsBounded'
<1>1. cache' \in [Schemas -> Schemas \cup {Nil}]
  BY DEF GTypeOK, FillCache
<1>2. IsFiniteSet(Cached) /\ Cardinality(Cached) \in Nat
  BY FS_Subset, FS_CardinalityType, SessionConstants DEF Cached
<1>3. CASE Cardinality(Cached) >= Capacity
  <2>1. Cached' \subseteq {s}
    BY <1>3 DEF Cached, FillCache
  <2>2. IsFiniteSet({s}) /\ Cardinality({s}) = 1
    BY FS_Singleton
  <2>3. Cardinality(Cached') \in Nat /\ Cardinality(Cached') <= 1
    BY <2>1, <2>2, FS_Subset, FS_CardinalityType
  <2>. QED
    BY <1>1, <2>3, SessionConstants DEF CacheIsBounded
<1>4. CASE ~(Cardinality(Cached) >= Capacity)
  <2>1. Cached' \subseteq Cached \cup {s}
    BY <1>4 DEF Cached, FillCache
  <2>2. IsFiniteSet(Cached \cup {s}) /\ Cardinality(Cached \cup {s}) \in Nat
        /\ Cardinality(Cached \cup {s}) <= Cardinality(Cached) + 1
    <3>1. /\ IsFiniteSet(Cached \cup {s})
          /\ Cardinality(Cached \cup {s})
             = IF s \in Cached THEN Cardinality(Cached) ELSE Cardinality(Cached) + 1
      BY <1>2, FS_AddElement, Zenon
    <3>. QED
      BY <1>2, <3>1
  <2>3. Cardinality(Cached') \in Nat /\ Cardinality(Cached') <= Cardinality(Cached \cup {s})
    BY <2>1, <2>2, FS_Subset, FS_CardinalityType
  <2>. QED
    BY <1>1, <1>2, <1>4, <2>2, <2>3, SessionConstants DEF CacheIsBounded
<1>. QED
  BY <1>3, <1>4

(* The end of a run may put its schema into the cache. *)
LEMMA RunEndsKeeps ==
  ASSUME GInv, NEW t \in Threads, RunEnds(t)
  PROVE  GInv'
<1>1. CASE UNCHANGED cache
  <2>1. PICK p \in {"done", "failed"} : Moves(t, p)
    BY DEF RunEnds
  <2>. QED
    BY <1>1, <2>1, ThreadMoveKeeps DEF RunEnds, ThreadPlaces
<1>2. CASE job[t].schema # Nil /\ cache' = FillCache(job[t].schema) /\ Moves(t, "done")
  <2>1. job[t].schema \in Schemas
    BY <1>2 DEF GInv, GTypeOK, Schemas
  <2>2. cache' \in [Schemas -> Schemas \cup {Nil}] /\ CacheIsBounded'
    BY <1>2, <2>1, FillKeepsBound DEF GInv
  <2>3. at' \in [Threads -> ThreadPlaces] /\ at'[t] = "done" /\ \A d \in Threads \ {t} : at'[d] = at[d]
    BY <1>2 DEF GInv, GTypeOK, Moves, ThreadPlaces
  <2>4. UNCHANGED <<job, sessions, created, shard>>
    BY DEF RunEnds
  <2>5. GTypeOK'
    BY <2>2, <2>3, <2>4 DEF GInv, GTypeOK
  <2>6. BuildersHold' /\ BuiltOncePerGraph'
    BY <2>3, <2>4 DEF GInv, BuildersHold, BuiltOncePerGraph
  <2>. QED
    BY <2>2, <2>5, <2>6 DEF GInv
<1>. QED
  BY <1>1, <1>2 DEF RunEnds

(* The thread's next window may be about another graph: it builds nothing. *)
LEMMA NextWindowKeeps ==
  ASSUME GInv, NEW t \in Threads, NextWindow(t)
  PROVE  GInv'
<1>1. at' \in [Threads -> ThreadPlaces] /\ at'[t] = "idle" /\ \A d \in Threads \ {t} : at'[d] = at[d]
  BY DEF GInv, GTypeOK, NextWindow, Moves, ThreadPlaces
<1>2. job' \in [Threads -> Jobs] /\ \A d \in Threads \ {t} : job'[d] = job[d]
  BY DEF GInv, GTypeOK, NextWindow
<1>3. UNCHANGED <<sessions, created, shard, cache>>
  BY DEF NextWindow
<1>4. GTypeOK'
  BY <1>1, <1>2, <1>3 DEF GInv, GTypeOK
<1>5. BuildersHold'
  BY <1>1, <1>2, <1>3 DEF GInv, BuildersHold
<1>6. BuiltOncePerGraph' /\ CacheIsBounded'
  BY <1>3 DEF GInv, BuiltOncePerGraph, CacheIsBounded, Cached
<1>. QED
  BY <1>4, <1>5, <1>6 DEF GInv

(* Every step keeps the invariant. *)
LEMMA GNextKeeps ==
  ASSUME GInv, [GNext]_gvars
  PROVE  GInv'
<1>1. ASSUME NEW t \in Threads, Begin(t) PROVE GInv'
  <2>1. PICK p \in {"done", "looking"} : Moves(t, p)
    BY <1>1 DEF Begin
  <2>. QED
    BY <1>1, <2>1, ThreadMoveKeeps DEF Begin, ThreadPlaces
<1>2. ASSUME NEW t \in Threads, Look(t) PROVE GInv'
  <2>1. PICK p \in {"ready", "entering"} : Moves(t, p)
    BY <1>2 DEF Look
  <2>. QED
    BY <1>2, <2>1, ThreadMoveKeeps DEF Look, ThreadPlaces
<1>3. ASSUME NEW t \in Threads, EnterEntry(t) PROVE GInv'
  <2>1. CASE job[t].graph \in sessions
    BY <1>3, <2>1, ThreadMoveKeeps DEF EnterEntry, ThreadPlaces
  <2>2. CASE job[t].graph \notin sessions
    BY <1>3, <2>2, HoldKeeps DEF EnterEntry
  <2>. QED
    BY <2>1, <2>2
<1>4. ASSUME NEW t \in Threads, BuildSession(t) PROVE GInv'
  BY <1>4, SessionKeeps
<1>5. ASSUME NEW t \in Threads, RunGraph(t) PROVE GInv'
  BY <1>5, ThreadMoveKeeps DEF RunGraph, ThreadPlaces
<1>6. ASSUME NEW t \in Threads, RunEnds(t) PROVE GInv'
  BY <1>6, RunEndsKeeps
<1>7. ASSUME NEW t \in Threads, NextWindow(t) PROVE GInv'
  BY <1>7, NextWindowKeeps
<1>8. CASE UNCHANGED gvars
  BY <1>8 DEF gvars, GInv, GTypeOK, BuiltOncePerGraph, BuildersHold, CacheIsBounded, Cached
<1>. QED
  BY <1>1, <1>2, <1>3, <1>4, <1>5, <1>6, <1>7, <1>8 DEF GNext

(* However many threads meet at a graph without a session, it is built     *)
(* once, by a thread that holds its shard alone; and the label cache never *)
(* holds more schemas than its capacity.                                   *)
THEOREM GraphsAreBuiltOnce == GSpec => []SessionsAreShared
<1>1. GInit => GInv
  BY GInitInv
<1>2. GInv /\ [GNext]_gvars => GInv'
  BY GNextKeeps
<1>3. GInv => SessionsAreShared
  BY DEF GInv, BuiltOncePerGraph, BuildersHold, CacheIsBounded, SessionsAreShared
<1>. QED
  BY <1>1, <1>2, <1>3, PTL DEF GSpec

(***************************************************************************)
(* OnnxProviders.  Kept is what the build has of the list.  A list that    *)
(* was not given keeps "cpu"; one that was and keeps no "cpu" has a strict *)
(* last entry, which a session that was built is on.                       *)
(***************************************************************************)
Steps == {"checking", "config error", "downloading", "building", "probing", "rebuilding", "loaded", "failed"}

Kept == EffectiveEpList(configured)

(* What a session that was built on the list has registered. *)
Fits(s) ==
  /\ s \subseteq ToSet(Kept)
  /\ IF "cpu" \in ToSet(Kept) THEN "cpu" \in s ELSE Kept[Len(Kept)] \in s

ProviderInv ==
  /\ configured \in Seq(OnnxExecutionProvider) /\ step \in Steps
  /\ step \in {"downloading", "building"} => Kept # <<>>
  /\ step = "probing" => Fits(registered)
  /\ step = "rebuilding" => "cpu" \in ToSet(Kept)
  /\ ProvidersAsAsked

(* What is kept are providers of the list that the build has, and "cpu".   *)
LEMMA KeptProviders ==
  ASSUME NEW list \in Seq(OnnxExecutionProvider)
  PROVE  /\ Available(list) \in Seq(OnnxExecutionProvider)
         /\ ToSet(Available(list)) = ToSet(list) \cap (built \cup {"cpu"})
<1>. DEFINE S == built \cup {"cpu"}
<1>1. Filter(list, S) \in Seq(OnnxExecutionProvider \cap S)
  BY FilterType
<1>2. Filter(list, S) \in Seq(OnnxExecutionProvider)
  BY <1>1, SeqMonotonic
<1>3. ItemsOf(Filter(list, S)) = ItemsOf(list) \cap S
  BY FilterItems
<1>. QED
  BY <1>2, <1>3 DEF Available, ToSet, ItemsOf

(* Without a list the CPU is among what is kept. *)
LEMMA DefaultHasCpu ==
  /\ EffectiveEpList(<<>>) \in Seq(OnnxExecutionProvider)
  /\ "cpu" \in ToSet(EffectiveEpList(<<>>))
<1>1. DefaultProviders \in Seq(OnnxExecutionProvider) /\ "cpu" \in ToSet(DefaultProviders)
  <2>1. \A x \in OnnxExecutionProvider : "cpu" \in ToSet(<<x, "cpu">>) /\ "cpu" \in ToSet(<<"cpu">>)
    <3>1. \A x \in OnnxExecutionProvider : <<x, "cpu">>[2] = "cpu" /\ 2 \in DOMAIN <<x, "cpu">>
      OBVIOUS
    <3>2. <<"cpu">>[1] = "cpu" /\ 1 \in DOMAIN <<"cpu">>
      OBVIOUS
    <3>. QED
      BY <3>1, <3>2 DEF ToSet
  <2>2. "cpu" \in OnnxExecutionProvider /\ "cuda" \in OnnxExecutionProvider
        /\ "coreml" \in OnnxExecutionProvider
    BY DEF OnnxExecutionProvider
  <2>. HIDE DEF OnnxExecutionProvider
  <2>3. CASE DefaultProviders = <<"cuda", "cpu">>
    BY <2>1, <2>2, <2>3
  <2>4. CASE DefaultProviders = <<"coreml", "cpu">>
    BY <2>1, <2>2, <2>4
  <2>5. CASE DefaultProviders = <<"cpu">>
    <3>1. <<"cpu">> \in Seq(OnnxExecutionProvider)
      BY <2>2
    <3>. QED
      BY <2>1, <2>2, <2>5, <3>1
  <2>. QED
    BY <2>3, <2>4, <2>5 DEF DefaultProviders
<1>2. EffectiveEpList(<<>>) = Available(DefaultProviders)
  BY DEF EffectiveEpList, ResolveEpList
<1>. QED
  BY <1>1, <1>2, KeptProviders

LEMMA KeptType ==
  ASSUME configured \in Seq(OnnxExecutionProvider)
  PROVE  Kept \in Seq(OnnxExecutionProvider) /\ (configured = <<>> => "cpu" \in ToSet(Kept))
<1>1. CASE configured = <<>>
  BY <1>1, DefaultHasCpu DEF Kept
<1>2. CASE configured # <<>>
  <2>1. Kept = Available(configured)
    BY <1>2 DEF Kept, EffectiveEpList, ResolveEpList
  <2>. QED
    BY <1>2, <2>1, KeptProviders
<1>. QED
  BY <1>1, <1>2

LEMMA ContainsCpu ==
  ASSUME NEW list \in Seq(OnnxExecutionProvider)
  PROVE  Contains(list, "cpu") <=> "cpu" \in ToSet(list)
BY DEF Contains, ToSet

(* A session of the list is on EPs of the list: on "cpu" if it is there,   *)
(* on the last one, which is strict, if it is not.                         *)
LEMMA SessionIsOnKept ==
  ASSUME configured \in Seq(OnnxExecutionProvider), Kept # <<>>,
         NEW s \in SessionEps(Kept, StrictIndex(Kept, configured))
  PROVE  Fits(s)
<1>1. Kept \in Seq(OnnxExecutionProvider) /\ (configured = <<>> => "cpu" \in ToSet(Kept))
  BY KeptType
<1>2. s \subseteq ToSet(Kept)
  BY DEF SessionEps
<1>3. Contains(Kept, "cpu") <=> "cpu" \in ToSet(Kept)
  BY <1>1, ContainsCpu
<1>4. CASE "cpu" \in ToSet(Kept)
  BY <1>2, <1>3, <1>4 DEF SessionEps, Fits
<1>5. CASE "cpu" \notin ToSet(Kept)
  <2>1. StrictIndex(Kept, configured) = Len(Kept)
    BY <1>1, <1>3, <1>5 DEF StrictIndex
  <2>2. Len(Kept) \in DOMAIN Kept
    BY <1>1
  <2>3. Kept[Len(Kept)] \in s
    BY <2>1, <2>2 DEF SessionEps
  <2>. QED
    BY <1>2, <1>5, <2>3 DEF Fits
<1>. QED
  BY <1>4, <1>5

(* A model that is on such a session and reports the list, if it reports,  *)
(* is as the property asks.                                                *)
LEMMA FittingIsAsAsked ==
  ASSUME configured \in Seq(OnnxExecutionProvider), loader' = loader, Kept' = Kept, Fits(registered)',
         reported' = Reports(Kept)
  PROVE  ProvidersAsAsked'
<1>. DEFINE kept == Kept'
<1>1. kept \in Seq(OnnxExecutionProvider)
  BY KeptType
<1>2. Contains(kept, "cpu") <=> "cpu" \in ToSet(kept)
  BY <1>1, ContainsCpu
<1>3. registered' \subseteq ToSet(kept)
      /\ IF "cpu" \in ToSet(kept) THEN "cpu" \in registered' ELSE kept[Len(kept)] \in registered'
  BY DEF Fits
<1>4. ~Contains(kept, "cpu") => kept[Len(kept)] \in registered'
  BY <1>2, <1>3
<1>5. registered' \subseteq {"cpu"} => Contains(kept, "cpu")
  BY <1>2, <1>3
<1>6. loader' \in Reporting => reported' = kept
  BY DEF Reports
<1>7. EffectiveEpList(configured)' = kept
  BY DEF Kept
<1>. HIDE DEF kept
<1>. QED
  BY <1>3, <1>4, <1>5, <1>6, <1>7 DEF ProvidersAsAsked

(* The load has not begun. *)
LEMMA PInitInv == PInit => ProviderInv
BY RequestedType DEF PInit, ProviderInv, ProvidersAsAsked, Steps

LEMMA KeptStays == UNCHANGED <<configured, built>> => Kept' = Kept
BY DEF Kept, EffectiveEpList, ResolveEpList, Available, DefaultProviders

(* Every step keeps the invariant. *)
LEMMA PNextKeeps ==
  ASSUME ProviderInv, [PNext]_pvars
  PROVE  ProviderInv'
<1>0. UNCHANGED <<configured, built>> /\ loader' = loader
  BY DEF PNext, Check, Download, Build, Verified, ProbeFails, RebuildOnCpu, pvars
<1>1. Kept' = Kept
  BY <1>0, KeptStays
<1>2. CASE Check
  BY <1>0, <1>1, <1>2 DEF Check, ProviderInv, ProvidersAsAsked, Steps, Kept
<1>3. CASE Download
  BY <1>0, <1>1, <1>3 DEF Download, ProviderInv, ProvidersAsAsked, Steps
<1>4. CASE Build
  <2>1. CASE step' = "failed"
    BY <1>0, <2>1 DEF ProviderInv, ProvidersAsAsked, Steps
  <2>2. CASE step' # "failed"
    <3>1. registered' \in SessionEps(Kept, StrictIndex(Kept, configured)) /\ Built
      BY <1>4, <2>2 DEF Build, Kept
    <3>2. Fits(registered')
      BY <1>4, <3>1, SessionIsOnKept DEF ProviderInv, Build
    <3>3. Fits(registered)'
      BY <1>1, <3>2 DEF Fits
    <3>4. CASE step' = "probing"
      BY <1>0, <3>3, <3>4 DEF ProviderInv, ProvidersAsAsked, Steps
    <3>5. CASE step' # "probing"
      <4>1. step' = "loaded" /\ reported' = Reports(Kept)
        BY <3>1, <3>5 DEF Built, Kept
      <4>2. ProvidersAsAsked'
        BY <1>0, <1>1, <3>3, <4>1, FittingIsAsAsked DEF ProviderInv
      <4>. QED
        BY <1>0, <4>1, <4>2 DEF ProviderInv, Steps
    <3>. QED
      BY <3>4, <3>5
  <2>. QED
    BY <2>1, <2>2
<1>5. CASE Verified
  <2>1. step' = "loaded" /\ reported' = Reports(Kept) /\ registered' = registered /\ Fits(registered)
    BY <1>5 DEF Verified, Kept, ProviderInv
  <2>2. Fits(registered)'
    BY <1>1, <2>1 DEF Fits
  <2>3. ProvidersAsAsked'
    BY <1>0, <1>1, <2>1, <2>2, FittingIsAsAsked DEF ProviderInv
  <2>. QED
    BY <1>0, <2>1, <2>3 DEF ProviderInv, Steps
<1>6. CASE ProbeFails
  <2>1. Kept \in Seq(OnnxExecutionProvider)
    BY KeptType DEF ProviderInv
  <2>2. Contains(Kept, "cpu") <=> "cpu" \in ToSet(Kept)
    BY <2>1, ContainsCpu
  <2>3. step' = IF Contains(Kept, "cpu") THEN "rebuilding" ELSE "failed"
    BY <1>6 DEF ProbeFails, Kept
  <2>. QED
    BY <1>0, <1>1, <2>2, <2>3 DEF ProviderInv, ProvidersAsAsked, Steps
<1>7. CASE RebuildOnCpu
  <2>1. CASE step' = "failed"
    BY <1>0, <2>1 DEF ProviderInv, ProvidersAsAsked, Steps
  <2>2. CASE step' # "failed"
    <3>1. registered' = {"cpu"} /\ step' = "loaded" /\ reported' = Reports(<<"cpu">>)
      BY <1>7, <2>2 DEF RebuildOnCpu
    <3>2. "cpu" \in ToSet(<<"cpu">>) /\ Contains(<<"cpu">>, "cpu")
      <4>1. <<"cpu">>[1] = "cpu" /\ Len(<<"cpu">>) = 1 /\ DOMAIN <<"cpu">> = 1..1
        OBVIOUS
      <4>. QED
        BY <4>1 DEF ToSet, Contains
    <3>3. Kept \in Seq(OnnxExecutionProvider) /\ "cpu" \in ToSet(Kept)
      BY <1>7, KeptType DEF ProviderInv, RebuildOnCpu
    <3>4. Contains(Kept', "cpu")
      BY <1>1, <3>3, ContainsCpu
    <3>5. loader' \in Reporting => reported' = <<"cpu">>
      BY <1>0, <3>1 DEF Reports
    <3>6. ProvidersAsAsked'
      BY <3>1, <3>2, <3>4, <3>5 DEF ProvidersAsAsked, Kept
    <3>. QED
      BY <1>0, <3>1, <3>6 DEF ProviderInv, Steps
  <2>. QED
    BY <2>1, <2>2
<1>8. CASE UNCHANGED pvars
  BY <1>0, <1>1, <1>8 DEF pvars, ProviderInv, ProvidersAsAsked, Kept, Fits
<1>. QED
  BY <1>2, <1>3, <1>4, <1>5, <1>6, <1>7, <1>8 DEF PNext

(* For any list, any build and any loader: a list without "cpu" leaves a  *)
(* loaded model on its last EP that the build has; and what reports its    *)
(* EPs reports every one that is registered, and "cpu" when it is alone.   *)
THEOREM RunsOnWhatWasAsked == PSpec => []ProvidersAsAsked
<1>1. ProviderInv => ProvidersAsAsked
  BY DEF ProviderInv
<1>. QED
  BY <1>1, PInitInv, PNextKeeps, PTL DEF PSpec

(***************************************************************************)
(* The loads of a process.                                                 *)
(***************************************************************************)
(* What a process does is a behaviour of each of its loads.                *)
THEOREM LoadsRunTheirProtocols == LoadingSpec => CSpec /\ GSpec /\ PSpec
<1>1. LoadingInit => CInit /\ GInit /\ PInit
  BY DEF LoadingInit
<1>2. [LoadingNext]_loadingVars => [CNext]_cvars /\ [GNext]_gvars /\ [PNext]_pvars
  BY DEF LoadingNext, loadingVars, CandleStep, SessionStep, ProviderStep
<1>. QED
  BY <1>1, <1>2, PTL DEF LoadingSpec, CSpec, GSpec, PSpec

(* Whatever loads overlap, models and sessions are built once.             *)
THEOREM LoadsBuildOnce == LoadingSpec => []BuiltOnce
<1>1. LoadedOnce /\ SessionsAreShared => BuiltOnce
  BY DEF BuiltOnce
<1>. QED
  BY <1>1, LoadsRunTheirProtocols, CandleLoadsOnce, GraphsAreBuiltOnce, PTL

(* And each ONNX model is on the EPs that were asked for, whatever else    *)
(* loads beside it.                                                        *)
THEOREM LoadsRunOnWhatWasAsked == LoadingSpec => []ProvidersAsAsked
BY LoadsRunTheirProtocols, RunsOnWhatWasAsked, PTL

Raw == INSTANCE RawTensors

(***************************************************************************)
(* RawTensors.  The first error of a list is one, if there is any.         *)
(***************************************************************************)
LEMMA NoFirstError ==
  ASSUME NEW errors, DOMAIN errors \subseteq Nat, Raw!FirstError(errors) = "none"
  PROVE  \A i \in DOMAIN errors : errors[i] = "none"
<1>. DEFINE bad == {i \in DOMAIN errors : errors[i] # "none"}
            least == CHOOSE i \in bad : \A j \in bad : i <= j
<1>. SUFFICES ASSUME bad # {} PROVE FALSE
  OBVIOUS
<1>1. bad \in SUBSET Nat
  OBVIOUS
<1>2. least \in bad
  <2>. HIDE DEF bad
  <2>. QED
    BY <1>1, LeastIsChosen
<1>3. Raw!FirstError(errors) = errors[least]
  BY DEF Raw!FirstError
<1>. HIDE DEF least
<1>. QED
  BY <1>2, <1>3

(* What passes the checks of the stacking has every input and no other.    *)
LEMMA StackedItems ==
  ASSUME NEW Batches, NEW items \in Seq(Batches), NEW Specs, NEW signature \in Seq(Specs),
         items # <<>>, Raw!StackBatches(items, signature).error = "none"
  PROVE  /\ \A i \in DOMAIN items : DOMAIN items[i] = Raw!Names(signature)
         /\ \A n \in Raw!Names(signature) :
              Raw!StackBatches(items, signature).value[n].rows = [i \in DOMAIN items |-> items[i][n].rows]
<1>. DEFINE tail(spec) == IF spec.shape = <<>> THEN <<>> ELSE Tail(spec.shape)
            errors(spec) == [i \in DOMAIN items |-> Raw!InputError(items[i], spec, tail(spec))]
            first(spec) == Raw!FirstError(errors(spec))
            stackError(spec) == IF first(spec) # "none" THEN first(spec)
                                ELSE Raw!StackTensors(items, spec.name).error
            all == [s \in DOMAIN signature |-> stackError(signature[s])]
            error == IF \E i \in DOMAIN items : Raw!Unexpected(items[i], signature) # {} THEN "unexpected"
                     ELSE Raw!FirstError(all)
            value == [n \in {signature[s].name : s \in DOMAIN signature} |-> Raw!StackTensors(items, n).value]
<1>0. Raw!StackBatches(items, signature) = IF error # "none" THEN Raw!Error(error) ELSE Raw!Ok(value)
  BY Zenon DEF Raw!StackBatches
<1>1. DOMAIN items \subseteq Nat /\ 1 \in DOMAIN items /\ DOMAIN signature \subseteq Nat
  OBVIOUS
<1>. HIDE DEF all, value
<1>2. /\ error = "none" /\ Raw!StackBatches(items, signature).value = value
  <2>. HIDE DEF error
  <2>1. error = "none"
    BY <1>0 DEF Raw!Error
  <2>2. Raw!StackBatches(items, signature) = Raw!Ok(value)
    BY <1>0, <2>1
  <2>3. Raw!Ok(value).value = value
    BY DEF Raw!Ok
  <2>. QED
    BY <2>1, <2>2, <2>3, Zenon
<1>3. /\ \A i \in DOMAIN items : Raw!Unexpected(items[i], signature) = {}
      /\ Raw!FirstError(all) = "none"
  BY <1>2
<1>4. DOMAIN all = DOMAIN signature
  BY DEF all
<1>5. \A s \in DOMAIN signature : all[s] = "none"
  BY <1>1, <1>3, <1>4, NoFirstError
<1>6. ASSUME NEW s \in DOMAIN signature
      PROVE  /\ \A i \in DOMAIN items : signature[s].name \in DOMAIN items[i]
             /\ Raw!StackTensors(items, signature[s].name).error = "none"
  <2>. DEFINE spec == signature[s]
              own == errors(spec)
  <2>1. stackError(spec) = "none"
    BY <1>5 DEF all
  <2>. HIDE DEF own
  <2>2. first(spec) = "none" /\ Raw!StackTensors(items, spec.name).error = "none"
    BY <2>1, Zenon
  <2>3. DOMAIN own = DOMAIN items /\ Raw!FirstError(own) = "none"
    BY <2>2 DEF own
  <2>4. \A i \in DOMAIN items : own[i] = "none"
    BY <1>1, <2>3, NoFirstError
  <2>5. \A i \in DOMAIN items : Raw!InputError(items[i], spec, tail(spec)) = "none"
    BY <2>4 DEF own
  <2>. HIDE DEF tail, spec
  <2>6. \A i \in DOMAIN items : spec.name \in DOMAIN items[i]
    BY <2>5 DEF Raw!InputError
  <2>. QED
    BY <2>2, <2>6 DEF spec
<1>7. \A i \in DOMAIN items : DOMAIN items[i] = Raw!Names(signature)
  <2>. TAKE i \in DOMAIN items
  <2>1. \A s \in DOMAIN signature : signature[s].name \in DOMAIN items[i]
    BY <1>6
  <2>2. Raw!Names(signature) \subseteq DOMAIN items[i]
    BY <2>1 DEF Raw!Names
  <2>3. DOMAIN items[i] \subseteq Raw!Names(signature)
    BY <1>3 DEF Raw!Unexpected, Raw!Names
  <2>. QED
    BY <2>2, <2>3
<1>8. ASSUME NEW n \in Raw!Names(signature)
      PROVE  value[n].rows = [i \in DOMAIN items |-> items[i][n].rows]
  <2>1. PICK s \in DOMAIN signature : signature[s].name = n
    BY DEF Raw!Names
  <2>2. Raw!StackTensors(items, n).error = "none"
    BY <1>6, <2>1
  <2>3. value[n] = Raw!StackTensors(items, n).value
    BY <2>1 DEF value
  <2>4. ~ \E i \in DOMAIN items : items[i][n].shape # items[1][n].shape
    BY <2>2 DEF Raw!StackTensors, Raw!Error
  <2>5. Raw!StackTensors(items, n).value.rows = [i \in DOMAIN items |-> items[i][n].rows]
    BY <2>4 DEF Raw!StackTensors, Raw!Ok
  <2>. QED
    BY <2>3, <2>5
<1>. QED
  BY <1>2, <1>7, <1>8

(* Packed outputs are the graph's own, each one that the signature names.  *)
LEMMA PackedOutputs ==
  ASSUME NEW outputs, NEW signature, Raw!PackOutputs(outputs, signature).error = "none"
  PROVE  Raw!PackOutputs(outputs, signature).value = [n \in Raw!Names(signature) |-> outputs[n]]
<1>1. Raw!PackOutputs(outputs, signature) = Raw!Ok([n \in Raw!Names(signature) |-> outputs[n]])
  BY DEF Raw!PackOutputs, Raw!Error, Raw!Names
<1>. QED
  BY <1>1 DEF Raw!Ok

(* A split gives answer i row i of every output, as many as there are rows.*)
LEMMA SplitRows ==
  ASSUME NEW outputs, NEW Specs, NEW signature \in Seq(Specs),
         \A n \in Raw!Names(signature) : outputs[n].shape \in Seq(Nat),
         Raw!SplitBatch(outputs, signature).error = "none"
  PROVE  LET answer == Raw!SplitBatch(outputs, signature).value
         IN  /\ \A n \in Raw!Names(signature) : DOMAIN answer = 1 .. outputs[n].shape[1]
             /\ \A i \in DOMAIN answer :
                  /\ DOMAIN answer[i] = Raw!Names(signature)
                  /\ \A n \in Raw!Names(signature) : answer[i][n].rows = outputs[n].rows[i]
<1>. DEFINE names == Raw!Names(signature)
            first == outputs[signature[1].name]
            count == first.shape[1]
            row(n, i) == [dtype |-> outputs[n].dtype, shape |-> Tail(outputs[n].shape),
                          rows |-> outputs[n].rows[i]]
            held(i) == {m \in names : i <= outputs[m].shape[1]}
            split == [i \in 1 .. count |-> [n \in held(i) |-> row(n, i)]]
            answer == Raw!SplitBatch(outputs, signature).value
<1>1. CASE signature = <<>>
  <2>1. names = {} /\ answer = <<>>
    BY <1>1 DEF Raw!Names, Raw!SplitBatch, Raw!Ok
  <2>. HIDE DEF answer, names
  <2>2. /\ \A n \in names : DOMAIN answer = 1 .. outputs[n].shape[1]
        /\ \A i \in DOMAIN answer :
             DOMAIN answer[i] = names /\ \A n \in names : answer[i][n].rows = outputs[n].rows[i]
    BY <2>1
  <2>. QED
    BY <2>2, Zenon DEF answer, names
<1>2. CASE signature # <<>>
  <2>1. Raw!SplitBatch(outputs, signature) =
          IF first.shape = <<>> \/ \E n \in names : ~ Raw!Splits(outputs[n], count)
          THEN Raw!Error("stacking") ELSE Raw!Ok(split)
    BY <1>2 DEF Raw!SplitBatch, Raw!Names
  <2>2. first.shape # <<>> /\ \A n \in names : Raw!Splits(outputs[n], count)
    <3>. HIDE DEF split, count, names
    <3>. QED
      BY <2>1 DEF Raw!Error
  <2>3. answer = split
    <3>. HIDE DEF split, count, names
    <3>1. Raw!SplitBatch(outputs, signature) = Raw!Ok(split)
      BY <2>1, <2>2
    <3>. QED
      BY <3>1 DEF Raw!Ok
  <2>4. \A n \in names : outputs[n].shape[1] = count
    BY <2>2 DEF Raw!Splits
  <2>5. count \in Nat
    <3>1. signature[1].name \in names
      BY <1>2 DEF Raw!Names
    <3>. QED
      BY <2>2, <3>1
  <2>. HIDE DEF answer, names, count
  <2>6. DOMAIN answer = 1 .. count
    BY <2>3
  <2>7. ASSUME NEW i \in 1 .. count
        PROVE  DOMAIN answer[i] = names /\ \A n \in names : answer[i][n].rows = outputs[n].rows[i]
    <3>1. held(i) = names
      BY <2>4, <2>5
    <3>2. answer[i] = [n \in held(i) |-> row(n, i)]
      BY <2>3
    <3>3. answer[i] = [n \in names |-> row(n, i)]
      BY <3>1, <3>2, Zenon
    <3>. QED
      BY <3>3
  <2>. QED
    BY <2>4, <2>6, <2>7, Zenon DEF answer, names
<1>. QED
  BY <1>1, <1>2

(* An item of a batch that the graph takes whole is run on its own rows:   *)
(* whatever the items, the signatures and the graph, a batch that succeeds *)
(* gave the graph, as row i of every input, the tensor of item i, and      *)
(* answers with row i of every output, as many as there are rows.          *)
THEOREM BatchRowsAreTheirs ==
  ASSUME NEW Batches, NEW items \in Seq(Batches), items # <<>>,
         NEW Specs, NEW raw, raw.inputs \in Seq(Specs), raw.outputs \in Seq(Specs),
         raw.support.kind # "none", NEW graph,
         \A n \in Raw!Names(raw.outputs) :
           graph[Raw!StackBatches(items, raw.inputs).value].value[n].shape \in Seq(Nat),
         Raw!RunBatch(raw, items, graph).error = "none"
  PROVE  Raw!BatchKeepsRows(raw, items, graph)
<1>. DEFINE stacked == Raw!StackBatches(items, raw.inputs)
            ran == graph[stacked.value]
            packed == Raw!PackOutputs(ran.value, raw.outputs)
            split == Raw!SplitBatch(packed.value, raw.outputs)
            ins == Raw!Names(raw.inputs)
            outs == Raw!Names(raw.outputs)
            answer == Raw!RunBatch(raw, items, graph).value
<1>1. Raw!RunBatched(raw, items, graph) =
        IF stacked.error # "none" THEN stacked
        ELSE IF ran.error # "none" THEN ran
        ELSE IF packed.error # "none" THEN packed ELSE split
  BY Zenon DEF Raw!RunBatched
<1>2. Raw!RunBatch(raw, items, graph) = Raw!RunBatched(raw, items, graph)
  BY DEF Raw!RunBatch, Raw!Error
<1>. HIDE DEF stacked, ran, packed, split
<1>3. /\ stacked.error = "none" /\ ran.error = "none" /\ packed.error = "none" /\ split.error = "none"
      /\ answer = split.value
  BY <1>1, <1>2
<1>4. /\ \A i \in DOMAIN items : DOMAIN items[i] = ins
      /\ \A n \in ins : stacked.value[n].rows = [i \in DOMAIN items |-> items[i][n].rows]
  BY <1>3, StackedItems DEF stacked
<1>5. packed.value = [n \in outs |-> ran.value[n]]
  BY <1>3, PackedOutputs DEF packed
<1>6. \A n \in outs : packed.value[n] = ran.value[n] /\ packed.value[n].shape \in Seq(Nat)
  BY <1>5 DEF ran, stacked
<1>7. /\ \A n \in outs : DOMAIN answer = 1 .. packed.value[n].shape[1]
      /\ \A i \in DOMAIN answer :
           /\ DOMAIN answer[i] = outs
           /\ \A n \in outs : answer[i][n].rows = packed.value[n].rows[i]
  <2>. HIDE DEF answer
  <2>1. split = Raw!SplitBatch(packed.value, raw.outputs)
    BY DEF split
  <2>. QED
    BY <1>3, <1>6, <2>1, SplitRows
<1>8. /\ \A n \in outs : DOMAIN answer = 1 .. ran.value[n].shape[1]
      /\ \A i \in DOMAIN answer :
           /\ DOMAIN answer[i] = outs
           /\ \A n \in outs : answer[i][n].rows = ran.value[n].rows[i]
  <2>. HIDE DEF answer, outs
  <2>. QED
    BY <1>6, <1>7
<1>. QED
  BY <1>4, <1>8, Zenon DEF Raw!BatchKeepsRows, ran, stacked

(***************************************************************************)
(* OnnxEncoders.  A text is what its tokenizer gives: at least one token,  *)
(* all of them attended to.  A row shows it if it has the text's tokens,   *)
(* cut to n, and padding behind them.                                      *)
(***************************************************************************)
Enc == INSTANCE OnnxEncoders

\* Tokens are numbered by Ids.
TextsOver(Ids) == Seq([id : Ids, mask : {1}])

Shows(row, text, n) ==
  /\ n \in 1 .. Len(text)
  /\ \E p \in Nat : p >= n /\ row \in [1 .. p -> {text[s] : s \in 1 .. Len(text)} \cup {Enc!Padding}]
  /\ \A s \in DOMAIN row : row[s] = IF s <= n THEN text[s] ELSE Enc!Padding

\* How much of a text the limit leaves.
CutAt(text, limit) == IF Len(text) < limit THEN Len(text) ELSE limit

(* A set of numbers that has a bound has a greatest one. *)
LEMMA GreatestExists ==
  ASSUME NEW m \in Nat, NEW S \in SUBSET (0 .. m), S # {}
  PROVE  \E x \in S : \A y \in S : x >= y
<1>. DEFINE T == {k \in Nat : \A R \in SUBSET (0 .. k) : R # {} => \E x \in R : \A y \in R : x >= y}
<1>1. 0 \in T
  <2>1. ASSUME NEW R \in SUBSET (0 .. 0), R # {} PROVE \E x \in R : \A y \in R : x >= y
    <3>1. \A x \in R : x = 0
      BY <2>1
    <3>2. PICK x \in R : TRUE
      BY <2>1
    <3>3. \A y \in R : x >= y
      BY <3>1
    <3>. QED
      BY <3>3
  <2>. QED
    BY <2>1
<1>2. ASSUME NEW k \in Nat, k \in T PROVE k + 1 \in T
  <2>1. ASSUME NEW R \in SUBSET (0 .. k + 1), R # {} PROVE \E x \in R : \A y \in R : x >= y
    <3>1. CASE k + 1 \in R
      BY <3>1
    <3>2. CASE k + 1 \notin R
      <4>1. R \in SUBSET (0 .. k)
        BY <3>2
      <4>. QED
        BY <1>2, <2>1, <4>1
    <3>. QED
      BY <3>1, <3>2
  <2>. QED
    BY <2>1
<1>. HIDE DEF T
<1>3. m \in T
  BY <1>1, <1>2, NatInductive
<1>. QED
  BY <1>3 DEF T

(* In every batch a text has a row that shows it. *)
LEMMA RowsShowTheirTexts ==
  ASSUME NEW Ids, NEW batch \in Seq(TextsOver(Ids)), NEW i \in DOMAIN batch,
         batch[i] # <<>>, NEW limit \in Nat \ {0}
  PROVE  Shows(Enc!TokenizeBatch(batch, limit)[i], batch[i], CutAt(batch[i], limit))
<1>. DEFINE length(k) == Enc!Min({Len(batch[k]), limit})
            lengths == {0} \cup {length(k) : k \in DOMAIN batch}
            padded == Enc!Max(lengths)
            row == Enc!TokenizeBatch(batch, limit)[i]
            n == CutAt(batch[i], limit)
<1>1. \A k \in DOMAIN batch : length(k) = CutAt(batch[k], limit) /\ length(k) \in 0 .. limit
  <2>1. ASSUME NEW k \in DOMAIN batch PROVE length(k) = CutAt(batch[k], limit)
    <3>1. Len(batch[k]) \in Nat
      BY DEF TextsOver
    <3>. DEFINE a == Len(batch[k])
    <3>. HIDE DEF a
    <3>2. a \in Nat => Enc!Min({a, limit}) = IF a < limit THEN a ELSE limit
      BY DEF Enc!Min
    <3>. QED
      BY <3>1, <3>2 DEF a, CutAt
  <2>2. \A k \in DOMAIN batch : CutAt(batch[k], limit) \in 0 .. limit
    BY DEF CutAt, TextsOver
  <2>. QED
    BY <2>1, <2>2
<1>2. padded \in Nat /\ padded >= n
  <2>. HIDE DEF length, n
  <2>1. lengths \subseteq 0 .. limit /\ lengths # {}
    BY <1>1
  <2>2a. n \in lengths
    BY <1>1 DEF n
  <2>. HIDE DEF lengths
  <2>2. \E x \in lengths : \A y \in lengths : x >= y
    BY <2>1, GreatestExists, Zenon
  <2>3. padded \in lengths /\ \A y \in lengths : padded >= y
    BY <2>2 DEF Enc!Max
  <2>. HIDE DEF padded
  <2>4. padded \in 0 .. limit /\ padded >= n
    BY <2>1, <2>2a, <2>3
  <2>. QED
    BY <2>4
<1>3. row = [s \in 1 .. padded |-> IF s <= length(i) THEN batch[i][s] ELSE Enc!Padding]
  BY Zenon DEF Enc!TokenizeBatch
<1>4. length(i) = n
  BY <1>1
<1>5. n \in 1 .. Len(batch[i])
  <2>1. Len(batch[i]) \in Nat /\ Len(batch[i]) > 0
    BY EmptySeq DEF TextsOver
  <2>. QED
    BY <2>1 DEF CutAt
<1>. HIDE DEF row, padded, length, n
<1>6. row = [s \in 1 .. padded |-> IF s <= n THEN batch[i][s] ELSE Enc!Padding]
  BY <1>3, <1>4
<1>7. row \in [1 .. padded -> {batch[i][s] : s \in 1 .. Len(batch[i])} \cup {Enc!Padding}]
  BY <1>2, <1>5, <1>6
<1>. QED
  BY <1>2, <1>5, <1>6, <1>7 DEF Shows, row, n

(* What a row has to say is the text's tokens. *)
LEMMA LiveIsShown ==
  ASSUME NEW Ids, NEW text \in TextsOver(Ids), NEW row, NEW n, Shows(row, text, n)
  PROVE  /\ Enc!Live(row) = 1 .. n /\ row # <<>>
         /\ \A s \in 1 .. n : row[s] = text[s]
<1>1. PICK p \in Nat : p >= n /\ DOMAIN row = 1 .. p
  BY DEF Shows
<1>2. n \in Nat /\ n > 0 /\ n <= Len(text)
  BY DEF Shows
<1>3. ASSUME NEW s \in 1 .. n
      PROVE  s \in DOMAIN row /\ row[s] = text[s] /\ row[s].mask = 1
  <2>1. s \in 1 .. Len(text) /\ s \in DOMAIN row
    BY <1>1, <1>2
  <2>2. text[s] \in [id : Ids, mask : {1}]
    BY <2>1, ElementOfSeq DEF TextsOver
  <2>. QED
    BY <1>2, <2>1, <2>2 DEF Shows
<1>4. \A s \in DOMAIN row : s > n => row[s].mask = 0
  BY <1>1, <1>2 DEF Shows, Enc!Padding
<1>5. Enc!Live(row) = 1 .. n
  BY <1>1, <1>2, <1>3, <1>4 DEF Enc!Live
<1>6. 1 \in DOMAIN row
  BY <1>2, <1>3
<1>. QED
  BY <1>3, <1>5, <1>6

\* Two rows that show one text, and vectors that agree on its tokens.
SameText(text, n, row1, row2, hidden1, hidden2) ==
  /\ Shows(row1, text, n) /\ Shows(row2, text, n)
  /\ \A s \in 1 .. n : hidden1[s] = hidden2[s]

(* Every pooling reads the text's tokens only. *)
LEMMA PoolsTheText ==
  ASSUME NEW Ids, NEW text \in TextsOver(Ids), NEW n,
         NEW row1, NEW row2, NEW hidden1, NEW hidden2,
         SameText(text, n, row1, row2, hidden1, hidden2),
         NEW dim, NEW kind \in {"cls", "last-token", "max", "mean"}
  PROVE  Enc!Pool(row1, hidden1, dim, kind) = Enc!Pool(row2, hidden2, dim, kind)
<1>1. n \in Nat /\ n > 0 /\ \A s \in 1 .. n : hidden1[s] = hidden2[s]
  BY DEF SameText, Shows
<1>2. /\ Enc!Live(row1) = 1 .. n /\ row1 # <<>>
      /\ Enc!Live(row2) = 1 .. n /\ row2 # <<>>
  BY LiveIsShown DEF SameText
<1>3. 1 .. n # {} /\ Enc!Max(1 .. n) = n
  <2>1. n \in 1 .. n /\ \A y \in 1 .. n : n >= y
    BY <1>1
  <2>2. Enc!Max(1 .. n) \in 1 .. n /\ \A y \in 1 .. n : Enc!Max(1 .. n) >= y
    BY <2>1 DEF Enc!Max
  <2>. QED
    BY <1>1, <2>1, <2>2
<1>4. CASE kind = "cls"
  <2>1. hidden1[1] = hidden2[1]
    BY <1>1
  <2>. QED
    BY <1>2, <1>4, <2>1 DEF Enc!Pool
<1>5. CASE kind = "last-token"
  <2>1. hidden1[n] = hidden2[n]
    BY <1>1
  <2>. QED
    BY <1>2, <1>3, <1>5, <2>1 DEF Enc!Pool
<1>6. CASE kind = "max"
  <2>1. \A d : {hidden1[s][d] : s \in 1 .. n} = {hidden2[s][d] : s \in 1 .. n}
    BY <1>1
  <2>. QED
    BY <1>2, <1>3, <1>6, <2>1 DEF Enc!Pool
<1>7. CASE kind = "mean"
  <2>1. \A d : [s \in 1 .. n |-> hidden1[s][d]] = [s \in 1 .. n |-> hidden2[s][d]]
    BY <1>1
  <2>. QED
    BY <1>2, <1>3, <1>7, <2>1 DEF Enc!Pool
<1>. QED
  BY <1>4, <1>5, <1>6, <1>7

(* A generative reranker reads its answer behind the text's last token. *)
LEMMA AnswersTheText ==
  ASSUME NEW Ids, NEW text \in TextsOver(Ids), NEW n,
         NEW row1, NEW row2, NEW hidden1, NEW hidden2,
         SameText(text, n, row1, row2, hidden1, hidden2), NEW yes, NEW no
  PROVE  Enc!ScoreYesNo(row1, hidden1, yes, no) = Enc!ScoreYesNo(row2, hidden2, yes, no)
<1>1. n \in Nat /\ n > 0 /\ \A s \in 1 .. n : hidden1[s] = hidden2[s]
  BY DEF SameText, Shows
<1>2. Enc!Live(row1) = 1 .. n /\ Enc!Live(row2) = 1 .. n
  BY LiveIsShown DEF SameText
<1>3. 1 .. n # {} /\ Enc!Max(1 .. n) \in 1 .. n
  <2>1. n \in 1 .. n /\ \A y \in 1 .. n : n >= y
    BY <1>1
  <2>. QED
    BY <2>1 DEF Enc!Max
<1>4. hidden1[Enc!Max(1 .. n)] = hidden2[Enc!Max(1 .. n)]
  BY <1>1, <1>3
<1>. QED
  BY <1>2, <1>3, <1>4 DEF Enc!ScoreYesNo

(* The sparse vectors say nothing but the text's tokens. *)
LEMMA TermsOfTheText ==
  ASSUME NEW Ids, NEW text \in TextsOver(Ids), NEW n,
         NEW row1, NEW row2, NEW hidden1, NEW hidden2,
         SameText(text, n, row1, row2, hidden1, hidden2), NEW k, NEW order, NEW vocab
  PROVE  /\ Enc!PostProcessMlm(row1, hidden1, vocab, k) = Enc!PostProcessMlm(row2, hidden2, vocab, k)
         /\ Enc!PostProcessLexical(row1, hidden1, k, order) = Enc!PostProcessLexical(row2, hidden2, k, order)
<1>1. /\ Enc!Live(row1) = 1 .. n /\ \A s \in 1 .. n : row1[s] = text[s]
      /\ Enc!Live(row2) = 1 .. n /\ \A s \in 1 .. n : row2[s] = text[s]
      /\ \A s \in 1 .. n : hidden1[s] = hidden2[s]
  BY LiveIsShown DEF SameText
<1>2. Enc!PostProcessMlm(row1, hidden1, vocab, k) = Enc!PostProcessMlm(row2, hidden2, vocab, k)
  <2>. DEFINE weight1(v) == Enc!Max({0} \cup {Enc!ReLU(hidden1[s][v]) : s \in 1 .. n})
              weight2(v) == Enc!Max({0} \cup {Enc!ReLU(hidden2[s][v]) : s \in 1 .. n})
  <2>1. ASSUME NEW v PROVE weight1(v) = weight2(v)
    <3>1. {Enc!ReLU(hidden1[s][v]) : s \in 1 .. n} = {Enc!ReLU(hidden2[s][v]) : s \in 1 .. n}
      BY <1>1
    <3>. QED
      BY <3>1
  <2>. DEFINE terms1 == {[term |-> v, weight |-> weight1(v)] : v \in {v \in 1 .. vocab : weight1(v) > 0}}
              terms2 == {[term |-> v, weight |-> weight2(v)] : v \in {v \in 1 .. vocab : weight2(v) > 0}}
  <2>2. terms1 = terms2
    <3>. HIDE DEF weight1, weight2
    <3>. QED
      BY <2>1
  <2>3. /\ Enc!PostProcessMlm(row1, hidden1, vocab, k) = Enc!ApplyTopK(terms1, k, [v \in 1 .. vocab |-> v])
        /\ Enc!PostProcessMlm(row2, hidden2, vocab, k) = Enc!ApplyTopK(terms2, k, [v \in 1 .. vocab |-> v])
    BY <1>1, Zenon DEF Enc!PostProcessMlm
  <2>. HIDE DEF terms1, terms2
  <2>. QED
    BY <2>2, <2>3
<1>3. Enc!PostProcessLexical(row1, hidden1, k, order) = Enc!PostProcessLexical(row2, hidden2, k, order)
  <2>. DEFINE heavy == {s \in 1 .. n : hidden1[s] > 0}
              weight(t) == Enc!Max({hidden1[s] : s \in {x \in heavy : text[x].id = t}})
              terms == {[term |-> t, weight |-> weight(t)] : t \in {text[s].id : s \in heavy}}
  <2>1. ASSUME NEW row, NEW hidden, Enc!Live(row) = 1 .. n,
               \A s \in 1 .. n : row[s] = text[s] /\ hidden[s] = hidden1[s]
        PROVE  Enc!PostProcessLexical(row, hidden, k, order) = Enc!ApplyTopK(terms, k, order)
    <3>. DEFINE heavyR == {s \in Enc!Live(row) : hidden[s] > 0}
                weightR(t) == Enc!Max({hidden[s] : s \in {x \in heavyR : row[x].id = t}})
                termsR == {[term |-> t, weight |-> weightR(t)] : t \in {row[s].id : s \in heavyR}}
    <3>1. heavyR = heavy
      BY <2>1
    <3>2. {row[s].id : s \in heavyR} = {text[s].id : s \in heavy}
      BY <2>1, <3>1
    <3>3. ASSUME NEW t PROVE weightR(t) = weight(t)
      <4>1. {hidden[s] : s \in {x \in heavyR : row[x].id = t}} = {hidden1[s] : s \in {x \in heavy : text[x].id = t}}
        BY <2>1, <3>1
      <4>. QED
        BY <4>1
    <3>4. termsR = terms
      <4>. HIDE DEF weightR, weight, heavyR, heavy
      <4>. QED
        BY <3>2, <3>3
    <3>5. Enc!PostProcessLexical(row, hidden, k, order) = Enc!ApplyTopK(termsR, k, order)
      BY Zenon DEF Enc!PostProcessLexical
    <3>. HIDE DEF termsR, terms
    <3>. QED
      BY <3>4, <3>5
  <2>. QED
    BY <1>1, <2>1
<1>. QED
  BY <1>2, <1>3

(* ... and the vectors of single tokens. *)
LEMMA TokensOfTheText ==
  ASSUME NEW Ids, NEW text \in TextsOver(Ids), NEW n,
         NEW row1, NEW row2, NEW hidden1, NEW hidden2,
         SameText(text, n, row1, row2, hidden1, hidden2), NEW head
  PROVE  Enc!TokenVectors(row1, hidden1, head) = Enc!TokenVectors(row2, hidden2, head)
<1>. DEFINE places == [s \in 1 .. n |-> s]
            wanted == {s \in 1 .. n : ~(head.drop /\ Enc!IsSpecialToken(text[s].id))}
            kept == Filter(places, wanted)
<1>1. n \in Nat /\ places \in Seq(1 .. n)
  BY DEF SameText, Shows
<1>2. \A s \in DOMAIN kept : kept[s] \in 1 .. n
  <2>1. kept \in Seq((1 .. n) \cap wanted)
    BY <1>1, FilterType
  <2>. QED
    BY <2>1, ElementOfSeq
<1>3. ASSUME NEW row, NEW hidden, Shows(row, text, n), \A s \in 1 .. n : hidden[s] = hidden1[s]
      PROVE  Enc!TokenVectors(row, hidden, head)
               = [t \in DOMAIN kept |-> Enc!Normalized(Enc!Vector(hidden1[kept[t]], 1), head.normalize)]
  <2>1. PICK p \in Nat : p >= n /\ DOMAIN row = 1 .. p
    BY <1>3 DEF Shows
  <2>2. Enc!Live(row) = 1 .. n /\ \A s \in 1 .. n : row[s] = text[s]
    BY <1>3, LiveIsShown
  <2>3. {s \in Enc!Live(row) : ~(head.drop /\ Enc!IsSpecialToken(row[s].id))} = wanted
    BY <2>2
  <2>4. Filter([s \in DOMAIN row |-> s], wanted) = kept
    <3>. DEFINE padding == [s \in 1 .. p - n |-> n + s]
    <3>. HIDE DEF wanted
    <3>1. padding \in Seq(n + 1 .. p) /\ padding \in Seq(Nat) /\ places \in Seq(Nat)
      BY <1>1, <2>1
    <3>2. [s \in 1 .. p |-> s] = places \o padding
      BY <1>1, <2>1
    <3>. HIDE DEF padding, places
    <3>3. Filter(padding, wanted) = <<>>
      <4>1. (n + 1 .. p) \cap wanted = {}
        BY <1>1, <2>1 DEF wanted
      <4>. QED
        BY <3>1, <4>1, FilterNone
    <3>4. Filter(places \o padding, wanted) = Filter(places, wanted) \o Filter(padding, wanted)
      BY <3>1, FilterConcat
    <3>5. kept \o <<>> = kept
      <4>1. kept \in Seq(Nat \cap wanted)
        BY <3>1, FilterType
      <4>. QED
        BY <4>1
    <3>. QED
      BY <2>1, <3>2, <3>3, <3>4, <3>5
  <2>5. Enc!TokenVectors(row, hidden, head)
          = [t \in DOMAIN kept |-> Enc!Normalized(Enc!Vector(hidden[kept[t]], 1), head.normalize)]
    <3>. HIDE DEF wanted, kept
    <3>1. Enc!Filter([s \in DOMAIN row |-> s], wanted) = kept
      BY <2>4, Zenon DEF Enc!Filter, Filter
    <3>. QED
      BY <2>3, <3>1, Zenon DEF Enc!TokenVectors
  <2>. HIDE DEF kept
  <2>. QED
    BY <1>2, <1>3, <2>5
<1>. QED
  BY <1>3 DEF SameText

(* The vectors of a text do not depend on the texts it shares a batch      *)
(* with: rows of any two batches that hold the same text give the same     *)
(* dense, sparse and token vectors, for every recipe, and the same rerank  *)
(* score, if the graph gives the text's own tokens the same hidden         *)
(* vectors, whatever it gives at the padding (embedding.rs, pool;          *)
(* embed_sparse.rs; embed_multi_vector.rs; rerank_generative.rs).          *)
THEOREM VectorsIgnoreTheirBatch ==
  ASSUME NEW Ids,
         NEW batch1 \in Seq(TextsOver(Ids)), NEW i \in DOMAIN batch1,
         NEW batch2 \in Seq(TextsOver(Ids)), NEW j \in DOMAIN batch2,
         batch1[i] = batch2[j], batch1[i] # <<>>,
         NEW limit \in Nat \ {0}, NEW hidden1, NEW hidden2,
         \A s \in 1 .. CutAt(batch1[i], limit) : hidden1[s] = hidden2[s],
         NEW dim, NEW kind \in {"cls", "last-token", "max", "mean"},
         NEW vocab, NEW k, NEW order, NEW head, NEW yes, NEW no
  PROVE  LET row1 == Enc!TokenizeBatch(batch1, limit)[i]
             row2 == Enc!TokenizeBatch(batch2, limit)[j]
         IN  /\ Enc!Pool(row1, hidden1, dim, kind) = Enc!Pool(row2, hidden2, dim, kind)
             /\ Enc!PostProcessMlm(row1, hidden1, vocab, k) = Enc!PostProcessMlm(row2, hidden2, vocab, k)
             /\ Enc!PostProcessLexical(row1, hidden1, k, order)
                  = Enc!PostProcessLexical(row2, hidden2, k, order)
             /\ Enc!TokenVectors(row1, hidden1, head) = Enc!TokenVectors(row2, hidden2, head)
             /\ Enc!ScoreYesNo(row1, hidden1, yes, no) = Enc!ScoreYesNo(row2, hidden2, yes, no)
<1>. DEFINE text == batch1[i]
            n == CutAt(text, limit)
            row1 == Enc!TokenizeBatch(batch1, limit)[i]
            row2 == Enc!TokenizeBatch(batch2, limit)[j]
<1>1. text \in TextsOver(Ids)
  BY ElementOfSeq
<1>2. Shows(row1, text, n)
  BY RowsShowTheirTexts
<1>3. Shows(row2, text, n)
  BY RowsShowTheirTexts
<1>4. SameText(text, n, row1, row2, hidden1, hidden2)
  BY <1>2, <1>3 DEF SameText
<1>. HIDE DEF text, n, row1, row2
<1>5. Enc!Pool(row1, hidden1, dim, kind) = Enc!Pool(row2, hidden2, dim, kind)
  BY <1>1, <1>4, PoolsTheText
<1>6. /\ Enc!PostProcessMlm(row1, hidden1, vocab, k) = Enc!PostProcessMlm(row2, hidden2, vocab, k)
      /\ Enc!PostProcessLexical(row1, hidden1, k, order) = Enc!PostProcessLexical(row2, hidden2, k, order)
  BY <1>1, <1>4, TermsOfTheText
<1>7. Enc!TokenVectors(row1, hidden1, head) = Enc!TokenVectors(row2, hidden2, head)
  BY <1>1, <1>4, TokensOfTheText
<1>8. Enc!ScoreYesNo(row1, hidden1, yes, no) = Enc!ScoreYesNo(row2, hidden2, yes, no)
  BY <1>1, <1>4, AnswersTheText
<1>. QED
  BY <1>5, <1>6, <1>7, <1>8, Zenon DEF row1, row2

(***************************************************************************)
(* WhisperAudio: the scan of a WAV file.  Its chunks lie one behind the    *)
(* other, the scan visits each of them once, and of those that it visits   *)
(* only fmt and data add to what it has seen.                              *)
(***************************************************************************)
(* Sizes are padded to even ones. *)
LEMMA PaddedType == \A s \in Nat : Padded(s) \in Nat /\ Padded(s) >= s
BY DEF Padded

(* Where the chunks of a file lie. *)
Chunked(file, n) ==
  /\ n \in Nat /\ Len(file.chunks) = n /\ DOMAIN file.chunks = 1 .. n
  /\ \A k \in 1 .. n : file.chunks[k].size \in Nat
Laid(file, n, lies) ==
  /\ Starts(file) = lies /\ lies \in [1 .. n + 1 -> Nat] /\ lies[1] = 12
  /\ \A k \in 1 .. n : lies[k + 1] = lies[k] + 8 + Padded(file.chunks[k].size)

(* The places that Starts gives are those.                                 *)
LEMMA ChunksAreLaid ==
  ASSUME NEW file, NEW n, Chunked(file, n)
  PROVE  \E lies : Laid(file, n, lies)
<1>. DEFINE c == file.chunks
            X == Seq(Nat) \ {<<>>}
            base == <<12>>
            Put(s, k) == Append(s, Last(s) + 8 + Padded(c[k].size))
            move == [k \in 1 .. n |-> [s \in X |-> Put(s, k)]]
            Taken(h) == h = [S \in SUBSET DOMAIN c |-> IF S = {} THEN base ELSE Put(h[S \ {Max(S)}], Max(S))]
            fold == CHOOSE h : Taken(h)
<1>1. n \in Nat /\ DOMAIN c = 1 .. n /\ \A k \in 1 .. n : c[k].size \in Nat
  BY DEF Chunked
<1>2. base \in X
  OBVIOUS
<1>0. \A k \in 1 .. n : Padded(c[k].size) \in Nat
  BY <1>1, PaddedType
<1>3. \A k \in 1 .. n : \A s \in X :
        /\ Last(s) \in Nat /\ Last(s) = s[Len(s)] /\ Len(s) \in Nat \ {0}
        /\ Put(s, k) \in X /\ Len(Put(s, k)) = Len(s) + 1
  <2>. TAKE k \in 1 .. n
  <2>. TAKE s \in X
  <2>1. Len(s) \in Nat /\ Len(s) # 0 /\ Len(s) \in DOMAIN s
    BY EmptySeq
  <2>2. Last(s) = s[Len(s)] /\ s[Len(s)] \in Nat
    BY <2>1, ElementOfSeq DEF Last
  <2>3. Last(s) + 8 + Padded(c[k].size) \in Nat
    <3>1. Padded(c[k].size) \in Nat /\ Last(s) \in Nat
      BY <1>0, <2>2
    <3>. HIDE DEF c
    <3>. QED
      BY <3>1
  <2>. QED
    BY <2>1, <2>2, <2>3
<1>. HIDE DEF Put, X, base, c
<1>4. move \in [1 .. n -> [X -> X]]
  BY <1>3
<1>5. Taken(fold)
  <2>1. PICK it \in [SUBSET (1 .. n) -> X] : TakesGreatest(it, n, base, move)
    <3>. HIDE DEF move
    <3>. QED
      BY <1>1, <1>2, <1>4, TakingExists
  <2>2. ASSUME NEW S \in SUBSET (1 .. n)
        PROVE  it[S] = IF S = {} THEN base ELSE Put(it[S \ {Max(S)}], Max(S))
    <3>1. CASE S # {}
      <4>1. Max(S) \in S /\ it[S \ {Max(S)}] \in X
        <5>1. Max(S) \in S
          BY <1>1, <3>1, GreatestIsThere
        <5>. QED
          BY <5>1
      <4>. QED
        BY <2>1, <3>1, <4>1 DEF TakesGreatest
    <3>. QED
      BY <2>1, <3>1 DEF TakesGreatest
  <2>3. Taken(it)
    BY <1>1, <2>2
  <2>. HIDE DEF Taken
  <2>. QED
    BY <2>3
<1>6. PICK f \in [0 .. n -> X] : FoldsTo(f, n, base, move) /\ fold[1 .. n] = f[n]
  <2>1. fold = [S \in SUBSET (1 .. n) |-> IF S = {} THEN base ELSE Put(fold[S \ {Max(S)}], Max(S))]
    <3>. HIDE DEF fold
    <3>. QED
      BY <1>1, <1>5
  <2>. HIDE DEF fold
  <2>2. fold[{}] = base
    BY <2>1
  <2>3. ASSUME NEW S \in SUBSET (1 .. n), S # {}, fold[S \ {Max(S)}] \in X
        PROVE  fold[S] = move[Max(S)][fold[S \ {Max(S)}]]
    <3>1. Max(S) \in S
      BY <1>1, <2>3, GreatestIsThere
    <3>2. fold[S] = Put(fold[S \ {Max(S)}], Max(S))
      BY <2>1, <2>3
    <3>3. move[Max(S)] = [x \in X |-> Put(x, Max(S))]
      BY <3>1
    <3>. QED
      BY <2>3, <3>2, <3>3
  <2>. HIDE DEF move
  <2>4. TakesSteps(fold, n, X, base, move)
    BY <2>2, <2>3 DEF TakesSteps
  <2>5. n \in Nat
    BY <1>1
  <2>. QED
    BY <1>2, <1>4, <2>4, <2>5, TakingFolds
<1>7. Starts(file) = f[n]
  <2>1. Starts(file) = fold[DOMAIN c]
    BY DEF Starts, FoldLeft, MapThenFoldSet, Put, base, c
  <2>. HIDE DEF fold
  <2>. QED
    BY <1>1, <1>6, <2>1
<1>. HIDE DEF fold
<1>. DEFINE lies == f[n]
            T == {k \in Nat : k <= n => /\ Len(f[k]) = k + 1 /\ f[k][1] = 12
                                        /\ \A j \in 1 .. k : f[k][j + 1] = f[k][j] + 8 + Padded(c[j].size)}
<1>8. 0 \in T
  <2>1. f[0] = <<12>>
    BY <1>6 DEF FoldsTo, base
  <2>2. Len(f[0]) = 0 + 1 /\ f[0][1] = 12
    BY <2>1
  <2>. QED
    BY <2>2
<1>9. ASSUME NEW k \in Nat, k \in T PROVE k + 1 \in T
  <2>. SUFFICES ASSUME k + 1 <= n
                PROVE  /\ Len(f[k + 1]) = (k + 1) + 1 /\ f[k + 1][1] = 12
                       /\ \A j \in 1 .. k + 1 : f[k + 1][j + 1] = f[k + 1][j] + 8 + Padded(c[j].size)
    OBVIOUS
  <2>1. k + 1 \in 1 .. n /\ (k + 1) - 1 = k /\ k \in 0 .. n /\ k <= n
    BY <1>1
  <2>2. f[k] \in X /\ f[k + 1] = Put(f[k], k + 1)
    BY <1>6, <2>1 DEF FoldsTo
  <2>3. /\ Len(f[k]) = k + 1 /\ f[k][1] = 12
        /\ \A j \in 1 .. k : f[k][j + 1] = f[k][j] + 8 + Padded(c[j].size)
    BY <1>9, <2>1
  <2>4. f[k] \in Seq(Nat) /\ Last(f[k]) = f[k][k + 1] /\ Last(f[k]) + 8 + Padded(c[k + 1].size) \in Nat
    <3>1. Last(f[k]) = f[k][k + 1] /\ Last(f[k]) \in Nat
      BY <1>3, <2>1, <2>2, <2>3
    <3>2. Padded(c[k + 1].size) \in Nat
      BY <1>0, <2>1
    <3>3. f[k] \in Seq(Nat)
      BY <2>2 DEF X
    <3>. QED
      BY <3>1, <3>2, <3>3
  <2>. DEFINE x == Last(f[k]) + 8 + Padded(c[k + 1].size)
  <2>5. f[k + 1] = Append(f[k], x)
    BY <2>2 DEF Put
  <2>. HIDE DEF x
  <2>6. /\ Len(f[k + 1]) = (k + 1) + 1 /\ f[k + 1][k + 2] = x
        /\ \A j \in 1 .. k + 1 : f[k + 1][j] = f[k][j]
    BY <2>3, <2>4, <2>5, AppendProperties DEF x
  <2>7. ASSUME NEW j \in 1 .. k + 1 PROVE f[k + 1][j + 1] = f[k + 1][j] + 8 + Padded(c[j].size)
    <3>1. CASE j = k + 1
      <4>1. f[k + 1][k + 2] = f[k][k + 1] + 8 + Padded(c[k + 1].size) /\ k + 1 \in 1 .. k + 1
        BY <2>4, <2>6 DEF x
      <4>2. j + 1 = k + 2
        BY <3>1
      <4>. QED
        BY <2>6, <3>1, <4>1, <4>2
    <3>2. CASE j # k + 1
      <4>1. j \in 1 .. k /\ j + 1 \in 1 .. k + 1
        BY <3>2
      <4>. QED
        BY <2>3, <2>6, <4>1
    <3>. QED
      BY <3>1, <3>2
  <2>. QED
    BY <2>3, <2>6, <2>7
<1>10. n \in T /\ n <= n /\ n \in 0 .. n
  <2>1. \A k \in Nat : k \in T
    <3>. HIDE DEF T
    <3>. QED
      BY <1>8, <1>9, NatInductive
  <2>. HIDE DEF T
  <2>. QED
    BY <1>1, <2>1
<1>11. /\ Len(lies) = n + 1 /\ lies[1] = 12
       /\ \A j \in 1 .. n : lies[j + 1] = lies[j] + 8 + Padded(c[j].size)
  BY <1>10
<1>12. lies \in [1 .. n + 1 -> Nat]
  <2>1. lies \in X
    BY <1>10
  <2>. HIDE DEF lies
  <2>. QED
    BY <1>11, <2>1, LenProperties DEF X
<1>13. Laid(file, n, lies)
  BY <1>7, <1>11, <1>12 DEF Laid, c
<1>. QED
  BY <1>13

(* Later chunks lie at least a header further on. *)
LEMMA ChunksAreApart ==
  ASSUME NEW file, NEW n, Chunked(file, n), NEW lies, Laid(file, n, lies),
         NEW i \in 1 .. n + 1, NEW j \in 1 .. n + 1, i < j
  PROVE  lies[i] + 8 <= lies[j]
<1>1. /\ n \in Nat /\ lies \in [1 .. n + 1 -> Nat]
      /\ \A k \in 1 .. n : lies[k + 1] \in Nat /\ lies[k] \in Nat /\ lies[k + 1] >= lies[k] + 8
  <2>1. n \in Nat /\ lies \in [1 .. n + 1 -> Nat]
    BY DEF Chunked, Laid
  <2>2. ASSUME NEW k \in 1 .. n PROVE lies[k + 1] \in Nat /\ lies[k] \in Nat /\ lies[k + 1] >= lies[k] + 8
    <3>1. lies[k + 1] \in Nat /\ lies[k] \in Nat
      BY <2>1
    <3>2. lies[k + 1] = lies[k] + 8 + Padded(file.chunks[k].size) /\ Padded(file.chunks[k].size) \in Nat
      BY PaddedType DEF Chunked, Laid
    <3>. QED
      BY <3>1, <3>2
  <2>. QED
    BY <2>1, <2>2
<1>. DEFINE T == {m \in Nat : i + m + 1 <= n + 1 => lies[i] + 8 <= lies[i + m + 1]}
<1>2. 0 \in T
  <2>1. i + 0 + 1 = i + 1 /\ i \in Nat
    OBVIOUS
  <2>2. i + 1 <= n + 1 => i \in 1 .. n
    BY <1>1
  <2>. QED
    BY <1>1, <2>1, <2>2
<1>3. ASSUME NEW m \in Nat, m \in T PROVE m + 1 \in T
  <2>. SUFFICES ASSUME i + (m + 1) + 1 <= n + 1 PROVE lies[i] + 8 <= lies[i + (m + 1) + 1]
    OBVIOUS
  <2>1. i + m + 1 \in 1 .. n /\ i + (m + 1) + 1 = (i + m + 1) + 1 /\ i + m + 1 <= n + 1
    BY <1>1
  <2>2. lies[i] + 8 <= lies[i + m + 1]
    BY <1>3, <2>1
  <2>3. lies[i] \in Nat
    BY <1>1
  <2>. DEFINE q == i + m + 1
  <2>4. lies[q + 1] \in Nat /\ lies[q] \in Nat /\ lies[q + 1] >= lies[q] + 8
    BY <1>1, <2>1
  <2>5. lies[i] + 8 <= lies[q + 1]
    <3>1. lies[i] + 8 <= lies[q]
      BY <2>2
    <3>. HIDE DEF q
    <3>. QED
      BY <2>3, <2>4, <3>1
  <2>. QED
    BY <2>1, <2>5
<1>4. \A m \in Nat : m \in T
  <2>. HIDE DEF T
  <2>. QED
    BY <1>2, <1>3, NatInductive
<1>5. (j - i) - 1 \in Nat /\ i + ((j - i) - 1) + 1 = j /\ j <= n + 1
  OBVIOUS
<1>6. (j - i) - 1 \in T
  <2>. HIDE DEF T
  <2>. QED
    BY <1>4, <1>5
<1>. QED
  BY <1>5, <1>6

(* At the place of a chunk there is this chunk; everywhere there is one of some size. *)
LEMMA ChunksAreFound ==
  ASSUME NEW file, NEW n, Chunked(file, n), NEW lies, Laid(file, n, lies)
  PROVE  /\ \A k \in 1 .. n : ChunkAt(file, lies[k]) = file.chunks[k]
         /\ \A i : ChunkAt(file, i).size \in Nat
<1>1. /\ n \in Nat /\ DOMAIN file.chunks = 1 .. n /\ \A k \in 1 .. n : file.chunks[k].size \in Nat
      /\ Starts(file) = lies /\ lies \in [1 .. n + 1 -> Nat]
  BY DEF Chunked, Laid
<1>2. ASSUME NEW k \in 1 .. n PROVE ChunkAt(file, lies[k]) = file.chunks[k]
  <2>. DEFINE ks == {x \in 1 .. n : lies[x] = lies[k]}
  <2>1. ASSUME NEW x \in ks, x # k PROVE FALSE
    <3>1. lies[x] = lies[k] /\ x \in 1 .. n + 1 /\ k \in 1 .. n + 1 /\ (x < k \/ k < x)
      BY <1>1, <2>1
    <3>2. x < k => lies[x] + 8 <= lies[k]
      BY <3>1, ChunksAreApart
    <3>3. k < x => lies[k] + 8 <= lies[x]
      BY <3>1, ChunksAreApart
    <3>4. lies[k] \in Nat /\ lies[x] \in Nat
      BY <1>1, <3>1
    <3>. QED
      BY <3>1, <3>2, <3>3, <3>4
  <2>2. ks = {k}
    BY <2>1
  <2>3. ChunkAt(file, lies[k]) = IF ks = {} THEN [id |-> "bytes", size |-> 0, says |-> <<>>]
                               ELSE file.chunks[CHOOSE x \in ks : TRUE]
    BY <1>1 DEF ChunkAt
  <2>. HIDE DEF ks
  <2>4. (CHOOSE x \in ks : TRUE) = k
    BY <2>2
  <2>. QED
    BY <2>2, <2>3, <2>4
<1>3. ASSUME NEW i PROVE ChunkAt(file, i).size \in Nat
  <2>. DEFINE ks == {x \in 1 .. n : lies[x] = i}
  <2>1. ChunkAt(file, i) = IF ks = {} THEN [id |-> "bytes", size |-> 0, says |-> <<>>]
                           ELSE file.chunks[CHOOSE x \in ks : TRUE]
    BY <1>1 DEF ChunkAt
  <2>2. ks # {} => (CHOOSE x \in ks : TRUE) \in 1 .. n
    OBVIOUS
  <2>. HIDE DEF ks
  <2>. QED
    BY <1>1, <2>1, <2>2
<1>. QED
  BY <1>2, <1>3

(* What the recursion of ScanFrom has found from a byte on. *)
PathOnly(path) == [fmt |-> <<>>, data |-> <<>>, error |-> "none", path |-> path]
(* Where the scan goes on behind the chunk at byte i.                      *)
Behind(file, i) ==
  LET next == i + 8 + Advance(ChunkAt(file, i).size) IN IF next > file.length THEN file.length + 1 ELSE next
Scanning(scan, file) ==
  scan = [i \in 12 .. (file.length + 1) |->
            IF i + 8 > file.length THEN PathOnly(<<>>)
            ELSE LET next == i + 8 + Advance(ChunkAt(file, i).size)
                     rest == scan[IF next > file.length THEN file.length + 1 ELSE next]
                 IN  [rest EXCEPT !.path = <<i>> \o @]]
Scanned(file, scan) ==
  \A i \in 12 .. (file.length + 1) :
    scan[i] = IF i + 8 > file.length THEN PathOnly(<<>>)
              ELSE [scan[Behind(file, i)] EXCEPT !.path = <<i>> \o @]

(* The recursion has a solution, and ScanFrom takes it.                    *)
LEMMA ScanExists ==
  ASSUME NEW file, NEW n, Chunked(file, n), NEW lies, Laid(file, n, lies), file.length \in Nat, file.length >= 12
  PROVE  \E scan : Scanning(scan, file) /\ Scanned(file, scan)
           /\ (CHOOSE h : Scanning(h, file)) = scan
<1>. DEFINE L == file.length
            end == L + 1
            D == 12 .. end
            V == [fmt : {<<>>}, data : {<<>>}, error : {"none"}, path : Seq(Nat)]
            base == PathOnly(<<>>)
            stop == {i \in D : i + 8 > L}
            next == [i \in D |-> IF i \in stop THEN i ELSE Behind(file, i)]
            move == [i \in D |-> [v \in V |-> [v EXCEPT !.path = <<i>> \o @]]]
            scan == CHOOSE h : Scanning(h, file)
<1>1. L \in Nat /\ 12 <= end /\ end \in Nat
  OBVIOUS
<1>2. base \in V
  BY DEF PathOnly
<1>3. ASSUME NEW i \in D, i \notin stop PROVE Behind(file, i) \in D /\ Behind(file, i) > i
  <2>1. ChunkAt(file, i).size \in Nat
    BY ChunksAreFound
  <2>2. Advance(ChunkAt(file, i).size) \in Nat
    BY <2>1, PaddedType DEF Advance
  <2>. DEFINE more == Advance(ChunkAt(file, i).size)
  <2>3. Behind(file, i) = IF i + 8 + more > L THEN L + 1 ELSE i + 8 + more
    BY DEF Behind
  <2>4. i \in Nat /\ i >= 12 /\ i + 8 <= L
    BY <1>1, <1>3
  <2>. HIDE DEF more
  <2>5. more \in Nat
    BY <2>2 DEF more
  <2>. QED
    BY <1>1, <2>3, <2>4, <2>5
<1>4. next \in [D -> D]
  BY <1>3
<1>5. \A i \in D : i \notin stop => next[i] > i
  BY <1>3
<1>6. move \in [D -> [V -> V]]
  <2>1. ASSUME NEW i \in D, NEW v \in V PROVE [v EXCEPT !.path = <<i>> \o @] \in V
    <3>1. i \in Nat /\ v.path \in Seq(Nat)
      BY <1>1
    <3>2. <<i>> \o v.path \in Seq(Nat)
      BY <3>1
    <3>. QED
      BY <3>2
  <2>. HIDE DEF V, D
  <2>. QED
    BY <2>1
<1>a. Ahead(V, 12, end, base, stop, next, move)
  <2>. HIDE DEF V, base, stop, next, move, end
  <2>. QED
    BY <1>1, <1>2, <1>4, <1>5, <1>6 DEF Ahead
<1>b. PICK g : ReadsAhead(g, V, 12, end, base, stop, next, move)
  <2>. HIDE DEF V, base, stop, next, move, end
  <2>. QED
    BY <1>a, BackwardsExist
<1>7. g \in [D -> V] /\ \A i \in D : g[i] = IF i \in stop THEN base ELSE move[i][g[next[i]]]
  <2>. HIDE DEF V, base, stop, next, move, end
  <2>. QED
    BY <1>b DEF ReadsAhead
<1>8. ASSUME NEW i \in D
      PROVE  g[i] = IF i + 8 > L THEN PathOnly(<<>>) ELSE [g[Behind(file, i)] EXCEPT !.path = <<i>> \o @]
  <2>1. CASE i \in stop
    BY <1>7, <2>1
  <2>2. CASE i \notin stop
    <3>1. next[i] = Behind(file, i) /\ Behind(file, i) \in D /\ ~(i + 8 > L)
      BY <1>3, <2>2
    <3>2. g[i] = move[i][g[Behind(file, i)]] /\ g[Behind(file, i)] \in V
      BY <1>7, <2>2, <3>1
    <3>3. move[i][g[Behind(file, i)]] = [g[Behind(file, i)] EXCEPT !.path = <<i>> \o @]
      BY <3>2
    <3>. QED
      BY <3>1, <3>2, <3>3
  <2>. QED
    BY <2>1, <2>2
<1>9. Scanning(g, file)
  <2>1. g = [i \in D |-> IF i + 8 > L THEN PathOnly(<<>>) ELSE [g[Behind(file, i)] EXCEPT !.path = <<i>> \o @]]
    <3>. HIDE DEF V, D
    <3>. QED
      BY <1>7, <1>8
  <2>. QED
    BY <2>1, Zenon DEF Scanning, Behind
<1>10. Scanning(scan, file)
  <2>. HIDE DEF Scanning
  <2>. QED
    BY <1>9
<1>. HIDE DEF scan
<1>11. Scanned(file, scan)
  <2>1. scan = [i \in D |-> IF i + 8 > L THEN PathOnly(<<>>) ELSE [scan[Behind(file, i)] EXCEPT !.path = <<i>> \o @]]
    BY <1>10, Zenon DEF Scanning, Behind
  <2>. HIDE DEF V
  <2>2. \A i \in D : scan[i] = IF i + 8 > L THEN PathOnly(<<>>) ELSE [scan[Behind(file, i)] EXCEPT !.path = <<i>> \o @]
    BY <2>1, Zenon
  <2>. QED
    BY <2>2, Zenon DEF Scanned
<1>. QED
  BY <1>10, <1>11 DEF scan

(* The chunks fill the file: the header of the last one fits, and behind it *)
(* no other does.                                                           *)
Filled(file, n, lies) == n >= 1 /\ lies[n] + 8 <= file.length /\ lies[n + 1] + 8 > file.length

(* The scan visits the chunks, one after the other. *)
LEMMA ScanVisitsChunks ==
  ASSUME NEW file, NEW n, Chunked(file, n), NEW lies, Laid(file, n, lies), Filled(file, n, lies),
         file.length \in Nat, file.length >= 12, NEW scan, Scanned(file, scan)
  PROVE  scan[12].path = [k \in 1 .. n |-> lies[k]]
<1>. DEFINE L == file.length
            Cap(i) == IF i > L THEN L + 1 ELSE i
            Rest(m) == [j \in 1 .. m |-> lies[(n - m) + j]]
            T == {m \in Nat : m <= n => scan[Cap(lies[(n - m) + 1])] = PathOnly(Rest(m))}
<1>1. /\ n \in Nat /\ L \in Nat /\ lies \in [1 .. n + 1 -> Nat] /\ lies[1] = 12
      /\ \A k \in 1 .. n : lies[k + 1] = lies[k] + 8 + Padded(file.chunks[k].size)
  BY DEF Chunked, Laid
<1>2. \A k \in 1 .. n + 1 : lies[k] >= 12 /\ lies[k] \in Nat
  <2>. TAKE k \in 1 .. n + 1
  <2>1. lies[k] \in Nat /\ lies[1] \in Nat /\ 1 \in 1 .. n + 1
    BY <1>1
  <2>2. 1 < k => lies[1] + 8 <= lies[k]
    BY <2>1, ChunksAreApart
  <2>. QED
    BY <1>1, <2>1, <2>2
<1>3. \A k \in 1 .. n : lies[k] + 8 <= L /\ lies[k] \in 12 .. L + 1
  <2>. TAKE k \in 1 .. n
  <2>1. k \in 1 .. n + 1 /\ n \in 1 .. n + 1
    BY <1>1
  <2>2. k < n => lies[k] + 8 <= lies[n]
    BY <2>1, ChunksAreApart
  <2>3. lies[n] + 8 <= L
    BY DEF Filled
  <2>4. lies[k] \in Nat /\ lies[n] \in Nat /\ lies[k] >= 12
    BY <1>2, <2>1
  <2>5. lies[k] + 8 <= L
    <3>1. k = n \/ k < n
      BY <1>1
    <3>2. CASE k = n
      BY <2>3, <3>2
    <3>3. CASE k < n
      <4>1. lies[k] + 8 <= lies[n]
        BY <2>2, <3>3
      <4>2. lies[n] <= L /\ L \in Nat
        <5>1. lies[n] \in Nat /\ L \in Nat
          BY <1>1, <2>4
        <5>. HIDE DEF L
        <5>. QED
          BY <2>3, <5>1
      <4>. HIDE DEF L
      <4>. QED
        BY <2>4, <4>1, <4>2
    <3>. QED
      BY <3>1, <3>2, <3>3
  <2>. QED
    BY <1>1, <2>4, <2>5
<1>4. \A k \in 1 .. n : Behind(file, lies[k]) = Cap(lies[k + 1])
  <2>. TAKE k \in 1 .. n
  <2>1. ChunkAt(file, lies[k]) = file.chunks[k]
    BY ChunksAreFound
  <2>2. lies[k] + 8 + Advance(ChunkAt(file, lies[k]).size) = lies[k + 1]
    BY <1>1, <2>1 DEF Advance
  <2>. QED
    BY <2>2 DEF Behind
<1>5. 0 \in T
  <2>1. (n - 0) + 1 = n + 1 /\ n + 1 \in 1 .. n + 1
    BY <1>1
  <2>2. lies[n + 1] \in Nat /\ lies[n + 1] >= 12 /\ lies[n + 1] + 8 > L
    BY <1>2, <2>1 DEF Filled
  <2>3. Cap(lies[n + 1]) \in 12 .. L + 1 /\ Cap(lies[n + 1]) + 8 > L
    BY <1>1, <2>2
  <2>4. scan[Cap(lies[n + 1])] = PathOnly(<<>>)
    <3>. HIDE DEF Cap
    <3>. QED
      BY <2>3 DEF Scanned
  <2>5. Rest(0) = <<>>
    OBVIOUS
  <2>. QED
    BY <2>1, <2>4, <2>5
<1>6. ASSUME NEW m \in Nat, m \in T PROVE m + 1 \in T
  <2>. SUFFICES ASSUME m + 1 <= n
                PROVE  scan[Cap(lies[(n - (m + 1)) + 1])] = PathOnly(Rest(m + 1))
    OBVIOUS
  <2>. DEFINE k == n - m
  <2>1. k \in 1 .. n /\ (n - (m + 1)) + 1 = k /\ m <= n
    BY <1>1
  <2>2. Cap(lies[k]) = lies[k]
    BY <1>1, <1>2, <1>3, <2>1
  <2>3. scan[Cap(lies[k + 1])] = PathOnly(Rest(m))
    BY <1>6, <2>1
  <2>4. lies[k] \in 12 .. L + 1 /\ ~(lies[k] + 8 > L)
    BY <1>1, <1>2, <1>3, <2>1
  <2>5. scan[lies[k]] = [scan[Behind(file, lies[k])] EXCEPT !.path = <<lies[k]>> \o @]
    BY <2>4 DEF Scanned
  <2>6. scan[lies[k]] = [PathOnly(Rest(m)) EXCEPT !.path = <<lies[k]>> \o @]
    BY <1>4, <2>1, <2>3, <2>5
  <2>7. scan[lies[k]] = PathOnly(<<lies[k]>> \o Rest(m))
    BY <2>6 DEF PathOnly
  <2>8. <<lies[k]>> \o Rest(m) = Rest(m + 1)
    <3>. DEFINE s == Rest(m)
    <3>1. s \in Seq(Nat) /\ Len(s) = m /\ lies[k] \in Nat
      <4>1. \A j \in 1 .. m : (n - m) + j \in 1 .. n + 1
        BY <1>1, <2>1
      <4>. QED
        BY <1>1, <2>1, <4>1
    <3>2. /\ Len(<<lies[k]>> \o s) = m + 1 /\ <<lies[k]>> \o s \in Seq(Nat) /\ (<<lies[k]>> \o s)[1] = lies[k]
          /\ \A j \in 2 .. m + 1 : (<<lies[k]>> \o s)[j] = s[j - 1]
      <4>. HIDE DEF s
      <4>. QED
        BY <3>1
    <3>3. \A j \in 2 .. m + 1 : s[j - 1] = lies[(n - (m + 1)) + j]
      <4>. TAKE j \in 2 .. m + 1
      <4>1. j - 1 \in 1 .. m /\ (n - m) + (j - 1) = (n - (m + 1)) + j
        BY <1>1
      <4>. QED
        BY <4>1
    <3>. DEFINE u == <<lies[k]>> \o s
    <3>4. \A j \in 1 .. m + 1 : u[j] = lies[(n - (m + 1)) + j]
      <4>. HIDE DEF s
      <4>. QED
        BY <2>1, <3>2, <3>3
    <3>5. DOMAIN u = 1 .. m + 1 /\ u = [j \in DOMAIN u |-> u[j]]
      <4>. HIDE DEF s
      <4>. QED
        BY <3>2
    <3>. HIDE DEF u
    <3>6. u = Rest(m + 1)
      BY <3>4, <3>5
    <3>. QED
      BY <3>6 DEF u
  <2>. HIDE DEF Cap, Rest, k
  <2>. QED
    BY <2>1, <2>2, <2>7, <2>8
<1>7. \A m \in Nat : m \in T
  <2>. HIDE DEF T
  <2>. QED
    BY <1>5, <1>6, NatInductive
<1>8. n \in T /\ n <= n /\ (n - n) + 1 = 1
  <2>. HIDE DEF T
  <2>. QED
    BY <1>1, <1>7
<1>9. scan[Cap(lies[1])] = PathOnly(Rest(n))
  BY <1>8
<1>10. Cap(lies[1]) = 12 /\ Rest(n) = [k \in 1 .. n |-> lies[k]]
  <2>1. \A j \in 1 .. n : (n - n) + j = j
    BY <1>1
  <2>. QED
    BY <1>1, <2>1
<1>. HIDE DEF Cap, Rest
<1>11. scan[12] = PathOnly([k \in 1 .. n |-> lies[k]])
  BY <1>9, <1>10
<1>. QED
  BY <1>11 DEF PathOnly

(* A file with one fmt chunk, whose body is there, and one data chunk; the *)
(* bytes of that one.                                                      *)
Recording(file, n, lies, f, d) ==
  /\ f \in 1 .. n /\ file.chunks[f].id = "fmt" /\ file.chunks[f].size >= 16 /\ lies[f] + 24 <= file.length
  /\ d \in 1 .. n /\ file.chunks[d].id = "data"
  /\ \A k \in 1 .. n : (k # f => file.chunks[k].id # "fmt") /\ (k # d => file.chunks[k].id # "data")
Body(file, lies, d) ==
  LET start == lies[d] + 8
  IN  <<start, IF start + file.chunks[d].size <= file.length THEN start + file.chunks[d].size ELSE file.length>>
Seen(fmt, data) == [fmt |-> fmt, data |-> data, error |-> "none"]

(* A chunk that is neither leaves what was seen as it is. *)
LEMMA ChunksAreSeen ==
  ASSUME NEW file, NEW n, Chunked(file, n), NEW lies, Laid(file, n, lies), file.length \in Nat,
         NEW f, NEW d, Recording(file, n, lies, f, d), NEW k \in 1 .. n, NEW fmt, NEW data
  PROVE  ScanChunk(file, lies[k], Seen(fmt, data))
           = Seen(IF k = f THEN file.chunks[f].says ELSE fmt, IF k = d THEN Body(file, lies, d) ELSE data)
<1>1. ChunkAt(file, lies[k]) = file.chunks[k]
  BY ChunksAreFound
<1>2. lies[k] \in Nat /\ k \in 1 .. n + 1 /\ file.chunks[k].size \in Nat
  BY DEF Laid, Chunked
<1>3. CASE k = f
  <2>1. /\ file.chunks[k].id = "fmt" /\ file.chunks[k].size >= 16 /\ lies[k] + 8 + 16 <= file.length /\ k # d
        /\ ~(file.chunks[k].size < 16) /\ ~(lies[k] + 8 + 16 > file.length)
    BY <1>2, <1>3 DEF Recording
  <2>2. ScanChunk(file, lies[k], Seen(fmt, data)) = [Seen(fmt, data) EXCEPT !.fmt = file.chunks[k].says]
    BY <1>1, <2>1 DEF ScanChunk
  <2>. QED
    BY <1>3, <2>1, <2>2 DEF Seen
<1>4. CASE k = d
  <2>1. file.chunks[k].id = "data" /\ k # f
    BY <1>4 DEF Recording
  <2>2. ScanChunk(file, lies[k], Seen(fmt, data)) = [Seen(fmt, data) EXCEPT !.data = Body(file, lies, d)]
    BY <1>1, <1>4, <2>1 DEF ScanChunk, Body
  <2>. QED
    BY <1>4, <2>1, <2>2 DEF Seen
<1>5. CASE k # f /\ k # d
  <2>1. file.chunks[k].id # "fmt" /\ file.chunks[k].id # "data"
    BY <1>5 DEF Recording
  <2>2. ScanChunk(file, lies[k], Seen(fmt, data)) = Seen(fmt, data)
    BY <1>1, <2>1 DEF ScanChunk
  <2>. QED
    BY <1>5, <2>2
<1>. QED
  BY <1>3, <1>4, <1>5

(* So the scan ends with the two of them. *)
LEMMA ScanSeesBoth ==
  ASSUME NEW file, NEW n, Chunked(file, n), NEW lies, Laid(file, n, lies), Filled(file, n, lies),
         file.length \in Nat, file.length >= 12, NEW f, NEW d, Recording(file, n, lies, f, d)
  PROVE  ScanFrom(file) = Seen(file.chunks[f].says, Body(file, lies, d))
<1>. DEFINE scan == CHOOSE h : Scanning(h, file)
            path == scan[12].path
            says == file.chunks[f].says
            body == Body(file, lies, d)
            X == {Seen(fmt, data) : fmt \in {<<>>, says}, data \in {<<>>, body}}
            base == Seen(<<>>, <<>>)
            Sight(seen, i) == IF seen.error # "none" THEN seen ELSE ScanChunk(file, i, seen)
            move == [k \in 1 .. n |-> [s \in X |-> Sight(s, lies[k])]]
            Taken(h) == h = [S \in SUBSET DOMAIN path |->
                              IF S = {} THEN base ELSE Sight(h[S \ {Max(S)}], path[Max(S)])]
            fold == CHOOSE h : Taken(h)
<1>1. n \in Nat
  BY DEF Chunked
<1>2. base \in X
  OBVIOUS
<1>3. path = [k \in 1 .. n |-> lies[k]]
  <2>1. PICK s : Scanning(s, file) /\ Scanned(file, s) /\ (CHOOSE h : Scanning(h, file)) = s
    BY ScanExists
  <2>2. s[12].path = [k \in 1 .. n |-> lies[k]]
    BY <2>1, ScanVisitsChunks
  <2>. QED
    BY <2>1, <2>2
<1>4. ScanFrom(file) = fold[DOMAIN path]
  BY DEF ScanFrom, FoldLeft, MapThenFoldSet, Scanning, PathOnly, Seen
<1>. HIDE DEF path, scan
<1>5. ASSUME NEW k \in 1 .. n, NEW fmt, NEW data
      PROVE  Sight(Seen(fmt, data), lies[k]) = Seen(IF k = f THEN says ELSE fmt, IF k = d THEN body ELSE data)
  <2>1. Seen(fmt, data).error = "none"
    BY DEF Seen
  <2>2. ScanChunk(file, lies[k], Seen(fmt, data))
          = Seen(IF k = f THEN says ELSE fmt, IF k = d THEN body ELSE data)
    BY ChunksAreSeen
  <2>. HIDE DEF says, body
  <2>. QED
    BY <2>1, <2>2
<1>6. \A k \in 1 .. n : \A s \in X : Sight(s, lies[k]) \in X
  <2>. HIDE DEF Sight, says, body
  <2>. QED
    BY <1>5
<1>. HIDE DEF Sight, X, base, says, body
<1>7. move \in [1 .. n -> [X -> X]]
  BY <1>6
<1>8. Taken(fold)
  <2>1. PICK it \in [SUBSET (1 .. n) -> X] : TakesGreatest(it, n, base, move)
    <3>. HIDE DEF move
    <3>. QED
      BY <1>1, <1>2, <1>7, TakingExists
  <2>2. ASSUME NEW S \in SUBSET (1 .. n)
        PROVE  it[S] = IF S = {} THEN base ELSE Sight(it[S \ {Max(S)}], path[Max(S)])
    <3>1. CASE S # {}
      <4>1. Max(S) \in S /\ it[S \ {Max(S)}] \in X
        <5>1. Max(S) \in S
          BY <1>1, <3>1, GreatestIsThere
        <5>. QED
          BY <5>1
      <4>2. path[Max(S)] = lies[Max(S)]
        BY <1>3, <4>1
      <4>. QED
        BY <2>1, <3>1, <4>1, <4>2 DEF TakesGreatest
    <3>. QED
      BY <2>1, <3>1 DEF TakesGreatest
  <2>3. Taken(it)
    BY <1>3, <2>2
  <2>. HIDE DEF Taken
  <2>. QED
    BY <2>3
<1>9. PICK g \in [0 .. n -> X] : FoldsTo(g, n, base, move) /\ fold[1 .. n] = g[n]
  <2>1. fold = [S \in SUBSET (1 .. n) |-> IF S = {} THEN base ELSE Sight(fold[S \ {Max(S)}], path[Max(S)])]
    <3>. HIDE DEF fold
    <3>. QED
      BY <1>3, <1>8
  <2>. HIDE DEF fold
  <2>2. fold[{}] = base
    BY <2>1
  <2>3. ASSUME NEW S \in SUBSET (1 .. n), S # {}, fold[S \ {Max(S)}] \in X
        PROVE  fold[S] = move[Max(S)][fold[S \ {Max(S)}]]
    <3>1. Max(S) \in S
      BY <1>1, <2>3, GreatestIsThere
    <3>2. fold[S] = Sight(fold[S \ {Max(S)}], lies[Max(S)])
      BY <1>3, <2>1, <2>3, <3>1
    <3>3. move[Max(S)] = [x \in X |-> Sight(x, lies[Max(S)])]
      BY <3>1
    <3>. QED
      BY <2>3, <3>2, <3>3
  <2>. HIDE DEF move
  <2>4. TakesSteps(fold, n, X, base, move)
    BY <2>2, <2>3 DEF TakesSteps
  <2>. QED
    BY <1>1, <1>2, <1>7, <2>4, TakingFolds
<1>10. ScanFrom(file) = g[n]
  <2>1. DOMAIN path = 1 .. n
    BY <1>3
  <2>. HIDE DEF fold
  <2>. QED
    BY <1>4, <1>9, <2>1
<1>. HIDE DEF fold
<1>. DEFINE After(k) == Seen(IF f <= k THEN says ELSE <<>>, IF d <= k THEN body ELSE <<>>)
            T == {k \in Nat : k <= n => g[k] = After(k)}
<1>11. f \in 1 .. n /\ d \in 1 .. n
  BY DEF Recording
<1>12. 0 \in T
  <2>1. ~(f <= 0) /\ ~(d <= 0)
    BY <1>11
  <2>. QED
    BY <1>9, <2>1 DEF FoldsTo, base
<1>13. ASSUME NEW k \in Nat, k \in T PROVE k + 1 \in T
  <2>. SUFFICES ASSUME k + 1 <= n PROVE g[k + 1] = After(k + 1)
    OBVIOUS
  <2>1. k + 1 \in 1 .. n /\ (k + 1) - 1 = k /\ k \in 0 .. n /\ k <= n
    BY <1>1
  <2>2. g[k] = After(k) /\ g[k] \in X
    BY <1>13, <2>1
  <2>3. g[k + 1] = Sight(g[k], lies[k + 1])
    BY <1>9, <2>1, <2>2 DEF FoldsTo
  <2>4. g[k + 1] = Seen(IF k + 1 = f THEN says ELSE IF f <= k THEN says ELSE <<>>,
                        IF k + 1 = d THEN body ELSE IF d <= k THEN body ELSE <<>>)
    BY <1>5, <2>1, <2>2, <2>3
  <2>5. (f <= k + 1 <=> (k + 1 = f \/ f <= k)) /\ (d <= k + 1 <=> (k + 1 = d \/ d <= k))
    BY <1>11
  <2>. QED
    BY <2>4, <2>5
<1>14. n \in T /\ n <= n /\ f <= n /\ d <= n
  <2>1. \A k \in Nat : k \in T
    <3>. HIDE DEF T
    <3>. QED
      BY <1>12, <1>13, NatInductive
  <2>. HIDE DEF T
  <2>. QED
    BY <1>1, <1>11, <2>1
<1>15. g[n] = Seen(says, body)
  BY <1>14
<1>. QED
  BY <1>10, <1>15 DEF says, body

(* A WAV file is decoded whatever foreign chunks lie around its own two, in*)
(* any number, of any size and in any order, its data before its format or *)
(* behind, cut off or not: what comes out are the frames of the bytes of its*)
(* data chunk (local_whisper_cpp.rs, decode_wav_to_16khz_mono).            *)
THEOREM WavsAreDecoded ==
  ASSUME NEW C, \A c \in C : c.size \in Nat, NEW file, file.chunks \in Seq(C),
         file.length \in Nat, file.length >= 44, file.riff,
         Filled(file, Len(file.chunks), Starts(file)), NEW f, NEW d,
         Recording(file, Len(file.chunks), Starts(file), f, d),
         NEW channels \in {1, 2}, file.chunks[f].says # <<>>,
         file.chunks[f].says[1].format = 1, file.chunks[f].says[1].bits = 16,
         file.chunks[f].says[1].rate = 16000, file.chunks[f].says[1].channels = channels
  PROVE  DecodeWav(file) = Decoded(Frames(Body(file, Starts(file), d), channels))
<1>. DEFINE n == Len(file.chunks)
<1>1. Chunked(file, n)
  BY LenProperties, ElementOfSeq DEF Chunked
<1>2. Laid(file, n, Starts(file))
  <2>1. PICK lies : Laid(file, n, lies)
    BY <1>1, ChunksAreLaid
  <2>. QED
    BY <2>1 DEF Laid
<1>. HIDE DEF n
<1>3. ScanFrom(file) = Seen(file.chunks[f].says, Body(file, Starts(file), d))
  BY <1>1, <1>2, ScanSeesBoth DEF n
<1>4. Body(file, Starts(file), d) # <<>>
  BY DEF Body
<1>. DEFINE seen == ScanFrom(file)
<1>5. seen.error = "none" /\ seen.fmt = file.chunks[f].says /\ seen.data = Body(file, Starts(file), d)
  BY <1>3 DEF Seen
<1>. HIDE DEF seen
<1>. DEFINE body == Body(file, Starts(file), d)
            says == file.chunks[f].says
<1>6. FramesOf(seen) = Decoded(Frames(body, channels))
  <2>1. /\ says # <<>> /\ says[1].format = 1 /\ says[1].bits = 16 /\ says[1].rate = 16000
        /\ says[1].channels = channels
    OBVIOUS
  <2>2. body # <<>>
    BY <1>4
  <2>3. seen.error = "none" /\ seen.fmt = says /\ seen.data = body
    BY <1>5
  <2>. HIDE DEF says, body
  <2>4. FramesOf(seen) =
          IF seen.fmt[1].format # 1 THEN Failed("not PCM")
          ELSE IF seen.fmt[1].bits # 16 THEN Failed("not 16-bit")
          ELSE IF seen.fmt[1].rate # 16000 THEN Failed("not 16 kHz")
          ELSE IF seen.fmt[1].channels \notin {1, 2} THEN Failed("channel count")
          ELSE Decoded(Frames(seen.data, seen.fmt[1].channels))
    BY <2>1, <2>2, <2>3 DEF FramesOf
  <2>5. /\ seen.fmt[1].format = 1 /\ seen.fmt[1].bits = 16 /\ seen.fmt[1].rate = 16000
        /\ seen.fmt[1].channels = channels /\ seen.data = body
    BY <2>1, <2>3
  <2>. DEFINE says1 == seen.fmt[1]
  <2>6. says1.channels \in {1, 2}
    BY <2>5
  <2>7. FramesOf(seen) = Decoded(Frames(seen.data, says1.channels))
    BY <2>4, <2>5, <2>6
  <2>. QED
    BY <2>5, <2>7
<1>7. DecodeWav(file) = FramesOf(ScanFrom(file))
  <2>1. file.riff /\ ~(file.length < 44)
    OBVIOUS
  <2>. QED
    BY <2>1 DEF DecodeWav
<1>. QED
  BY <1>6, <1>7 DEF seen

=============================================================================
