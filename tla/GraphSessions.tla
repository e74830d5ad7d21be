---------------------------- MODULE GraphSessions ----------------------------
(***************************************************************************)
(* The graphs of a loaded NLP release (kniv v7), built on first use by the *)
(* threads that run windows, and its cache of label embeddings.            *)
(*                                                                         *)
(* ONNX Runtime is external: a session is built or not, and a run succeeds *)
(* or not.  A schema is the list of its label texts, its embeddings are    *)
(* the schema itself.                                                      *)
(***************************************************************************)
EXTENDS Naturals, FiniteSets

CONSTANTS
  Threads,
  Jobs,      \* [graph, schema]: schema Nil for the other graphs than "label"
  ShardOf,   \* graph -> its shard of the DashMap
  Capacity,  \* LABEL_CACHE_CAPACITY
  Nil

VARIABLES
  job,       \* thread -> what it computes
  at,        \* thread -> where it is
  sessions,  \* graphs with a session
  created,   \* graph -> sessions that were built for it
  shard,     \* shard -> the thread that holds it for writing, or Nil
  running,   \* graph -> the thread that runs it, or Nil
  cache      \* schema -> its cached embeddings, a schema, or Nil

gvars == <<job, at, sessions, created, shard, running, cache>>

Names == {j.graph : j \in Jobs}
Schemas == {j.schema : j \in Jobs} \ {Nil}
\* A release has finitely many schemas; nothing is none of the threads.
ASSUME SessionConstants == IsFiniteSet(Schemas) /\ Capacity \in Nat \ {0} /\ Nil \notin Threads
Shards == {ShardOf[g] : g \in Names}
Cached == {s \in Schemas : cache[s] # Nil}

GInit ==
  /\ job \in [Threads -> Jobs] /\ at = [t \in Threads |-> "idle"]
  /\ sessions = {} /\ created = [g \in Names |-> 0]
  /\ shard = [s \in Shards |-> Nil] /\ running = [g \in Names |-> Nil]
  /\ cache = [s \in Schemas |-> Nil]

Moves(t, p) == at' = [at EXCEPT ![t] = p]

\* label_embeddings: a hit is copied under the cache's lock; on a miss, and
\* for every other graph, the graph is run with that lock free.
Begin(t) ==
  /\ at[t] = "idle"
  /\ Moves(t, IF job[t].schema \in Cached THEN "done" ELSE "looking")
  /\ UNCHANGED <<job, sessions, created, shard, running, cache>>

Free(g) == shard[ShardOf[g]] = Nil
Hold(g, t) == shard' = [shard EXCEPT ![ShardOf[g]] = t]

\* Graphs::session: the first look needs its shard free of writers.
Look(t) ==
  LET g == job[t].graph IN
  /\ at[t] = "looking" /\ Free(g)
  /\ Moves(t, IF g \in sessions THEN "ready" ELSE "entering")
  /\ UNCHANGED <<job, sessions, created, shard, running, cache>>

\* Variant: a thread that saw no session builds one.
EnterUnchecked(t) ==
  LET g == job[t].graph IN
  /\ at[t] = "entering" /\ Free(g) /\ Hold(g, t) /\ Moves(t, "building")
  /\ UNCHANGED <<job, sessions, created, running, cache>>

\* entry() looks again, and holds the shard while a vacant entry is built.
EnterEntry(t) ==
  LET g == job[t].graph IN
  /\ at[t] = "entering" /\ Free(g)
  /\ IF g \in sessions THEN Moves(t, "ready") /\ UNCHANGED shard
     ELSE Hold(g, t) /\ Moves(t, "building")
  /\ UNCHANGED <<job, sessions, created, running, cache>>

BuildSession(t) ==
  LET g == job[t].graph IN
  /\ at[t] = "building" /\ Hold(g, Nil)
  /\ \/ sessions' = sessions \cup {g} /\ created' = [created EXCEPT ![g] = @ + 1] /\ Moves(t, "ready")
     \/ Moves(t, "failed") /\ UNCHANGED <<sessions, created>>
  /\ UNCHANGED <<job, running, cache>>

\* A graph runs once at a time.
RunGraph(t) ==
  LET g == job[t].graph IN
  /\ at[t] = "ready" /\ running[g] = Nil
  /\ running' = [running EXCEPT ![g] = t] /\ Moves(t, "running")
  /\ UNCHANGED <<job, sessions, created, shard, cache>>

\* A full cache is emptied before the schema is put in.
FillCache(s) ==
  [x \in Schemas |-> IF x = s THEN s
                     ELSE IF Cardinality(Cached) >= Capacity THEN Nil ELSE cache[x]]

RunEnds(t) ==
  /\ at[t] = "running" /\ running' = [running EXCEPT ![job[t].graph] = Nil]
  /\ \/ Moves(t, "failed") /\ UNCHANGED cache
     \/ /\ Moves(t, "done")
        /\ cache' = IF job[t].schema = Nil THEN cache ELSE FillCache(job[t].schema)
  /\ UNCHANGED <<job, sessions, created, shard>>

\* The thread serves its next window.
NextWindow(t) ==
  /\ at[t] \in {"done", "failed"} /\ Moves(t, "idle")
  /\ \E j \in Jobs : job' = [job EXCEPT ![t] = j]
  /\ UNCHANGED <<sessions, created, shard, running, cache>>

GNext ==
  \E t \in Threads :
    \/ Begin(t) \/ Look(t) \/ EnterEntry(t) \/ BuildSession(t) \/ RunGraph(t) \/ RunEnds(t) \/ NextWindow(t)
GSpec == GInit /\ [][GNext]_gvars

(***************************************************************************)
(* Properties                                                              *)
(***************************************************************************)
\* However many threads meet at a graph without a session, it is built once;
\* while it is built its shard is held by the builder alone; and the label
\* cache holds at most its capacity, also when threads that missed the same
\* schema together put it in one after the other (graphs.rs session;
\* pipeline.rs label_embeddings).
SessionsAreShared ==
  /\ \A g \in Names : created[g] = (IF g \in sessions THEN 1 ELSE 0)
  /\ \A t \in Threads : at[t] = "building" =>
       shard[ShardOf[job[t].graph]] = t /\ job[t].graph \notin sessions
  /\ Cardinality(Cached) <= Capacity

=============================================================================
