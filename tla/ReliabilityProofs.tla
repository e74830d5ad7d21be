-------------------------- MODULE ReliabilityProofs --------------------------
(***************************************************************************)
(* Theorems of CircuitBreaker, for any set of callers, threshold and wait, *)
(* and of InstrumentedCall, for any budgets and timeouts as well.          *)
(***************************************************************************)
EXTENDS InstrumentedCall, TLAPS

(***************************************************************************)
(* CircuitBreaker.                                                         *)
(*                                                                         *)
(* SingleProbe is not inductive: that a second probe is turned away        *)
(* depends on the flag being up whenever a probe runs, and that the flag   *)
(* stays up depends on only the probe lowering it.  Inv says both.  That   *)
(* the breaker opens on consecutive failures needs that its count is the   *)
(* length of the run of errors that ends its history (CountsTheRun).       *)
(***************************************************************************)

(* Probes are running callers. *)
ProbesRun == \A c \in probing : Running(c)

Inv ==
  /\ TypeOK
  /\ SingleProbe
  /\ OpenIsTimed
  /\ ProbesRun

USE NoneAssumption, ThresholdAssumption, OpenWaitAssumption

-----------------------------------------------------------------------------

(* The history stays a sequence of results, whatever is recorded. *)
LEMMA RecordType ==
  ASSUME results \in Seq({"ok", "err"}), NEW r \in {"ok", "err"}
  PROVE  Record(r) \in Seq({"ok", "err"})
<1> DEFINE s == Append(results, r)
<1>1. s \in Seq({"ok", "err"}) /\ s # <<>>
  OBVIOUS
<1>2. Tail(s) \in Seq({"ok", "err"})
  BY <1>1
<1>. QED
  BY <1>1, <1>2 DEF Record

(* The initial state satisfies the invariant. *)
LEMMA InitInv == Init => Inv
<1> SUFFICES ASSUME Init PROVE Inv
  OBVIOUS
<1>1. TypeOK
  <2>1. <<>> \in Seq({"ok", "err"})
    OBVIOUS
  <2>2. [c \in Callers |-> "idle"] \in [Callers -> Outcomes \cup {"running"}]
    BY DEF Outcomes
  <2>3. 0 \in 0 .. FailureThreshold
    OBVIOUS
  <2>. QED
    BY <2>1, <2>2, <2>3, Zenon DEF Init, TypeOK
<1>2. SingleProbe /\ OpenIsTimed /\ ProbesRun
  BY DEF Init, SingleProbe, OpenIsTimed, ProbesRun
<1>. QED
  BY <1>1, <1>2 DEF Inv

(* Every step preserves the types. *)
LEMMA TypeStep == TypeOK /\ [DropNext]_vars => TypeOK'
<1> SUFFICES ASSUME TypeOK, [DropNext]_vars PROVE TypeOK'
  OBVIOUS
<1> USE DEF TypeOK, Outcomes, Ages
<1>1. ASSUME NEW c \in Callers, Enter(c) PROVE TypeOK'
  BY <1>1 DEF Enter, Admit, Probe, Reject, breaker
<1>2. ASSUME NEW c \in Callers, Succeed(c) PROVE TypeOK'
  <2>1. results' \in Seq({"ok", "err"})
    BY <1>2, RecordType DEF Succeed
  <2>2. call' \in [Callers -> Outcomes \cup {"running"}]
    BY <1>2 DEF Succeed
  <2>3. failures' \in 0 .. FailureThreshold
    BY <1>2 DEF Succeed, FailuresAfterSuccess
  <2>. QED
    BY <1>2, <2>1, <2>2, <2>3 DEF Succeed, StateAfterSuccess, FlagAfterSuccess
<1>3. ASSUME NEW c \in Callers, Fail(c) PROVE TypeOK'
  <2>1. results' \in Seq({"ok", "err"})
    BY <1>3, RecordType DEF Fail
  <2>2. failures' \in 0 .. FailureThreshold
    BY <1>3 DEF Fail, Increment
  <2>3. call' \in [Callers -> Outcomes \cup {"running"}]
    BY <1>3 DEF Fail
  <2>4. lastFailure' \in Ages
    BY <1>3 DEF Fail
  <2>5. state' \in {"Closed", "Open", "HalfOpen"}
    BY <1>3 DEF Fail, StateAfterFailure
  <2>6. probeInFlight' \in BOOLEAN /\ probing' \subseteq Callers
    BY <1>3 DEF Fail, FlagAfterFailure
  <2>. QED
    BY <2>1, <2>2, <2>3, <2>4, <2>5, <2>6, Zenon
<1>4. ASSUME NEW c \in Callers, Cancel(c) PROVE TypeOK'
  BY <1>4 DEF Cancel, breaker
<1>5. CASE Tick
  BY <1>5 DEF Tick
<1>6. CASE UNCHANGED vars
  BY <1>6 DEF vars
<1>. QED
  BY <1>1, <1>2, <1>3, <1>4, <1>5, <1>6 DEF DropNext, Next, Finish

(* Every step preserves the invariant. *)
LEMMA InvStep == Inv /\ [DropNext]_vars => Inv'
<1> SUFFICES ASSUME Inv, [DropNext]_vars PROVE Inv'
  OBVIOUS
<1>0. TypeOK'
  BY TypeStep DEF Inv
<1> USE DEF Inv, TypeOK, SingleProbe, OpenIsTimed, ProbesRun, Running
<1>1. ASSUME NEW c \in Callers, Admit(c) PROVE Inv'
  BY <1>0, <1>1 DEF Admit, breaker
<1>2. ASSUME NEW c \in Callers, Probe(c) PROVE Inv'
  <2>1. probing = {}
    BY <1>2 DEF Probe, MayProbe
  <2>. QED
    BY <1>0, <1>2, <2>1 DEF Probe
<1>3. ASSUME NEW c \in Callers, Reject(c) PROVE Inv'
  BY <1>0, <1>3 DEF Reject, breaker
<1>4. ASSUME NEW c \in Callers, Succeed(c) PROVE Inv'
  <2>1. CASE c \in probing
    BY <1>0, <1>4, <2>1 DEF Succeed, StateAfterSuccess, FlagAfterSuccess
  <2>2. CASE c \notin probing
    BY <1>0, <1>4, <2>2 DEF Succeed, StateAfterSuccess, FlagAfterSuccess
  <2>. QED
    BY <2>1, <2>2
<1>5. ASSUME NEW c \in Callers, Fail(c) PROVE Inv'
  <2>1. CASE c \in probing
    BY <1>0, <1>5, <2>1 DEF Fail, StateAfterFailure, FlagAfterFailure
  <2>2. CASE c \notin probing
    BY <1>0, <1>5, <2>2 DEF Fail, StateAfterFailure, FlagAfterFailure
  <2>. QED
    BY <2>1, <2>2
<1>6. ASSUME NEW c \in Callers, Cancel(c) PROVE Inv'
  BY <1>0, <1>6 DEF Cancel, breaker
<1>7. CASE Tick
  <2>1. lastFailure' # None
    BY <1>7 DEF Tick, Ages
  <2>. QED
    BY <1>0, <1>7, <2>1 DEF Tick
<1>8. CASE UNCHANGED vars
  BY <1>0, <1>8 DEF vars
<1>. QED
  BY <1>1, <1>2, <1>3, <1>4, <1>5, <1>6, <1>7, <1>8
     DEF DropNext, Next, Enter, Finish

LEMMA Invariance == DropSpec => []Inv
  BY InitInv, InvStep, PTL DEF DropSpec

(* Callers that await their calls are callers that may drop them. *)
LEMMA SpecIsDropSpec == Spec => DropSpec
<1>1. [Next]_vars => [DropNext]_vars
  BY DEF DropNext
<1>. QED
  BY <1>1, PTL DEF Spec, DropSpec

-----------------------------------------------------------------------------

(* The breaker's variables keep their types in every reachable state of    *)
(* CircuitBreakerWrapper, callers that drop their calls included.          *)
THEOREM TypeCorrect == DropSpec => []TypeOK
  BY Invariance, PTL DEF Inv

(* At most one half-open probe runs, in the HalfOpen state and with the    *)
(* flag up, even when callers drop their calls.                            *)
THEOREM ProbeIsSingle == DropSpec => []SingleProbe
  BY Invariance, PTL DEF Inv

(* An Open breaker always has the time stamp its wait is measured from,    *)
(* and the flag is up exactly in HalfOpen.                                 *)
THEOREM OpenHasTimeStamp == DropSpec => []OpenIsTimed
  BY Invariance, PTL DEF Inv

(* As long as callers do not drop their calls, the flag that turns callers *)
(* away belongs to a probe that is still running.                          *)
THEOREM FlagIsOwned == Spec => []FlagHasOwner
<1>1. Init => FlagHasOwner
  BY DEF Init, FlagHasOwner
<1>2. ASSUME Inv, FlagHasOwner, [Next]_vars PROVE FlagHasOwner'
  <2> USE <1>2 DEF Inv, TypeOK, SingleProbe, OpenIsTimed, ProbesRun,
                   FlagHasOwner, Running
  <2>1. ASSUME NEW c \in Callers, Enter(c) PROVE FlagHasOwner'
    BY <2>1 DEF Enter, Admit, Probe, Reject, breaker
  <2>2. ASSUME NEW c \in Callers, Succeed(c) PROVE FlagHasOwner'
    BY <2>2 DEF Succeed, FlagAfterSuccess
  <2>3. ASSUME NEW c \in Callers, Fail(c) PROVE FlagHasOwner'
    BY <2>3 DEF Fail, FlagAfterFailure
  <2>4. CASE Tick \/ UNCHANGED vars
    BY <2>4 DEF Tick, vars
  <2>. QED
    BY <2>1, <2>2, <2>3, <2>4 DEF Next, Finish
<1>. QED
  BY <1>1, <1>2, Invariance, SpecIsDropSpec, PTL DEF Spec

-----------------------------------------------------------------------------

(* Only a probe's own result moves the breaker out of HalfOpen or into     *)
(* Closed, and only the elapsed wait moves it out of Open.                 *)
StateStep ==
  /\ state = "HalfOpen" /\ state' # "HalfOpen" =>
       \E c \in probing : call'[c] \in {"ok", "err"}
  /\ state' = "Closed" /\ state # "Closed" =>
       \E c \in probing : call'[c] = "ok"
  /\ state = "Open" /\ state' # "Open" => Cooled

(* Results of calls admitted before the breaker opened never decide its    *)
(* state: the second critical section checks is_probe_call.                *)
THEOREM StaleResultsAreIgnored == DropSpec => StaleResultsDoNotDecide
<1>1. ASSUME Inv, [DropNext]_vars PROVE [StateStep]_vars
  <2> USE <1>1 DEF Inv, TypeOK, SingleProbe, OpenIsTimed, StateStep, Running
  <2>1. ASSUME NEW c \in Callers, Enter(c) PROVE StateStep
    BY <2>1 DEF Enter, Admit, Probe, Reject, breaker, MayProbe
  <2>2. ASSUME NEW c \in Callers, Succeed(c) PROVE StateStep
    BY <2>2 DEF Succeed, StateAfterSuccess
  <2>3. ASSUME NEW c \in Callers, Fail(c) PROVE StateStep
    BY <2>3 DEF Fail, StateAfterFailure
  <2>4. ASSUME NEW c \in Callers, Cancel(c) PROVE StateStep
    BY <2>4 DEF Cancel, breaker
  <2>5. CASE Tick
    BY <2>5 DEF Tick
  <2>. QED
    BY <2>1, <2>2, <2>3, <2>4, <2>5 DEF DropNext, Next, Finish
<1>2. StaleResultsDoNotDecide <=> [][StateStep]_vars
  BY PTL DEF StaleResultsDoNotDecide, StateStep
<1>. QED
  BY <1>1, <1>2, Invariance, PTL DEF DropSpec

-----------------------------------------------------------------------------

(* The count is the length of the run of errors at the end of the history, *)
(* and never stands at the threshold while the breaker is Closed.          *)
CountsTheRun ==
  LET n == Len(results) IN
  state = "Closed" =>
    /\ n <= FailureThreshold /\ failures <= n
    /\ FailureThreshold > 0 => failures < FailureThreshold
    /\ \A i \in n - failures + 1 .. n : results[i] = "err"
    /\ failures < n => results[n - failures] # "err"

\* How many results the next record drops.
Dropped == IF Len(results) < FailureThreshold THEN 0 ELSE 1

(* What a record is: the history and r, without its oldest if it is full.  *)
LEMMA RecordItems ==
  ASSUME results \in Seq({"ok", "err"}), NEW r \in {"ok", "err"},
         Len(results) <= FailureThreshold, FailureThreshold > 0
  PROVE  /\ Record(r) \in Seq({"ok", "err"})
         /\ Len(Record(r)) = Len(results) + 1 - Dropped /\ Record(r)[Len(Record(r))] = r
         /\ \A i \in 1 .. Len(results) - Dropped : Record(r)[i] = results[i + Dropped]
<1> DEFINE n == Len(results)
           t == Append(results, r)
           u == Tail(t)
<1>1. /\ n \in Nat /\ t \in Seq({"ok", "err"}) /\ Len(t) = n + 1 /\ t[n + 1] = r
      /\ \A i \in 1 .. n : t[i] = results[i]
  OBVIOUS
<1>2. Record(r) = IF Len(t) > FailureThreshold THEN u ELSE t
  BY DEF Record
<1>3. u \in Seq({"ok", "err"}) /\ Len(u) = n /\ \A i \in 1 .. n : u[i] = t[i + 1]
  BY <1>1
<1> HIDE DEF t, u
<1>4. CASE n < FailureThreshold
  <2>1. Record(r) = t /\ Dropped = 0
    BY <1>1, <1>2, <1>4 DEF Dropped
  <2>2. n + 1 - 0 = n + 1 /\ n - 0 = n /\ \A i \in 1 .. n : i + 0 = i
    BY <1>1
  <2>. QED
    BY <1>1, <2>1, <2>2
<1>5. CASE ~(n < FailureThreshold)
  <2>1. Record(r) = u /\ Dropped = 1 /\ n > 0
    BY <1>1, <1>2, <1>5 DEF Dropped
  <2>2. \A i \in 1 .. n - 1 : u[i] = results[i + 1]
    <3>1. \A i \in 1 .. n - 1 : i \in 1 .. n /\ i + 1 \in 1 .. n
      BY <1>1
    <3>. QED
      BY <1>1, <1>3, <3>1
  <2>3. u[n] = r
    BY <1>1, <1>3, <2>1
  <2>4. n + 1 - 1 = n
    BY <1>1
  <2>. QED
    BY <1>1, <1>3, <2>1, <2>2, <2>3, <2>4
<1>. QED
  BY <1>4, <1>5

(* An empty history has no run. *)
LEMMA EmptyCounts ==
  ASSUME results' = <<>>, failures' = 0
  PROVE  CountsTheRun'
<1>1. Len(results') = 0 /\ 0 - 0 + 1 .. 0 = {}
  OBVIOUS
<1>. QED
  BY <1>1 DEF CountsTheRun

(* A threshold of zero keeps no history.                                   *)
LEMMA NothingRecorded ==
  ASSUME results = <<>>, NEW r \in {"ok", "err"}, FailureThreshold = 0
  PROVE  Record(r) = <<>>
BY DEF Record

\* The step that the property speaks about.
OpenStep ==
  state = "Closed" /\ results' # results => (state' = "Open" <=> AllErrors(results'))

(* A success while Closed resets the count and ends the run.               *)
LEMMA SuccessCounts ==
  ASSUME Inv, Inv', CountsTheRun, NEW c \in Callers, Succeed(c)
  PROVE  CountsTheRun' /\ OpenStep
<1> DEFINE n == Len(results)
<1>0. results \in Seq({"ok", "err"}) /\ n \in Nat
  BY DEF Inv, TypeOK
<1>1. CASE c \in probing
  <2>1. results' = <<>> /\ failures' = 0 /\ state = "HalfOpen"
    BY <1>1 DEF Succeed, FailuresAfterSuccess, Inv, SingleProbe
  <2>. QED
    BY <2>1, EmptyCounts DEF OpenStep
<1>2. CASE c \notin probing /\ state # "Closed"
  BY <1>2 DEF Succeed, StateAfterSuccess, CountsTheRun, OpenStep
<1>3. CASE c \notin probing /\ state = "Closed"
  <2>1. results' = Record("ok") /\ failures' = 0 /\ state' = "Closed"
    BY <1>3 DEF Succeed, FailuresAfterSuccess, StateAfterSuccess
  <2>2. n <= FailureThreshold
    BY <1>3 DEF CountsTheRun
  <2>3. CASE FailureThreshold = 0
    <3>1. results = <<>>
      BY <1>0, <2>2, <2>3
    <3>2. results' = <<>>
      BY <2>1, <2>3, <3>1, NothingRecorded
    <3>. QED
      BY <2>1, <3>1, <3>2, EmptyCounts DEF OpenStep
  <2>4. CASE FailureThreshold > 0
    <3>1. /\ Len(results') \in Nat \ {0} /\ Len(results') <= FailureThreshold
          /\ results'[Len(results')] = "ok"
      <4>1. /\ results' \in Seq({"ok", "err"}) /\ Len(results') = n + 1 - Dropped
            /\ results'[Len(results')] = "ok"
        BY <1>0, <2>1, <2>2, <2>4, RecordItems
      <4>2. n + 1 - Dropped \in Nat \ {0} /\ n + 1 - Dropped <= FailureThreshold
        BY <1>0, <2>2, <2>4 DEF Dropped
      <4>. QED
        BY <4>1, <4>2
    <3>2. CountsTheRun'
      <4>1. Len(results') - 0 = Len(results') /\ Len(results') + 1 .. Len(results') = {}
        BY <3>1
      <4>. QED
        BY <2>1, <2>4, <3>1, <4>1 DEF CountsTheRun
    <3>3. ~AllErrors(results')
      BY <3>1 DEF AllErrors
    <3>. QED
      BY <2>1, <3>2, <3>3 DEF OpenStep
  <2>. QED
    BY <2>3, <2>4
<1>. QED
  BY <1>1, <1>2, <1>3

(* A failure while Closed lengthens the run; at the threshold it is all of *)
(* the history.                                                            *)
LEMMA FailureCounts ==
  ASSUME Inv, Inv', CountsTheRun, NEW c \in Callers, Fail(c)
  PROVE  CountsTheRun' /\ OpenStep
<1> DEFINE n == Len(results)
           T == FailureThreshold
           s == results'
           o == Dropped
<1>0. results \in Seq({"ok", "err"}) /\ n \in Nat /\ failures \in Nat /\ T \in Nat
  <2>1. results \in Seq({"ok", "err"}) /\ failures \in Nat
    BY DEF Inv, TypeOK
  <2>. QED
    BY <2>1
<1>1. CASE state # "Closed"
  <2>1. state' # "Closed" /\ results' = results
    BY <1>1 DEF Fail, StateAfterFailure
  <2>. QED
    BY <1>1, <2>1 DEF CountsTheRun, OpenStep
<1>2. CASE state = "Closed"
  <2>0. c \notin probing
    BY <1>2 DEF Inv, SingleProbe
  <2>1. /\ s = Record("err") /\ failures' = Increment(failures)
        /\ state' = IF failures + 1 >= T THEN "Open" ELSE "Closed"
    BY <1>2, <2>0 DEF Fail, StateAfterFailure
  <2>2. /\ n <= T /\ failures <= n /\ (T > 0 => failures < T)
        /\ \A i \in n - failures + 1 .. n : results[i] = "err"
        /\ failures < n => results[n - failures] # "err"
    BY <1>2 DEF CountsTheRun
  <2>3. CASE T = 0
    <3>1. results = <<>>
      BY <1>0, <2>2, <2>3
    <3>2. results' = <<>>
      BY <2>1, <2>3, <3>1, NothingRecorded
    <3>3. state' = "Open"
      BY <1>0, <2>1, <2>3
    <3>. QED
      BY <3>1, <3>2, <3>3 DEF CountsTheRun, OpenStep
  <2>4. CASE T > 0
    <3>1. /\ Len(s) = n + 1 - o /\ s[Len(s)] = "err"
          /\ \A i \in 1 .. n - o : s[i] = results[i + o]
      BY <1>0, <2>1, <2>2, <2>4, RecordItems
    <3>2. o \in {0, 1} /\ (o = 0 => n < T) /\ (o = 1 => n = T)
      BY <1>0, <2>2 DEF Dropped
    <3>3. failures' = failures + 1
      BY <1>0, <2>1, <2>2, <2>4 DEF Increment
    <3> HIDE DEF o, s, n, T
    <3>4. Len(s) \in Nat /\ Len(s) <= T /\ failures + 1 <= Len(s)
      BY <1>0, <2>2, <2>4, <3>1, <3>2
    <3>5. ASSUME NEW i \in Len(s) - failures .. Len(s) PROVE s[i] = "err"
      <4>1. CASE i = Len(s)
        BY <3>1, <4>1
      <4>2. CASE i # Len(s)
        <5>1. i \in 1 .. n - o /\ i + o \in n - failures + 1 .. n
          BY <1>0, <2>2, <3>1, <3>2, <3>4, <4>2
        <5>. QED
          BY <2>2, <3>1, <5>1
      <4>. QED
        BY <4>1, <4>2
    <3>6. ASSUME failures + 1 < Len(s) PROVE s[Len(s) - (failures + 1)] # "err"
      <4>1. /\ Len(s) - (failures + 1) \in 1 .. n - o
            /\ Len(s) - (failures + 1) + o = n - failures /\ failures < n
        BY <1>0, <2>2, <3>1, <3>2, <3>4, <3>6
      <4>. QED
        BY <2>2, <3>1, <4>1
    <3>7. CountsTheRun'
      <4>. SUFFICES ASSUME state' = "Closed" PROVE CountsTheRun'
        BY DEF CountsTheRun
      <4>1. failures + 1 < T
        BY <1>0, <2>1
      <4>2. Len(s) - (failures + 1) + 1 = Len(s) - failures
        BY <1>0, <3>4
      <4>3. \A i \in Len(s) - failures' + 1 .. Len(s) : s[i] = "err"
        BY <3>3, <3>5, <4>2
      <4>4. failures' < Len(s) => s[Len(s) - failures'] # "err"
        BY <3>3, <3>6
      <4>. QED
        BY <3>3, <3>4, <4>1, <4>3, <4>4 DEF CountsTheRun, s, T
    <3>8. state' = "Open" <=> AllErrors(s)
      <4>1. CASE failures + 1 >= T
        <5>1. failures + 1 = T /\ Len(s) = T
          BY <1>0, <2>2, <2>4, <3>4, <4>1
        <5>2. Len(s) - failures = 1
          BY <1>0, <5>1
        <5>3. AllErrors(s)
          BY <3>5, <5>1, <5>2 DEF AllErrors, T
        <5>. QED
          BY <2>1, <4>1, <5>3
      <4>2. CASE ~(failures + 1 >= T)
        <5>1. Len(s) = T => failures + 1 < Len(s) /\ Len(s) - (failures + 1) \in 1 .. Len(s)
          BY <1>0, <3>4, <4>2
        <5>2. ~AllErrors(s)
          BY <3>6, <5>1 DEF AllErrors, T
        <5>. QED
          BY <2>1, <4>2, <5>2
      <4>. QED
        BY <4>1, <4>2
    <3>. QED
      BY <3>7, <3>8 DEF OpenStep, s
  <2>. QED
    BY <1>0, <2>3, <2>4
<1>. QED
  BY <1>1, <1>2

(* Every step keeps the count, and opens the breaker when the property says. *)
LEMMA CountStep ==
  ASSUME Inv, Inv', CountsTheRun, [DropNext]_vars
  PROVE  CountsTheRun' /\ OpenStep
<1>1. ASSUME NEW c \in Callers, Enter(c) PROVE CountsTheRun' /\ OpenStep
  BY <1>1 DEF Enter, Admit, Probe, Reject, breaker, CountsTheRun, OpenStep
<1>2. ASSUME NEW c \in Callers, Finish(c) PROVE CountsTheRun' /\ OpenStep
  BY <1>2, SuccessCounts, FailureCounts DEF Finish
<1>3. ASSUME NEW c \in Callers, Cancel(c) PROVE CountsTheRun' /\ OpenStep
  BY <1>3 DEF Cancel, breaker, CountsTheRun, OpenStep
<1>4. CASE Tick
  BY <1>4 DEF Tick, CountsTheRun, OpenStep
<1>5. CASE UNCHANGED vars
  BY <1>5 DEF vars, CountsTheRun, OpenStep
<1>. QED
  BY <1>1, <1>2, <1>3, <1>4, <1>5 DEF DropNext, Next

(* "Number of consecutive failures before the breaker opens": for every    *)
(* threshold, and whatever calls of before are still running, a breaker    *)
(* opens exactly on that many failures in a row (reliability.rs).          *)
THEOREM ConsecutiveFailuresOpen == DropSpec => OpensOnConsecutiveFailures
<1>1. ASSUME Init PROVE CountsTheRun
  <2>1. results = <<>> /\ failures = 0
    BY <1>1 DEF Init
  <2>2. Len(results) = 0 /\ 0 - 0 + 1 .. 0 = {}
    BY <2>1
  <2>. QED
    BY <2>1, <2>2 DEF CountsTheRun
<1>2. ASSUME Inv, Inv', CountsTheRun, [DropNext]_vars PROVE CountsTheRun' /\ [OpenStep]_vars
  BY <1>2, CountStep
<1>3. OpensOnConsecutiveFailures <=> [][OpenStep]_vars
  BY PTL DEF OpensOnConsecutiveFailures, OpenStep
<1>. QED
  BY <1>1, <1>2, <1>3, Invariance, PTL DEF DropSpec

-----------------------------------------------------------------------------

(* The refinement of BreakerProtocol. *)
Active == {c \in Callers : Running(c)}

(* The one running probe is what Prober chooses. *)
LEMMA ProberIsProbe ==
  ASSUME SingleProbe, NEW c \in probing
  PROVE  Prober = c
  BY DEF SingleProbe, Prober

LEMMA InitRefines == Init => Protocol!PInit
  BY DEF Init, Protocol!PInit, Prober, Running

(* Every step of the breaker is a step of the promise or a stutter. *)
LEMMA StepRefines ==
  ASSUME Inv, Inv', [Next]_vars
  PROVE  [Protocol!PNext]_(Protocol!pvars)
<1> USE DEF Inv, TypeOK
<1> DEFINE Stutter == state' = state /\ Active' = Active /\ Prober' = Prober
<1>0. ASSUME Stutter PROVE UNCHANGED Protocol!pvars
  BY <1>0 DEF Protocol!pvars, Active
<1>1. ASSUME NEW c \in Callers, Admit(c) PROVE Protocol!PNext
  <2>1. state = "Closed" /\ state' = state /\ probing' = probing
    BY <1>1 DEF Admit, MayProbe, MustReject, breaker, OpenIsTimed
  <2>2. c \notin Active /\ Active' = Active \cup {c}
    BY <1>1 DEF Admit, Active, Running
  <2>. QED
    BY <2>1, <2>2 DEF Protocol!PNext, Protocol!PStart, Prober, Active
<1>2. ASSUME NEW c \in Callers, Probe(c) PROVE Protocol!PNext
  <2>1. state = "Open" /\ state' = "HalfOpen" /\ c \in probing'
    BY <1>2 DEF Probe, MayProbe, OpenIsTimed
  <2>2. c \notin Active /\ Active' = Active \cup {c}
    BY <1>2 DEF Probe, Active, Running
  <2>3. Prober' = c
    BY <2>1 DEF SingleProbe, Prober
  <2>. QED
    BY <2>1, <2>2, <2>3 DEF Protocol!PNext, Protocol!PProbe, Active
<1>3. ASSUME NEW c \in Callers, Reject(c) PROVE Stutter
  BY <1>3 DEF Reject, breaker, Active, Running, Prober
<1>4. ASSUME NEW c \in Callers, Finish(c) PROVE Protocol!PNext
  <2>1. /\ c \in Active /\ Active' = Active \ {c}
        /\ probing' = probing \ {c}
    BY <1>4 DEF Finish, Succeed, Fail, Active, Running
  <2>2. CASE c \in probing
    <3>1. Prober = c
      BY <2>2, ProberIsProbe
    <3>2. Prober' = None
      BY <2>1, <2>2 DEF SingleProbe, Prober
    <3>3. state' \in {"Closed", "Open"}
      BY <1>4, <2>2 DEF Finish, Succeed, Fail, StateAfterSuccess,
                        StateAfterFailure
    <3>. QED
      BY <2>1, <3>1, <3>2, <3>3 DEF Protocol!PNext, Protocol!PResolve, Active
  <2>3. CASE c \notin probing
    <3>0. probing' = probing
      BY <2>1, <2>3
    <3>1. Prober' = Prober
      BY <3>0 DEF Prober
    <3>2. c # Prober
      <4>1. CASE probing = {}
        BY <4>1 DEF Prober
      <4>2. CASE probing # {}
        <5>1. Prober \in probing
          BY <4>2 DEF Prober
        <5>. QED
          BY <5>1, <2>3
      <4>. QED
        BY <4>1, <4>2
    <3>3. state' = state \/ (state = "Closed" /\ state' = "Open")
      BY <1>4, <2>3 DEF Finish, Succeed, Fail, StateAfterSuccess,
                        StateAfterFailure
    <3>. QED
      BY <2>1, <3>1, <3>2, <3>3 DEF Protocol!PNext, Protocol!PEnd, Active
  <2>. QED
    BY <2>2, <2>3
<1>5. CASE Tick
  BY <1>0, <1>5 DEF Tick, Active, Running, Prober
<1>6. CASE UNCHANGED vars
  BY <1>0, <1>6 DEF vars, Active, Running, Prober
<1>. QED
  BY <1>0, <1>1, <1>2, <1>3, <1>4, <1>5, <1>6 DEF Next, Enter

(* A breaker whose callers do not drop their calls keeps the promise: no   *)
(* call starts while it is open except the probe that half-opens it, and   *)
(* that probe's result alone decides what follows.                         *)
THEOREM BreakerKeepsPromise == Spec => ImplementsProtocol
<1>1. ASSUME Inv, Inv', [Next]_vars PROVE [Protocol!PNext]_(Protocol!pvars)
  BY <1>1, StepRefines
<1>. QED
  BY <1>1, InitRefines, Invariance, SpecIsDropSpec, PTL
     DEF Spec, ImplementsProtocol, Protocol!PSpec

(***************************************************************************)
(* InstrumentedCall.                                                       *)
(*                                                                         *)
(* What is proved above of the breaker alone carries over: every step of   *)
(* the wrappers is a step of the breaker or leaves it alone.  DownOpens    *)
(* needs more than the streak: a streak only opens a Closed breaker if the *)
(* breaker counted every failure of it, which is what CountsAll says and   *)
(* what a timeout would falsify.                                           *)
(***************************************************************************)

USE NoneAssumption, ThresholdAssumption, MaxAttemptsAssumption, HasTimeoutAssumption

(* While Closed the breaker has counted the whole streak, and less than    *)
(* the threshold.                                                          *)
CountsAll ==
  state = "Closed" => streak <= failures /\ (FailureThreshold > 0 => failures < FailureThreshold)

-----------------------------------------------------------------------------

(* The breaker under the wrappers is a behaviour of CircuitBreaker whose   *)
(* callers may drop their calls.                                           *)
LEMMA StepProjects == [INext]_ivars => [DropNext]_vars
<1> SUFFICES ASSUME [INext]_ivars PROVE [DropNext]_vars
  OBVIOUS
<1>1. ASSUME NEW c \in Callers, Request(c) \/ Wake(c) PROVE UNCHANGED vars
  BY <1>1 DEF Request, Wake
<1>2. ASSUME NEW c \in Callers,
             Start(c) \/ TurnedAway(c) \/ Answered(c) \/ Errored(c) \/ TimedOut(c)
      PROVE Enter(c) \/ Finish(c) \/ Cancel(c)
  BY <1>2 DEF Start, TurnedAway, Answered, Errored, TimedOut, Enter, Finish
<1>3. ASSUME NEW p \in {"up", "down", "hung"}, Switch(p) PROVE UNCHANGED vars
  BY <1>3 DEF Switch
<1>4. CASE Clock
  BY <1>4 DEF Clock, DropNext, Next
<1>5. CASE UNCHANGED ivars
  BY <1>5 DEF ivars
<1>6. ASSUME NEW c \in Callers, Progress(c) PROVE [DropNext]_vars
  BY <1>1, <1>2, <1>6 DEF Progress, DropNext, Next
<1>. QED
  BY <1>1, <1>3, <1>4, <1>5, <1>6 DEF INext, DropNext

(* The initial state has the types. *)
LEMMA IInitType == IInit => ITypeOK
<1> SUFFICES ASSUME IInit PROVE ITypeOK
  OBVIOUS
<1>1. TypeOK
  BY InitInv DEF IInit, Inv
<1>2. \A c \in Callers : phase[c] = "awaiting" <=> Running(c)
  BY DEF IInit, Init, Running
<1>3. phase \in [Callers -> AtRest \cup {"attempt", "awaiting", "backoff"}]
  BY DEF IInit, AtRest
<1>4. attempts \in [Callers -> Nat]
  BY DEF IInit
<1>5. error \in [Callers -> Transient \cup Permanent \cup {None}]
  BY DEF IInit
<1>6. provider \in {"up", "down", "hung"} /\ streak \in 0 .. FailureThreshold
  BY DEF IInit
<1>. QED
  BY <1>1, <1>2, <1>3, <1>4, <1>5, <1>6 DEF ITypeOK

(* What the loop does with an error keeps the types. *)
LEMMA AfterErrorType ==
  ASSUME ITypeOK, NEW c \in Callers, NEW e \in Transient \cup Permanent, NEW n,
         AfterError(c, e, n)
  PROVE  /\ phase' \in [Callers -> AtRest \cup {"attempt", "awaiting", "backoff"}]
         /\ error' \in [Callers -> Transient \cup Permanent \cup {None}]
         /\ \A d \in Callers \ {c} : phase'[d] = phase[d]
         /\ phase'[c] \in {"backoff", "failed"}
  BY DEF AfterError, ITypeOK, AtRest

(* Every step preserves the types. *)
LEMMA ITypeStep == ITypeOK /\ TypeOK' /\ [INext]_ivars => ITypeOK'
<1> SUFFICES ASSUME ITypeOK, TypeOK', [INext]_ivars PROVE ITypeOK'
  OBVIOUS
<1> DEFINE PhaseType == phase \in [Callers -> AtRest \cup {"attempt", "awaiting", "backoff"}]
           ErrorType == error \in [Callers -> Transient \cup Permanent \cup {None}]
           Awaits == \A c \in Callers : phase[c] = "awaiting" <=> Running(c)
           CallType == call \in [Callers -> Outcomes \cup {"running"}]
<1>0. PhaseType /\ ErrorType /\ Awaits /\ CallType
  BY DEF ITypeOK, TypeOK
<1>a. streak \in 0 .. FailureThreshold /\ attempts \in [Callers -> Nat]
      /\ provider \in {"up", "down", "hung"}
  BY DEF ITypeOK
<1>b. CountFailure => streak' \in 0 .. FailureThreshold
  BY <1>a DEF CountFailure
<1>1. ASSUME NEW c \in Callers, Request(c) \/ Wake(c) PROVE ITypeOK'
  <2>1. PhaseType' /\ ErrorType' /\ attempts' \in [Callers -> Nat]
    BY <1>0, <1>1, <1>a DEF Request, Wake, AtRest
  <2>2. UNCHANGED <<call, provider, streak>>
    BY <1>1 DEF Request, Wake, vars
  <2>3. Awaits'
    BY <1>0, <1>1, <2>2 DEF Request, Wake, Running, AtRest
  <2>. QED
    BY <1>a, <2>1, <2>2, <2>3 DEF ITypeOK
<1>2. ASSUME NEW c \in Callers, Start(c) PROVE ITypeOK'
  <2>1. call' = [call EXCEPT ![c] = "running"]
    BY <1>2 DEF Start, Admit, Probe
  <2>2. PhaseType' /\ ErrorType' /\ attempts' \in [Callers -> Nat]
    BY <1>0, <1>2, <1>a DEF Start
  <2>3. Awaits'
    BY <1>0, <1>2, <2>1 DEF Start, Running
  <2>. QED
    BY <1>2, <1>a, <2>2, <2>3 DEF ITypeOK, Start
<1>3. ASSUME NEW c \in Callers, TurnedAway(c) PROVE ITypeOK'
  <2>1. call' = [call EXCEPT ![c] = "rejected"] /\ call[c] # "running"
    BY <1>3 DEF TurnedAway, Reject, Running
  <2>2. AfterError(c, "Unavailable", attempts[c] + 1)
    BY <1>3 DEF TurnedAway
  <2>3. /\ PhaseType' /\ ErrorType'
        /\ \A d \in Callers \ {c} : phase'[d] = phase[d]
        /\ phase'[c] \in {"backoff", "failed"}
    BY <2>2, AfterErrorType DEF Transient
  <2>4. attempts' \in [Callers -> Nat]
    BY <1>3, <1>a DEF TurnedAway
  <2>5. Awaits'
    BY <1>0, <2>1, <2>3 DEF Running
  <2>. QED
    BY <1>3, <1>a, <2>3, <2>4, <2>5 DEF ITypeOK, TurnedAway
<1>4. ASSUME NEW c \in Callers, Answered(c) PROVE ITypeOK'
  <2>1. call' = [call EXCEPT ![c] = "ok"]
    BY <1>4 DEF Answered, Succeed
  <2>2. PhaseType' /\ ErrorType'
    BY <1>0, <1>4 DEF Answered, AtRest
  <2>3. Awaits'
    BY <1>0, <1>4, <2>1 DEF Answered, Running
  <2>. QED
    BY <1>4, <1>a, <2>2, <2>3 DEF ITypeOK, Answered
<1>5. ASSUME NEW c \in Callers, Errored(c) \/ TimedOut(c) PROVE ITypeOK'
  <2>1. PICK r \in {"err", "cancelled"} : call' = [call EXCEPT ![c] = r]
    BY <1>5 DEF Errored, TimedOut, Fail, Cancel
  <2>2. PICK e \in Transient \cup Permanent : AfterError(c, e, attempts[c])
    BY <1>5 DEF Errored, TimedOut, Transient
  <2>3. /\ PhaseType' /\ ErrorType'
        /\ \A d \in Callers \ {c} : phase'[d] = phase[d]
        /\ phase'[c] \in {"backoff", "failed"}
    BY <2>2, AfterErrorType
  <2>4. Awaits'
    BY <1>0, <2>1, <2>3 DEF Running
  <2>5. UNCHANGED <<provider, attempts>> /\ CountFailure
    BY <1>5 DEF Errored, TimedOut
  <2>. QED
    BY <1>a, <1>b, <2>3, <2>4, <2>5 DEF ITypeOK
<1>6. ASSUME NEW p \in {"up", "down", "hung"}, Switch(p) PROVE ITypeOK'
  BY <1>6 DEF ITypeOK, Switch, wrapper, vars, Running
<1>7. CASE Clock
  BY <1>7 DEF ITypeOK, Clock, Tick, wrapper, Running
<1>8. CASE UNCHANGED ivars
  BY <1>8 DEF ITypeOK, ivars, vars, Running
<1>. QED
  BY <1>1, <1>2, <1>3, <1>4, <1>5, <1>6, <1>7, <1>8 DEF INext, Progress

(* Types and the breaker's own invariant hold under the wrappers. *)
LEMMA ITypeInvariance == ISpec => [](ITypeOK /\ Inv)
<1>1. IInit => ITypeOK /\ Inv
  BY IInitType, InitInv DEF IInit
<1>2. ITypeOK /\ Inv /\ [INext]_ivars => (ITypeOK /\ Inv)'
  <2> SUFFICES ASSUME ITypeOK, Inv, [INext]_ivars PROVE ITypeOK' /\ Inv'
    OBVIOUS
  <2>1. Inv'
    BY StepProjects, InvStep
  <2>2. TypeOK'
    BY <2>1 DEF Inv
  <2>. QED
    BY <2>1, <2>2, ITypeStep
<1>. QED
  BY <1>1, <1>2, PTL DEF ISpec

(* InstrumentedCall is well typed; an attempt is awaited exactly while the *)
(* breaker's call runs. *)
THEOREM InstrumentedTypeCorrect == ISpec => []ITypeOK
  BY ITypeInvariance, PTL

(* The breaker keeps its safety under wrappers that retry and time out. *)
THEOREM BreakerSafeUnderRetries == ISpec => [](SingleProbe /\ OpenIsTimed)
<1>1. Inv => SingleProbe /\ OpenIsTimed
  BY DEF Inv
<1>. QED
  BY <1>1, ITypeInvariance, PTL

(* Retries and timeouts are to the breaker calls that are made and dropped *)
(* at will: it opens on consecutive failures exactly, and only its probe   *)
(* decides it, under every wrapper.                                        *)
THEOREM BreakerDecidesUnderRetries ==
  ISpec => OpensOnConsecutiveFailures /\ StaleResultsDoNotDecide
<1>1. ISpec => DropSpec
  BY StepProjects, PTL DEF ISpec, IInit, DropSpec
<1>. QED
  BY <1>1, ConsecutiveFailuresOpen, StaleResultsAreIgnored, PTL

(* Wrappers without a timeout never drop a call, and the breaker keeps its *)
(* promise to them: they implement BreakerProtocol.                        *)
THEOREM PromiseKeptUnderRetries ==
  ASSUME HasTimeout = {}
  PROVE  ISpec => ImplementsProtocol
<1>1. [INext]_ivars => [Next]_vars
  <2>. SUFFICES ASSUME [INext]_ivars PROVE [Next]_vars
    OBVIOUS
  <2>1. ASSUME NEW c \in Callers, Request(c) \/ Wake(c) PROVE UNCHANGED vars
    BY <2>1 DEF Request, Wake
  <2>2. ASSUME NEW c \in Callers, Start(c) \/ TurnedAway(c) \/ Answered(c) \/ Errored(c)
        PROVE  Enter(c) \/ Finish(c)
    BY <2>2 DEF Start, TurnedAway, Answered, Errored, Enter, Finish
  <2>3. ASSUME NEW c \in Callers, TimedOut(c) PROVE FALSE
    BY <2>3 DEF TimedOut
  <2>4. ASSUME NEW p \in {"up", "down", "hung"}, Switch(p) PROVE UNCHANGED vars
    BY <2>4 DEF Switch
  <2>5. CASE Clock
    BY <2>5 DEF Clock, Next
  <2>6. CASE UNCHANGED ivars
    BY <2>6 DEF ivars
  <2>7. ASSUME NEW c \in Callers, Progress(c) PROVE [Next]_vars
    BY <2>1, <2>2, <2>3, <2>7 DEF Progress, Next
  <2>. QED
    BY <2>1, <2>4, <2>5, <2>6, <2>7 DEF INext
<1>2. ISpec => Spec
  BY <1>1, PTL DEF ISpec, IInit, Spec
<1>. QED
  BY <1>2, BreakerKeepsPromise, PTL

-----------------------------------------------------------------------------

(* The error of the n-th attempt leaves room for another, or ends it. *)
LEMMA AfterErrorBudget ==
  ASSUME ITypeOK, NEW c \in Callers, NEW e \in Transient \cup Permanent,
         NEW n \in Nat, n \in 1 .. Budget(c), AfterError(c, e, n)
  PROVE  /\ phase'[c] = "backoff" => n < Budget(c)
         /\ phase'[c] \in {"backoff", "failed"}
         /\ phase'[c] = "failed" /\ Retryable(error'[c]) => n = Budget(c)
  BY DEF AfterError, ITypeOK, Budget

(* Once a request has made an attempt, it has made at least one. *)
Started == \A c \in Callers : phase[c] = "awaiting" => attempts[c] > 0

(* Every step preserves the budget. *)
LEMMA BudgetStep ==
  ITypeOK /\ AttemptBudget /\ Started /\ [INext]_ivars => AttemptBudget' /\ Started'
<1> SUFFICES ASSUME ITypeOK, AttemptBudget, Started, [INext]_ivars
             PROVE  AttemptBudget' /\ Started'
  OBVIOUS
<1> USE DEF AttemptBudget, Started
<1>t. /\ phase \in [Callers -> AtRest \cup {"attempt", "awaiting", "backoff"}]
      /\ attempts \in [Callers -> Nat]
      /\ error \in [Callers -> Transient \cup Permanent \cup {None}]
  BY DEF ITypeOK
<1>b. \A c \in Callers : Budget(c) \in Nat \ {0}
  BY DEF Budget
<1>f. ASSUME NEW c \in Callers, NEW e \in Transient \cup Permanent,
             NEW n \in 1 .. Budget(c), AfterError(c, e, n),
             attempts' = [attempts EXCEPT ![c] = n]
      PROVE  AttemptBudget' /\ Started'
  <2>1. /\ phase'[c] = "backoff" => n < Budget(c)
        /\ phase'[c] \in {"backoff", "failed"}
        /\ phase'[c] = "failed" /\ Retryable(error'[c]) => n = Budget(c)
    BY <1>b, <1>f, AfterErrorBudget
  <2>2. \A d \in Callers \ {c} : phase'[d] = phase[d] /\ error'[d] = error[d]
                                 /\ attempts'[d] = attempts[d]
    BY <1>f, <1>t DEF AfterError
  <2>3. attempts'[c] = n
    BY <1>f, <1>t
  <2>. QED
    BY <1>b, <1>t, <1>f, <2>1, <2>2, <2>3 DEF Retryable, Budget
<1>1. ASSUME NEW c \in Callers, Request(c) PROVE AttemptBudget' /\ Started'
  BY <1>1, <1>t, <1>b DEF Request, Budget, Retryable
<1>2. ASSUME NEW c \in Callers, Start(c) PROVE AttemptBudget' /\ Started'
  BY <1>2, <1>t, <1>b DEF Start, Budget, Retryable
<1>3. ASSUME NEW c \in Callers, TurnedAway(c) PROVE AttemptBudget' /\ Started'
  <2>1. attempts[c] + 1 \in 1 .. Budget(c)
    BY <1>3, <1>t, <1>b DEF TurnedAway
  <2>2. "Unavailable" \in Transient \cup Permanent
    BY DEF Transient
  <2>. QED
    BY <1>3, <1>f, <2>1, <2>2 DEF TurnedAway
<1>4. ASSUME NEW c \in Callers, Answered(c) PROVE AttemptBudget' /\ Started'
  BY <1>4, <1>t, <1>b DEF Answered, Budget, Retryable
<1>5. ASSUME NEW c \in Callers, Errored(c) \/ TimedOut(c)
      PROVE  AttemptBudget' /\ Started'
  <2>1. PICK e \in Transient \cup Permanent : AfterError(c, e, attempts[c])
    BY <1>5 DEF Errored, TimedOut, Transient
  <2>2. attempts[c] \in 1 .. Budget(c)
    BY <1>5, <1>t, <1>b DEF Errored, TimedOut
  <2>3. attempts' = [attempts EXCEPT ![c] = attempts[c]]
    BY <1>5, <1>t DEF Errored, TimedOut
  <2>. QED
    BY <1>f, <2>1, <2>2, <2>3
<1>6. ASSUME NEW c \in Callers, Wake(c) PROVE AttemptBudget' /\ Started'
  BY <1>6, <1>t, <1>b DEF Wake, Budget, Retryable
<1>7. ASSUME NEW p \in {"up", "down", "hung"}, Switch(p)
      PROVE  AttemptBudget' /\ Started'
  BY <1>7 DEF Switch, wrapper, Budget, Retryable
<1>8. CASE Clock
  BY <1>8 DEF Clock, wrapper, Budget, Retryable
<1>9. CASE UNCHANGED ivars
  BY <1>9 DEF ivars, Budget, Retryable
<1>. QED
  BY <1>1, <1>2, <1>3, <1>4, <1>5, <1>6, <1>7, <1>8, <1>9 DEF INext, Progress

(* No request exceeds its budget of attempts, and none gives up on a       *)
(* transient error before it has spent it. *)
THEOREM BudgetIsKept == ISpec => []AttemptBudget
<1>1. IInit => AttemptBudget /\ Started
  BY DEF IInit, AttemptBudget, Started, Budget
<1>. QED
  BY <1>1, BudgetStep, InstrumentedTypeCorrect, PTL DEF ISpec

-----------------------------------------------------------------------------

(* Every step that is not a timeout preserves CountsAll. *)
LEMMA CountsStep ==
  ASSUME HasTimeout = {}
  PROVE  CountsAll /\ ITypeOK /\ Inv /\ [INext]_ivars => CountsAll'
<1> SUFFICES ASSUME CountsAll, ITypeOK, Inv, [INext]_ivars PROVE CountsAll'
  OBVIOUS
<1>t. /\ streak \in 0 .. FailureThreshold
      /\ failures \in 0 .. FailureThreshold
      /\ state \in {"Closed", "Open", "HalfOpen"}
  BY DEF ITypeOK, TypeOK
<1>p. \A c \in probing : state = "HalfOpen"
  BY DEF Inv, SingleProbe
<1> USE DEF CountsAll
<1>1. ASSUME NEW c \in Callers, Request(c) \/ Wake(c) PROVE CountsAll'
  BY <1>1 DEF Request, Wake, vars
<1>2. ASSUME NEW c \in Callers, Start(c) \/ TurnedAway(c) PROVE CountsAll'
  BY <1>2 DEF Start, TurnedAway, Admit, Probe, Reject, breaker
<1>3. ASSUME NEW c \in Callers, Answered(c) PROVE CountsAll'
  BY <1>3, <1>t, <1>p
     DEF Answered, Succeed, StateAfterSuccess, FailuresAfterSuccess
<1>4. ASSUME NEW c \in Callers, Errored(c) PROVE CountsAll'
  BY <1>4, <1>t, <1>p
     DEF Errored, Fail, StateAfterFailure, Increment, CountFailure
<1>5. ASSUME NEW c \in Callers, TimedOut(c) PROVE CountsAll'
  BY <1>5 DEF TimedOut
<1>6. ASSUME NEW p \in {"up", "down", "hung"}, Switch(p) PROVE CountsAll'
  BY <1>6 DEF Switch, vars
<1>7. CASE Clock
  BY <1>7 DEF Clock, Tick
<1>8. CASE UNCHANGED ivars
  BY <1>8 DEF ivars, vars
<1>. QED
  BY <1>1, <1>2, <1>3, <1>4, <1>5, <1>6, <1>7, <1>8 DEF INext, Progress

(* Without timeouts, a breaker notices every provider that goes down. *)
THEOREM DownIsNoticed ==
  ASSUME HasTimeout = {}
  PROVE  ISpec => []DownOpens
<1>1. IInit => CountsAll
  BY DEF IInit, Init, CountsAll
<1>2. ITypeOK /\ CountsAll => DownOpens
  BY DEF CountsAll, DownOpens, ITypeOK, TypeOK
<1>. QED
  BY <1>1, <1>2, CountsStep, ITypeInvariance, PTL DEF ISpec

=============================================================================
