--------------------------- MODULE CircuitBreaker ---------------------------
(***************************************************************************)
(* The circuit breaker of reliability.rs (CircuitBreakerWrapper::call),    *)
(* shared by concurrent callers.                                           *)
(*                                                                         *)
(* `call` locks the breaker twice: once to decide whether the operation    *)
(* may start, once to record its result.  The operation runs in between    *)
(* with the breaker unlocked, so each of the two critical sections is one  *)
(* action here and anything may happen to the breaker between them.        *)
(*                                                                         *)
(* A caller may also drop the future it awaits (tokio::time::timeout does  *)
(* so to an attempt that takes too long): the second critical section then *)
(* never runs.  Spec is about callers that do not, DropSpec about callers  *)
(* that may.                                                               *)
(***************************************************************************)
EXTENDS Naturals, Sequences

CONSTANTS
  Callers,            \* tasks that share the breaker
  FailureThreshold,   \* CircuitBreakerConfig::failure_threshold
  OpenWait,           \* open_wait_seconds, in ticks
  None                \* Option::None

ASSUME NoneAssumption == None \notin Nat /\ None \notin Callers
ASSUME ThresholdAssumption == FailureThreshold \in Nat
ASSUME OpenWaitAssumption == OpenWait \in Nat

VARIABLES
  state,          \* Inner::state
  failures,       \* Inner::failures, counted up to FailureThreshold
  lastFailure,    \* age of Inner::last_failure, up to OpenWait; or None
  probeInFlight,  \* Inner::half_open_probe_in_flight
  call,           \* what each caller's latest call is doing or returned
  probing,        \* the running callers whose is_probe_call is true
  results         \* history: latest results recorded since the last close

breaker == <<state, failures, lastFailure, probeInFlight>>
vars == <<state, failures, lastFailure, probeInFlight, call, probing, results>>

Ages == 0 .. OpenWait
Outcomes == {"idle", "ok", "err", "rejected", "cancelled"}

Running(c) == call[c] = "running"

(***************************************************************************)
(* The breaker starts Closed; nobody has called it.                        *)
(***************************************************************************)
Init ==
  /\ state = "Closed"
  /\ failures = 0
  /\ lastFailure = None
  /\ probeInFlight = FALSE
  /\ call = [c \in Callers |-> "idle"]
  /\ probing = {}
  /\ results = <<>>

(***************************************************************************)
(* First critical section: admit, promote to probe, or reject.             *)
(***************************************************************************)
Cooled == lastFailure # None /\ lastFailure = OpenWait

\* Variant: the flag is not consulted, every HalfOpen caller probes.
MayProbeIgnoringFlag ==
  \/ state = "Open" /\ Cooled
  \/ state = "HalfOpen"

MayProbe ==
  \/ state = "Open" /\ Cooled
  \/ state = "HalfOpen" /\ ~probeInFlight

MustReject ==
  \/ state = "Open" /\ lastFailure # None /\ ~Cooled
  \/ state = "HalfOpen" /\ probeInFlight

Admit(c) ==
  /\ ~Running(c)
  /\ ~MayProbe
  /\ ~MustReject
  /\ call' = [call EXCEPT ![c] = "running"]
  /\ UNCHANGED <<breaker, probing, results>>

Probe(c) ==
  /\ ~Running(c)
  /\ MayProbe
  /\ state' = "HalfOpen"
  /\ probeInFlight' = TRUE
  /\ call' = [call EXCEPT ![c] = "running"]
  /\ probing' = probing \cup {c}
  /\ UNCHANGED <<failures, lastFailure, results>>

\* Variant: a rejection is recorded as one more failure of the provider.
RejectRecorded(c) ==
  /\ ~Running(c)
  /\ MustReject
  /\ call' = [call EXCEPT ![c] = "rejected"]
  /\ lastFailure' = 0
  /\ UNCHANGED <<state, failures, probeInFlight, probing, results>>

Reject(c) ==
  /\ ~Running(c)
  /\ MustReject
  /\ call' = [call EXCEPT ![c] = "rejected"]
  /\ UNCHANGED <<breaker, probing, results>>

(***************************************************************************)
(* Second critical section: record the result of the operation.  Only a    *)
(* probe moves the state on success; a failure moves it for a probe, or    *)
(* for an ordinary call while Closed once the threshold is reached.        *)
(***************************************************************************)

\* Variants: no success closes; a success outside a probe leaves the count.
StateKept(c) == state
FailuresKept(c) == IF c \in probing THEN 0 ELSE failures

StateAfterSuccess(c) == IF c \in probing THEN "Closed" ELSE state

FailuresAfterSuccess(c) ==
  IF c \in probing \/ state = "Closed" THEN 0 ELSE failures

FlagAfterSuccess(c) == IF c \in probing THEN FALSE ELSE probeInFlight

\* Variants: a failure trips the breaker in any state; one failure too late.
StateAfterAnyFailure(c) ==
  IF c \in probing \/ failures + 1 >= FailureThreshold THEN "Open" ELSE state
StateAfterLateFailure(c) ==
  IF c \in probing \/ (state = "Closed" /\ failures >= FailureThreshold) THEN "Open" ELSE state

StateAfterFailure(c) ==
  IF \/ c \in probing
     \/ state = "Closed" /\ failures + 1 >= FailureThreshold
    THEN "Open" ELSE state

FlagAfterFailure(c) == IF c \in probing THEN FALSE ELSE probeInFlight

\* The code only compares the count with the threshold: counting stops there.
Increment(n) == IF n < FailureThreshold THEN n + 1 ELSE n

\* The history: what was recorded while Closed, oldest first, the last
\* FailureThreshold results of it.
Record(r) ==
  LET s == Append(results, r)
  IN  IF Len(s) > FailureThreshold THEN Tail(s) ELSE s

Succeed(c) ==
  /\ Running(c)
  /\ call' = [call EXCEPT ![c] = "ok"]
  /\ probing' = probing \ {c}
  /\ state' = StateAfterSuccess(c)
  /\ failures' = FailuresAfterSuccess(c)
  /\ probeInFlight' = FlagAfterSuccess(c)
  /\ results' = IF c \in probing THEN <<>>
                ELSE IF state = "Closed" THEN Record("ok") ELSE results
  /\ UNCHANGED lastFailure

Fail(c) ==
  /\ Running(c)
  /\ call' = [call EXCEPT ![c] = "err"]
  /\ probing' = probing \ {c}
  /\ state' = StateAfterFailure(c)
  /\ failures' = Increment(failures)
  /\ probeInFlight' = FlagAfterFailure(c)
  /\ lastFailure' = 0
  /\ results' = IF state = "Closed" THEN Record("err") ELSE results

(***************************************************************************)
(* The caller drops the future while the operation runs.  Nothing in       *)
(* reliability.rs runs on drop: the breaker keeps what the first critical  *)
(* section wrote.                                                          *)
(***************************************************************************)
Cancel(c) ==
  /\ Running(c)
  /\ call' = [call EXCEPT ![c] = "cancelled"]
  /\ probing' = probing \ {c}
  /\ UNCHANGED <<breaker, results>>

(***************************************************************************)
(* Instant::elapsed: ages past OpenWait are all alike to the code.         *)
(***************************************************************************)
Tick ==
  /\ lastFailure # None
  /\ lastFailure < OpenWait
  /\ lastFailure' = lastFailure + 1
  /\ UNCHANGED <<state, failures, probeInFlight, call, probing, results>>

Enter(c) == Admit(c) \/ Probe(c) \/ Reject(c)
Finish(c) == Succeed(c) \/ Fail(c)

Next ==
  \/ \E c \in Callers : Enter(c) \/ Finish(c)
  \/ Tick

Spec == Init /\ [][Next]_vars

DropNext == Next \/ \E c \in Callers : Cancel(c)

DropSpec == Init /\ [][DropNext]_vars

(***************************************************************************)
(* Fairness.  The clock advances; an operation that is not dropped ends    *)
(* (the executor keeps polling it); and callers keep calling, so that a    *)
(* breaker that may be probed is.                                          *)
(***************************************************************************)
Fairness ==
  /\ WF_vars(Tick)
  /\ \A c \in Callers : WF_vars(Finish(c)) /\ WF_vars(Probe(c))

FairSpec == Spec /\ Fairness

-----------------------------------------------------------------------------
(* Properties *)

TypeOK ==
  /\ state \in {"Closed", "Open", "HalfOpen"}
  /\ failures \in 0 .. FailureThreshold
  /\ lastFailure \in Ages \cup {None}
  /\ probeInFlight \in BOOLEAN
  /\ call \in [Callers -> Outcomes \cup {"running"}]
  /\ probing \subseteq Callers
  /\ results \in Seq({"ok", "err"})

(* At most one probe runs at any time, it runs only in the HalfOpen state, *)
(* and the flag that turns other callers away is up for as long as it      *)
(* runs, whatever calls admitted before the breaker opened report          *)
(* meanwhile.                                                              *)
SingleProbe ==
  /\ \A c, d \in probing : c = d
  /\ probing # {} => state = "HalfOpen" /\ probeInFlight

(* The breaker turns callers away in HalfOpen only until the probe         *)
(* completes: unless callers drop their calls, the raised flag belongs to  *)
(* a probe that is still running, so somebody will lower it.               *)
FlagHasOwner ==
  probeInFlight => \E c \in probing : Running(c)

(* An Open breaker knows when it last failed: without a time stamp the     *)
(* check would fall through and let every caller in.  HalfOpen and the     *)
(* flag always come together, so no second caller is promoted to probe.    *)
OpenIsTimed ==
  /\ state = "Open" => lastFailure # None
  /\ state = "HalfOpen" <=> probeInFlight

(* The state is decided by the right caller: a breaker leaves HalfOpen     *)
(* only through its own probe's result, and results of calls admitted      *)
(* before it opened never close it or restart the probing.                 *)
StaleResultsDoNotDecide ==
  [][ /\ state = "HalfOpen" /\ state' # "HalfOpen" =>
           \E c \in probing : call'[c] \in {"ok", "err"}
      /\ state' = "Closed" /\ state # "Closed" =>
           \E c \in probing : call'[c] = "ok"
      /\ state = "Open" /\ state' # "Open" => Cooled ]_vars

(* "Number of consecutive failures before the breaker opens": in Closed    *)
(* the breaker opens when, and only when, the last FailureThreshold        *)
(* results it recorded since it closed are all errors.                     *)
AllErrors(s) ==
  Len(s) = FailureThreshold /\ \A i \in 1 .. Len(s) : s[i] = "err"

OpensOnConsecutiveFailures ==
  [][ state = "Closed" /\ results' # results =>
        (state' = "Open" <=> AllErrors(results')) ]_vars

(* A breaker that opened is probed again after the wait: results of calls  *)
(* admitted earlier push the wait back, but not for ever.                  *)
OpenIsProbed == state = "Open" ~> state = "HalfOpen"

(* A half-open breaker resolves: its probe closes or re-opens it.          *)
HalfOpenResolves == state = "HalfOpen" ~> state # "HalfOpen"

(* Taken together: no breaker stays away from its service for ever.        *)
BreakerRecovers == OpenIsProbed /\ HalfOpenResolves

(* The breaker implements the promise of BreakerProtocol, whose prober is  *)
(* the running caller that is_probe_call marks: every step is one of the   *)
(* promise's steps or leaves its state unchanged.                          *)
Prober == IF probing = {} THEN None ELSE CHOOSE c \in probing : TRUE

Protocol == INSTANCE BreakerProtocol WITH
  phase <- state, active <- {c \in Callers : Running(c)}, prober <- Prober

ImplementsProtocol == Protocol!PSpec

=============================================================================
