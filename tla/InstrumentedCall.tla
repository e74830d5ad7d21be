-------------------------- MODULE InstrumentedCall --------------------------
(***************************************************************************)
(* The instrumented model handles of reliability.rs (run_instrumented and  *)
(* the wrappers that spell the same loop out) over a remote model whose    *)
(* every call goes through the circuit breaker of its runtime key.         *)
(*                                                                         *)
(* A request makes attempts until one succeeds, fails for good, or the     *)
(* budget of attempts is spent; between two attempts it sleeps.  A request *)
(* with a timeout drops the attempt's future when the timeout expires:     *)
(* that is CircuitBreaker's Cancel, and the only result of an attempt that *)
(* the breaker never hears of.  Every action here is an action of          *)
(* CircuitBreaker joined with what the wrapper does in the same poll.      *)
(*                                                                         *)
(* The provider behind the network is part of the environment: it may      *)
(* answer, fail, or hang.                                                  *)
(***************************************************************************)
EXTENDS CircuitBreaker

CONSTANTS
  MaxAttempts,  \* RetryConfig::max_attempts of each caller's alias; 1 if none
  HasTimeout    \* the callers whose alias has a timeout

ASSUME MaxAttemptsAssumption == MaxAttempts \in [Callers -> Nat]
ASSUME HasTimeoutAssumption == HasTimeout \subseteq Callers

VARIABLES
  provider,  \* the remote service: "up", "down" or "hung"
  phase,     \* where each caller's request is
  attempts,  \* its local `attempts`
  error,     \* the error of its latest attempt, None after a success
  streak     \* history: attempts in a row that ended in an error or a timeout

wrapper == <<phase, attempts, error>>
ivars == <<vars, provider, phase, attempts, error, streak>>

Transient == {"RateLimited", "Timeout", "Unavailable"}
Permanent == {"Unauthorized", "ApiError"}
Retryable(e) == e \in Transient

AtRest == {"rest", "done", "failed"}

IInit ==
  /\ Init
  /\ provider = "up"
  /\ phase = [c \in Callers |-> "rest"]
  /\ attempts = [c \in Callers |-> 0]
  /\ error = [c \in Callers |-> None]
  /\ streak = 0

CountFailure == streak' = IF streak < FailureThreshold THEN streak + 1 ELSE streak

(***************************************************************************)
(* A caller invokes a method of its handle.                                *)
(***************************************************************************)
Request(c) ==
  /\ phase[c] \in AtRest
  /\ phase' = [phase EXCEPT ![c] = "attempt"]
  /\ attempts' = [attempts EXCEPT ![c] = 0]
  /\ error' = [error EXCEPT ![c] = None]
  /\ UNCHANGED <<vars, provider, streak>>

(***************************************************************************)
(* What the loop does with the error of the n-th attempt: sleep and go     *)
(* round again, or give it to the caller.                                  *)
(***************************************************************************)

\* Variant: one attempt too many.
AfterErrorOffByOne(c, e, n) ==
  /\ error' = [error EXCEPT ![c] = e]
  /\ phase' = [phase EXCEPT ![c] =
       IF Retryable(e) /\ n <= MaxAttempts[c] THEN "backoff" ELSE "failed"]

AfterError(c, e, n) ==
  /\ error' = [error EXCEPT ![c] = e]
  /\ phase' = [phase EXCEPT ![c] =
       IF Retryable(e) /\ n < MaxAttempts[c] THEN "backoff" ELSE "failed"]

(***************************************************************************)
(* One attempt: the breaker lets it through to the provider, or turns it   *)
(* away with Unavailable at once.                                          *)
(***************************************************************************)
Start(c) ==
  /\ phase[c] = "attempt"
  /\ Admit(c) \/ Probe(c)
  /\ phase' = [phase EXCEPT ![c] = "awaiting"]
  /\ attempts' = [attempts EXCEPT ![c] = @ + 1]
  /\ UNCHANGED <<provider, error, streak>>

TurnedAway(c) ==
  /\ phase[c] = "attempt"
  /\ Reject(c)
  /\ attempts' = [attempts EXCEPT ![c] = @ + 1]
  /\ AfterError(c, "Unavailable", attempts[c] + 1)
  /\ UNCHANGED <<provider, streak>>

Answered(c) ==
  /\ phase[c] = "awaiting"
  /\ provider = "up"
  /\ Succeed(c)
  /\ phase' = [phase EXCEPT ![c] = "done"]
  /\ error' = [error EXCEPT ![c] = None]
  /\ streak' = 0
  /\ UNCHANGED <<provider, attempts>>

\* The service refuses (429, 5xx), rejects (401, 403, 4xx), or the request
\* or the response is lost (ApiError).
Errored(c) ==
  /\ phase[c] = "awaiting"
  /\ provider = "down"
  /\ Fail(c)
  /\ \E e \in (Transient \ {"Timeout"}) \cup Permanent :
       AfterError(c, e, attempts[c])
  /\ CountFailure
  /\ UNCHANGED <<provider, attempts>>

TimedOut(c) ==
  /\ c \in HasTimeout
  /\ phase[c] = "awaiting"
  /\ provider # "up"
  /\ Cancel(c)
  /\ AfterError(c, "Timeout", attempts[c])
  /\ CountFailure
  /\ UNCHANGED <<provider, attempts>>

\* Variant: the loop counts its attempts anew after each sleep.
WakeForgets(c) ==
  /\ phase[c] = "backoff"
  /\ phase' = [phase EXCEPT ![c] = "attempt"]
  /\ attempts' = [attempts EXCEPT ![c] = 0]
  /\ UNCHANGED <<vars, provider, error, streak>>

Wake(c) ==
  /\ phase[c] = "backoff"
  /\ phase' = [phase EXCEPT ![c] = "attempt"]
  /\ UNCHANGED <<vars, provider, attempts, error, streak>>

(***************************************************************************)
(* The environment.  "up" means that the service answers every call before *)
(* its timeout.                                                            *)
(***************************************************************************)
Switch(p) ==
  /\ provider # p
  /\ provider' = p
  /\ UNCHANGED <<vars, wrapper, streak>>

Clock == Tick /\ UNCHANGED <<provider, wrapper, streak>>

Progress(c) ==
  Start(c) \/ TurnedAway(c) \/ Answered(c) \/ Errored(c) \/ TimedOut(c) \/ Wake(c)

INext ==
  \/ \E c \in Callers : Request(c) \/ Progress(c)
  \/ \E p \in {"up", "down", "hung"} : Switch(p)
  \/ Clock

ISpec == IInit /\ [][INext]_ivars

(***************************************************************************)
(* Fairness: the executor polls what is ready, time passes, and callers    *)
(* keep calling (without a caller nothing probes a breaker that opened).   *)
(***************************************************************************)
IFairness ==
  /\ WF_ivars(Clock)
  /\ \A c \in Callers : WF_ivars(Progress(c)) /\ WF_ivars(Request(c))

IFairSpec == ISpec /\ IFairness

-----------------------------------------------------------------------------
(* Properties *)

Budget(c) == IF MaxAttempts[c] > 1 THEN MaxAttempts[c] ELSE 1

ITypeOK ==
  /\ TypeOK
  /\ provider \in {"up", "down", "hung"}
  /\ phase \in [Callers -> AtRest \cup {"attempt", "awaiting", "backoff"}]
  /\ attempts \in [Callers -> Nat]
  /\ error \in [Callers -> Transient \cup Permanent \cup {None}]
  /\ streak \in 0 .. FailureThreshold
  /\ \A c \in Callers : phase[c] = "awaiting" <=> Running(c)

(* "Maximum number of attempts (including the initial call)": a request    *)
(* never makes more attempts, however the breaker and the timeouts of      *)
(* other requests interfere, and it gives up on a transient error only     *)
(* once it has made them all.  A maximum of zero counts as one.            *)
AttemptBudget ==
  \A c \in Callers :
    /\ attempts[c] <= Budget(c)
    /\ phase[c] \in {"attempt", "backoff"} => attempts[c] < Budget(c)
    /\ phase[c] = "failed" /\ Retryable(error[c]) => attempts[c] = Budget(c)

(* A provider that goes down is noticed: once as many attempts in a row as *)
(* the threshold have failed, by an error or by a timeout, the breaker no  *)
(* longer lets everybody through.                                          *)
DownOpens ==
  FailureThreshold > 0 /\ streak = FailureThreshold => state # "Closed"

(* Every request of an alias with a timeout ends, whatever the provider    *)
(* does: attempts, rejections and sleeps do not go on for ever.            *)
RequestEnds ==
  \A c \in HasTimeout : phase[c] \notin AtRest ~> phase[c] \in AtRest

(* "When the provider recovers, the half-open probe succeeds and traffic   *)
(* resumes": once the provider stays up, the breaker closes and stays so.  *)
TrafficResumes == <>[](provider = "up") => <>[](state = "Closed")

=============================================================================
