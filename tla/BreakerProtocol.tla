-------------------------- MODULE BreakerProtocol --------------------------
(***************************************************************************)
(* What a circuit breaker promises, without counters, clocks or flags:     *)
(* calls run freely while it is Closed, none starts while it is Open       *)
(* except the one probe that makes it HalfOpen, and the probe's result     *)
(* alone decides what follows.  CircuitBreaker implements this             *)
(* specification as long as callers do not drop their calls.               *)
(***************************************************************************)
CONSTANTS Callers, None

VARIABLES phase, active, prober

pvars == <<phase, active, prober>>

PInit ==
  /\ phase = "Closed"
  /\ active = {}
  /\ prober = None

PStart(c) ==
  /\ phase = "Closed"
  /\ c \notin active
  /\ active' = active \cup {c}
  /\ UNCHANGED <<phase, prober>>

PProbe(c) ==
  /\ phase = "Open"
  /\ c \notin active
  /\ phase' = "HalfOpen"
  /\ active' = active \cup {c}
  /\ prober' = c

(* An ordinary call ends; its failure may open a Closed breaker. *)
PEnd(c) ==
  /\ c \in active
  /\ c # prober
  /\ active' = active \ {c}
  /\ \/ phase' = phase
     \/ phase = "Closed" /\ phase' = "Open"
  /\ UNCHANGED prober

(* The probe ends: the breaker closes or opens again. *)
PResolve(c) ==
  /\ c = prober
  /\ active' = active \ {c}
  /\ prober' = None
  /\ phase' \in {"Closed", "Open"}

PNext == \E c \in Callers : PStart(c) \/ PProbe(c) \/ PEnd(c) \/ PResolve(c)

PSpec == PInit /\ [][PNext]_pvars

=============================================================================
