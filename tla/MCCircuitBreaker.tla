-------------------------- MODULE MCCircuitBreaker --------------------------
(* CircuitBreaker for TLC: three callers let a stale call, the probe and a *)
(* rejected call coexist; a threshold and a wait of two make "one failure  *)
(* recorded" and "half of the wait elapsed" states of their own.           *)
EXTENDS CircuitBreaker

CONSTANTS c1, c2, c3

MCCallers == {c1, c2, c3}
MCFailureThreshold == 2
MCOpenWait == 2

=============================================================================
