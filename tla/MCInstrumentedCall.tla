------------------------- MODULE MCInstrumentedCall -------------------------
(* InstrumentedCall for TLC.  Two callers are enough for a probe and a     *)
(* bystander, or a stale call and the call that opens the breaker; a       *)
(* threshold of two tells "consecutive" from "any".  The second alias      *)
(* retries, the first makes one attempt although its maximum is zero.      *)
EXTENDS InstrumentedCall, TLC

CONSTANTS c1, c2

TwoCallers == {c1, c2}
NoCaller == {}
Retries == (c1 :> 0) @@ (c2 :> 2)

=============================================================================
