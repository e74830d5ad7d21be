------------------------------ MODULE LoadOnce ------------------------------
(***************************************************************************)
(* What the registry promises ("Concurrent requests for the same key MUST  *)
(* NOT trigger multiple loads ... all waiters receiving the same handle"): *)
(* each key is a cell that is filled once and never again, and whoever     *)
(* asks for a key is served what its cell holds.  ModelRegistry implements *)
(* this specification on the keys whose loads do not fail.                 *)
(***************************************************************************)
CONSTANTS Tasks, Keys, Instances, None

VARIABLES cell, served

ovars == <<cell, served>>

OInit ==
  /\ cell = [k \in Keys |-> None]
  /\ served = [t \in Tasks |-> None]

Fill(k, i) ==
  /\ cell[k] = None
  /\ cell' = [cell EXCEPT ![k] = i]
  /\ UNCHANGED served

Serve(t, k) ==
  /\ cell[k] # None
  /\ served' = [served EXCEPT ![t] = cell[k]]
  /\ UNCHANGED cell

\* A task that was served asks again and has no answer yet.
Ask(t) ==
  /\ served' = [served EXCEPT ![t] = None]
  /\ UNCHANGED cell

ONext ==
  \/ \E k \in Keys, i \in Instances : Fill(k, i)
  \/ \E t \in Tasks : Ask(t) \/ \E k \in Keys : Serve(t, k)

OSpec == OInit /\ [][ONext]_ovars

=============================================================================
