-------------------------- MODULE MCModelRegistry --------------------------
(* ModelRegistry for TLC.  Three tasks are what the hard interleavings     *)
(* need: one that loads, one that waits for its lock and one that arrives  *)
(* after the lock has left the map.  With two keys one is reliable and the *)
(* other may fail.  Four locks and four instances never run out.           *)
(*                                                                         *)
(* The tasks are interchangeable; and whether an instance that nothing     *)
(* refers to was warm is read by no action, so states are told apart by    *)
(* the warmth of the instances in use.                                     *)
EXTENDS ModelRegistry, TLC

CONSTANTS t1, t2, t3, k1, k2, l1, l2, l3, l4, i1, i2, i3, i4

ThreeTasks == {t1, t2, t3}
OneKey == {k1}
OtherKey == {k2}
TwoKeys == {k1, k2}
MCLocks == {l1, l2, l3, l4}
MCInstances == {i1, i2, i3, i4}
TaskSymmetry == Permutations(ThreeTasks)

StateInUse ==
  <<instances, loaderLocks, pc, key, lock, handle, warmed \ FreeInstances>>

=============================================================================
