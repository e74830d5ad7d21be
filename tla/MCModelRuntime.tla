--------------------------- MODULE MCModelRuntime ---------------------------
(* ModelRuntime for TLC: an alias that startup requires, one that shares   *)
(* its key and warms in the background meanwhile, and one with a key of    *)
(* its own.  That one is registered later in the safety run, where two     *)
(* users race on it; in the liveness run it warms in the background and    *)
(* one user races with that.  One accessor: the wrappers of two surfaces   *)
(* never meet.  Only the models of k2 have its trait.                      *)
EXTENDS ModelRuntime, TLC

CONSTANTS u1, u2, b, k1, k2, a1, a2, a3, must, may, late, dense,
          l1, l2, l3, l4, l5, i1, i2, i3, i4, i5

TwoUsers == {u1, u2}
OneUser == {u1}
TwoUserTasks == {u1, u2, b, a2}
OneUserTasks == {u1, b, a2, a3}
MCKeys == {k1, k2}
MCAliases == {a1, a2, a3}
MCSpecs == {must, may, late}
MCKeyOf == (must :> k1) @@ (may :> k1) @@ (late :> k2)
MCPolicy == (must :> "eager") @@ (may :> "background") @@ (late :> "background")
MCRequired == {must}
LateRegistered == (a1 :> must) @@ (a2 :> may) @@ (a3 :> None)
LateWarmed == (a1 :> must) @@ (a2 :> may) @@ (a3 :> late)
MCSurfaces == {dense}
MCViews == (k1 :> {}) @@ (k2 :> {dense})
MCLocks == {l1, l2, l3, l4, l5}
MCInstances == {i1, i2, i3, i4, i5}
UserSymmetry == Permutations(TwoUsers)

=============================================================================
