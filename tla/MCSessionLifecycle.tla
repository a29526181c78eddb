------------------------- MODULE MCSessionLifecycle -------------------------
(* Values for the constants of SessionLifecycle. *)
EXTENDS SessionLifecycle, TLC
CONSTANTS p1, p2
PodSymmetry == Permutations({p1, p2})
=============================================================================
