-------------------------- MODULE MCSubscriptions --------------------------
(* Three overlapping updates of two event types.                           *)
EXTENDS Subscriptions, TLC

CONSTANTS k1, k2, k3

MCCallSymmetry == Permutations({k1, k2, k3})
=============================================================================
