----------------------------- MODULE MCDelivery -----------------------------
(***************************************************************************)
(* Delivery on small instances: suppliers A and B with one code for every  *)
(* order, or with too few codes for all of them.                           *)
(***************************************************************************)
EXTENDS Delivery, TLC

CONSTANTS a1, a2, b1, b2

MCAmple == (A :> {a1, a2}) @@ (B :> {b1, b2})
MCScarce == (A :> {a1}) @@ (B :> {b1})

MCEmpty == (A :> {}) @@ (B :> {})

MCSlowSymmetry == Permutations(Workers) \cup Permutations(Events)
MCSymmetry == MCSlowSymmetry \cup Permutations(Orders)
=============================================================================
