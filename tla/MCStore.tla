------------------------------ MODULE MCStore ------------------------------
(***************************************************************************)
(* Store on small instances.  Orders and events are interchangeable; no    *)
(* run has a liveness property.                                            *)
(***************************************************************************)
EXTENDS Store, TLC

MCSymmetry == Permutations(Orders) \cup Permutations(Events)
=============================================================================
