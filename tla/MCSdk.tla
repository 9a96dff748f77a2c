------------------------------- MODULE MCSdk -------------------------------
(***************************************************************************)
(* Model checking of Sdk: cells and subscribers are interchangeable,       *)
(* which the run without liveness properties uses as a symmetry.           *)
(***************************************************************************)
EXTENDS Sdk, TLC

Symmetry == Permutations(Cells) \cup Permutations(Subs)
=============================================================================
