------------------------------- MODULE MCSink -------------------------------
(***************************************************************************)
(* Model checking of Sink on small instances: cells and subscribers are    *)
(* interchangeable, which the safety runs use as a symmetry.               *)
(***************************************************************************)
EXTENDS SinkChannel, TLC

Symmetry == Permutations(Cells) \cup Permutations(Subs)
=============================================================================
