------------------------------- MODULE MCLink -------------------------------
(***************************************************************************)
(* Model checking of Link: one source, and no symmetry because the run has *)
(* liveness properties.                                                    *)
(***************************************************************************)
EXTENDS Link
=============================================================================
