-------------------------------- MODULE MCSrc --------------------------------
(***************************************************************************)
(* Model checking of Src: the configuration says which items are malformed *)
(* or without caps; no symmetry, because the run has liveness properties.  *)
(***************************************************************************)
EXTENDS Src
=============================================================================
