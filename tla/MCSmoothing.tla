---------------------------- MODULE MCSmoothing ----------------------------
(***************************************************************************)
(* Smoothing with the sizes of the code, for two heights that differ from  *)
(* the zero of an empty cell.                                              *)
(***************************************************************************)
EXTENDS Smoothing
=============================================================================
