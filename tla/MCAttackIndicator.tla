------------------------- MODULE MCAttackIndicator -------------------------
(***************************************************************************)
(* An instance of AttackIndicator for TLC: as many slots as the code has,  *)
(* and one enemy more.                                                     *)
(***************************************************************************)
EXTENDS AttackIndicator
=============================================================================
