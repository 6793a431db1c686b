---------------------------- MODULE MCAttackScan ----------------------------
(***************************************************************************)
(* A small instance of AttackScan for TLC.                                 *)
(***************************************************************************)
EXTENDS AttackScan, TLC

CONSTANTS e1, e2, e3

\* Three characters for a buffer of two slots, so that it wraps.
MCEnemies == {e1, e2, e3}

\* Their low halves differ, and only whether they are equal matters.
MCLowOf == [e \in MCEnemies |-> e]

\* Only equality of addresses matters.
MCSymmetry ==
  Permutations(MCEnemies) \cup Permutations(Taes) \cup Permutations(Bullets)
=============================================================================
