---------------------------- MODULE MCPlaceHook -----------------------------
(***************************************************************************)
(* An instance of PlaceHook for TLC: two overlays that hook the functions  *)
(* before or after the mod does.  The first instruction has room for any   *)
(* jump but a far one.                                                     *)
(***************************************************************************)
EXTENDS PlaceHook

MCClearance ==
  [x \in Function \cup Parties |->
    [kind \in Jumps |-> IF kind = "far" THEN 14 ELSE 7]]
=============================================================================
