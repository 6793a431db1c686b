---------------------------- MODULE MCStartup ------------------------------
(***************************************************************************)
(* An instance of Startup for TLC: two other overlays, two of the mod's    *)
(* own, so that a file may ask for one, both or none.  The first           *)
(* instructions of Present end where each kind of jump does, ResizeBuffers *)
(* begins with one that has room for any, and the others with one that has *)
(* room for all but a far jump.                                            *)
(***************************************************************************)
EXTENDS Startup, TLC

MCClearance ==
  [x \in Function \cup Parties |->
    [kind \in Jumps |-> IF x = "Present" THEN Length[kind]
                        ELSE IF x = "ResizeBuffers" \/ kind = "far" THEN 15 ELSE 7]]

MCSymmetry == Permutations(Parties)
=============================================================================
