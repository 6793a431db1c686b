---------------------------- MODULE MCCameraFrame ----------------------------
(***************************************************************************)
(* A small instance of CameraFrame for TLC: one animation of each kind     *)
(* that leads to other flags among those the frame reads.                  *)
(***************************************************************************)
EXTENDS CameraFrame

MCAnimations ==
  {0,          \* standing
   20000,      \* walking
   68000,      \* an interaction
   202000,     \* turning
   1000}       \* judged by its events
=============================================================================
