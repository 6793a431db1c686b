--------------------------- MODULE MCPerspective ---------------------------
(***************************************************************************)
(* A small instance of Perspective and of its refinement for TLC.          *)
(***************************************************************************)
EXTENDS PerspectiveRefinement

\* One kind of frame: locked on a target, with a scan due.  The other flags
\* come and go as LockTgtOverride does.
LockedFrame ==
  [on   |-> {"isLockedOnLook", "LockTgtOverride", "isGetChrAttack"},
   game |-> {"isLockedOnMove", "isLockedOnAnim"}]

MCHeadFrames == {LockedFrame}
=============================================================================
