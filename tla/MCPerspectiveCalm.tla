------------------------- MODULE MCPerspectiveCalm -------------------------
(***************************************************************************)
(* A small instance of PerspectiveCalm for TLC, without frames of          *)
(* AttachToHead: all they change is raised and touched, which no other     *)
(* action reads.                                                           *)
(***************************************************************************)
EXTENDS PerspectiveCalm
=============================================================================
