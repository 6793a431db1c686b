----------------------------- MODULE MCRenderer -----------------------------
(***************************************************************************)
(* An instance of Renderer for TLC: swap chains of up to three buffers     *)
(* are replaced twice, two threads that submit to two direct queues and    *)
(* one of another type.                                                    *)
(***************************************************************************)
EXTENDS Renderer
=============================================================================
