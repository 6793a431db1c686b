------------------------- MODULE MCMemoryProtection -------------------------
(***************************************************************************)
(* A small instance of MemoryProtection for TLC: two addresses on a page   *)
(* of read-only data, one in code.                                         *)
(***************************************************************************)
EXTENDS MemoryProtection, TLC

CONSTANTS a1, a2, a3, data, code

MCAddresses == {a1, a2, a3}
MCPageOf == a1 :> data @@ a2 :> data @@ a3 :> code
MCOriginal == data :> "PAGE_READONLY" @@ code :> "PAGE_EXECUTE_READ"
=============================================================================
