------------------------------ MODULE MCAiofd ------------------------------
(* Small instances of Aiofd for TLC: an empty buffer, which is refused,    *)
(* one of a single byte, and two of several.                               *)
EXTENDS Aiofd

CONSTANTS empty, one, two, three

Sizes == (empty :> 0 @@ one :> 1 @@ two :> 2 @@ three :> 3)
Pair == (one :> 1 @@ three :> 3)
=============================================================================
