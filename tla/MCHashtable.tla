----------------------------- MODULE MCHashtable -----------------------------
(* Small instances of Hashtable for TLC.  The table sizes and the load     *)
(* limit are scaled down from 3, 7, 13, ... and 3.0, so that a table grows *)
(* twice; one and uno match, and one and two collide at every size.        *)
EXTENDS Hashtable

CONSTANTS one, uno, two, three, four, five

Keys == (one :> 1 @@ uno :> 1 @@ two :> 2 @@ three :> 3 @@ four :> 4 @@ five :> 5)
Hashes == (one :> 0 @@ uno :> 0 @@ two :> 30 @@ three :> 1 @@ four :> 2 @@ five :> 5)
Sizes == <<1, 2, 5>>
=============================================================================
