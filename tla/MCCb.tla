-------------------------------- MODULE MCCb --------------------------------
(* A small instance of Cb for TLC: one name with up to three callbacks,    *)
(* and a second one whose bucket an insertion can make the table lose.     *)
EXTENDS Cb

CONSTANTS foo, bar, c1, c2, c3

TwoNames == [n \in {foo, bar} |-> IF n = foo THEN {c1, c2, c3} ELSE {c1}]
=============================================================================
