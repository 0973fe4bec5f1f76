------------------------------- MODULE MCList -------------------------------
(* A small instance of List for TLC: the pointers are interchangeable. *)
EXTENDS List, TLC

PointerSymmetry == Permutations(Data)
=============================================================================
