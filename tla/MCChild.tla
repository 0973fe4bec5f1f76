------------------------------ MODULE MCChild -------------------------------
(* Lengths of the strings of an environment for Child. *)
EXTENDS Child

Clean == <<3, 5>>

(* TZ, and two that a client preserves; the second is not set. *)
Vars == <<[name |-> 2, value |-> 0], [name |-> 3, value |-> -1], [name |-> 1, value |-> 4]>>

Adds == <<7, 3>>

(* Programs that run as another user and group, as another group or as     *)
(* another user, a program of root, one that root runs as a user; and      *)
(* programs that lack standard descriptors, as a daemon does.              *)
Has(fds, ru, eu, rg, eg) == [open |-> fds, uid |-> [r |-> ru, e |-> eu], gid |-> [r |-> rg, e |-> eg]]

As(ru, eu, rg, eg) == Has(0 .. 3, ru, eu, rg, eg)

Startings ==
  {As(1, 0, 1, 0), As(1, 1, 1, 0), As(1, 0, 1, 1), As(0, 0, 0, 0), As(0, 1, 0, 1)}
    \cup {Has((0 .. 3) \ std, 1, 1, 1, 1) : std \in {{0}, {1}, {0, 1}, {2}}}
=============================================================================
