------------------------------ MODULE Sanitize ------------------------------
(***************************************************************************)
(* src/sanitize.c: closing the descriptors of a process, resetting its     *)
(* signal actions and building the environment of a program.               *)
(*                                                                         *)
(* A descriptor table is a function from descriptors to files.             *)
(***************************************************************************)
EXTENDS Integers, Sequences

CONSTANTS NSIG,        \* signals are below it; 0 is not a signal
          Unsettable,  \* the signals whose action cannot be set, as SIGKILL
          NULL

ASSUME SignalsAssumption == NSIG \in Nat /\ Unsettable \subseteq 1 .. NSIG - 1

Std == {0, 1, 2}

(* What a descriptor stands for: an end of a pipe from or to a child, or   *)
(* anything else, by name.                                                 *)
Plain(name)        == [name |-> name, kid |-> NULL, end |-> "-"]
Pipe(k, name, end) == [name |-> name, kid |-> k, end |-> end]
Closed             == Plain("closed")

close(t, fds) == [fd \in DOMAIN t |-> IF fd \in fds THEN Closed ELSE t[fd]]

(* sanitize_files.  The standard descriptors that are closed are opened on *)
(* /dev/null from 0 on, so that each gets its own number; bad is the first *)
(* of them for which open_devnull fails, 3 if there is none, and the       *)
(* function returns there.                                                 *)
open_devnull(t, bad) ==
  [fd \in DOMAIN t |-> IF fd \in Std /\ fd < bad /\ t[fd] = Closed THEN Plain("null") ELSE t[fd]]

(* Mutant of sanitize_files: nothing above the standard descriptors is     *)
(* closed.                                                                 *)
sanitize_files_Keeps(t, keep, bad) == open_devnull(t, bad)

sanitize_files(t, keep, bad) ==
  open_devnull(close(t, DOMAIN t \ (Std \cup keep)), bad)

(* reset_signals_to_default answers the signals that it sets.  It begins   *)
(* with 0, of which sigismember answers -1 and not 0, and returns at the   *)
(* first one that sigaction refuses.                                       *)
reset_signals_to_default(sigs) ==
  LET asked   == sigs \cup {0}
      refused == asked \cap (Unsettable \cup {0})
  IN  {i \in asked : \A j \in refused : i < j}

-----------------------------------------------------------------------------
(* build_clean_environ lays out an array of pointers, ended by NULL, and   *)
(* behind it the strings.  A variable is a record of the lengths of its    *)
(* name and of its value in the environment, -1 if it is not in it; an     *)
(* entry of clean_environ or of addv is the length of its text.            *)
InEnviron(vars) ==
  LET kept[n \in 0 .. Len(vars)] ==
        IF n = 0 THEN <<>>
        ELSE IF vars[n].value >= 0 THEN Append(kept[n - 1], vars[n])
        ELSE kept[n - 1]
  IN  kept[Len(vars)]

Total(lens) ==
  LET sum[n \in 0 .. Len(lens)] == IF n = 0 THEN 0 ELSE sum[n - 1] + lens[n]
  IN  sum[Len(lens)]

(* Mutant of SizeOf: '=' is not counted. *)
SizeOf_NoEquals(v) == v.name + v.value + 1

(* The first pass counts the entries and their bytes: '=' and the end of a *)
(* preserved variable included.                                            *)
SizeOf(v) == v.name + v.value + 2

CountedSize(clean, preserve, add) ==
  Total([i \in DOMAIN clean |-> clean[i] + 1])
    + Total([i \in DOMAIN InEnviron(preserve) |-> SizeOf(InEnviron(preserve)[i])])
    + Total([i \in DOMAIN add |-> add[i] + 1])

CountedEntries(clean, preserve, add) == 1 + Len(clean) + Len(InEnviron(preserve)) + Len(add)

(* The second pass copies: name, '=', value and its end for a preserved    *)
(* variable, text and end for the others.                                  *)
CopiedLengths(clean, preserve, add) ==
  [i \in DOMAIN clean |-> clean[i] + 1]
    \o [i \in DOMAIN InEnviron(preserve) |->
          LET v == InEnviron(preserve)[i] IN v.name + 1 + (v.value + 1)]
    \o [i \in DOMAIN add |-> add[i] + 1]

(* The bytes allocated, the pointers among them, and where each string was *)
(* copied to.  PTR is the size of a pointer.                               *)
build_clean_environ(clean, preserve, add, PTR) ==
  LET slots   == CountedEntries(clean, preserve, add)
      lengths == CopiedLengths(clean, preserve, add)
  IN  [size   |-> CountedSize(clean, preserve, add) + slots * PTR,
       slots  |-> slots,
       copied |-> [i \in DOMAIN lengths |->
                     [at  |-> slots * PTR + Total(SubSeq(lengths, 1, i - 1)),
                      len |-> lengths[i]]]]
=============================================================================
