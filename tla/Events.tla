------------------------------- MODULE Events -------------------------------
(***************************************************************************)
(* The events of src/events.c on top of libev's default loop: creating,    *)
(* starting, stopping and deleting signal, child and io events from the    *)
(* program and from the callbacks of other events, with the disposition    *)
(* and the mask of the signals that they save and restore, and running and *)
(* stopping the loop, also from inside itself.                             *)
(*                                                                         *)
(* libev is external; what it does to the signals is modelled as the code  *)
(* relies on it.  A signal's action is "libev" while libev handles it.     *)
(***************************************************************************)
EXTENDS Integers, Sequences, SequencesExt

CONSTANTS Events,     \* the evt_t a caller may have
          Signals,    \* the signals events are made for, SIGCHLD among them
          SIGCHLD,
          NULL,
          Overlapping,\* may events of one signal exist at the same time?
          MaxDepth    \* bound: runs of the loop and callbacks in each other

ASSUME SignalsAssumption == SIGCHLD \in Signals /\ NULL \notin Events /\ NULL \notin Signals
Actions == {"orig", "default", "libev"}

(* An evt_t, with the pointer to its loop as a flag. *)
Evt == [type : {"signal", "child", "io"}, signum : Signals \cup {NULL}, el : BOOLEAN,
        oldact : Actions \cup {NULL}, oldset : BOOLEAN]

ASSUME NullAssumption == NULL \notin Evt
ASSUME CallerAssumption == Overlapping \in BOOLEAN /\ MaxDepth \in Nat

VARIABLES el,       \* is there a loop?
          evts,     \* Events -> the evt_t, or NULL where there is none
          action,   \* Signals -> the process's signal disposition
          blocked,  \* the process's signal mask
          stack,    \* the call stack: "run" of the loop, "cb" of an event
          loop_done,\* libev's request to leave ev_run
          asked,    \* history: what the last evt_stop was to stop
          before    \* history: action and mask when a signal's first event came

vars == <<el, evts, action, blocked, stack, loop_done, asked, before>>

Kinds == [type : {"signal"}, signum : Signals] \cup
         [type : {"child"}, signum : {SIGCHLD}] \cup
         [type : {"io"}, signum : {NULL}]

Alive == {e \in Events : evts[e] # NULL}
Started == {e \in Alive : evts[e].el}
On(s) == {e \in Alive : evts[e].signum = s}

Init == /\ el = FALSE
        /\ evts = [e \in Events |-> NULL]
        /\ action = [s \in Signals |-> "orig"]
        /\ blocked \in SUBSET Signals
        /\ stack = <<>>
        /\ loop_done = "cancel"
        /\ asked = "cancel"
        /\ before = [s \in Signals |-> NULL]

(* The program or a callback runs, and not the loop. *)
CallerRuns == IF stack = <<>> THEN TRUE ELSE Last(stack) = "cb"

-----------------------------------------------------------------------------
(* libev: the watchers of a signal are those of the started signal events  *)
(* and, for SIGCHLD, the loop's own.  The first one installs the handler   *)
(* and unblocks the signal, and with the last one the default action comes *)
(* back.                                                                   *)
Watched(s) == (s = SIGCHLD /\ el) \/
              \E e \in On(s) : evts[e].el /\ evts[e].type = "signal"

ev_signal_start(s) ==
  IF Watched(s) THEN UNCHANGED <<action, blocked>>
  ELSE /\ action' = [action EXCEPT ![s] = "libev"]
       /\ blocked' = blocked \ {s}

(* The action of s once e no longer watches it. *)
StoppedAction(e) ==
  LET s == evts[e].signum
      others == (s = SIGCHLD /\ el) \/
                \E f \in On(s) \ {e} : evts[f].el /\ evts[f].type = "signal"
  IN  IF evts[e].el /\ evts[e].type = "signal" /\ ~others
        THEN [action EXCEPT ![s] = "default"] ELSE action

-----------------------------------------------------------------------------
(* The loop. *)
evt_new ==
  /\ ~el /\ stack = <<>>
  /\ el' = TRUE
  /\ ev_signal_start(SIGCHLD)
  /\ before' = [before EXCEPT ![SIGCHLD] = NULL]
  /\ UNCHANGED <<evts, stack, loop_done, asked>>

(* A caller deletes the loop when no event is started on it. *)
evt_delete ==
  /\ el /\ stack = <<>> /\ Started = {}
  /\ el' = FALSE
  /\ action' = [action EXCEPT ![SIGCHLD] = "default"]
  /\ before' = [before EXCEPT ![SIGCHLD] = NULL]
  /\ UNCHANGED <<evts, blocked, stack, loop_done, asked>>

(* ev_run forgets a request to stop that was made before it. *)
evt_run ==
  /\ el /\ CallerRuns /\ Len(stack) < MaxDepth
  /\ stack' = Append(stack, "run")
  /\ loop_done' = "cancel" /\ asked' = "cancel"
  /\ UNCHANGED <<el, evts, action, blocked, before>>

InRun == IF stack = <<>> THEN FALSE ELSE Last(stack) = "run"

(* ev_run returns when it is told to or when nothing is started. *)
RunReturns ==
  /\ InRun
  /\ loop_done # "cancel" \/ Started = {}
  /\ stack' = Front(stack)
  /\ loop_done' = IF loop_done = "one" THEN "cancel" ELSE loop_done
  /\ asked' = IF asked = "one" THEN "cancel" ELSE asked
  /\ UNCHANGED <<el, evts, action, blocked, before>>

(* Mutant of BreakKind: only the innermost run is left. *)
BreakKindOne(once) == "one"

BreakKind(once) == IF once THEN "one" ELSE "all"

evt_stop(once) ==
  /\ el /\ CallerRuns
  /\ loop_done' = BreakKind(once)
  /\ asked' = IF once THEN "one" ELSE "all"
  /\ UNCHANGED <<el, evts, action, blocked, stack, before>>

-----------------------------------------------------------------------------
(* Events.  evt_init_event saves the mask and the action of the signal     *)
(* when the event is made, not when it is started.  A caller that keeps    *)
(* events of one signal apart makes child events when there is a loop.     *)
evt_new_event(e, kind) ==
  LET s == kind.signum
  IN  /\ CallerRuns /\ evts[e] = NULL
      /\ Overlapping \/ kind.type = "io" \/ IF kind.type = "child" THEN el ELSE On(s) = {}
      /\ Overlapping \/ ~(kind.type = "signal" /\ s = SIGCHLD)
      /\ evts' = [evts EXCEPT ![e] =
                    [type |-> kind.type, signum |-> s, el |-> FALSE,
                     oldact |-> IF s = NULL THEN NULL ELSE action[s],
                     oldset |-> s \in blocked]]
      /\ before' = IF kind.type # "io" /\ On(s) = {}
                     THEN [before EXCEPT ![s] = <<action[s], s \in blocked>>] ELSE before
      /\ UNCHANGED <<el, action, blocked, stack, loop_done, asked>>

(* Mutant of evt_start_event: the loop pointer is not checked. *)
evt_start_event_NoLoop(e) ==
  /\ CallerRuns /\ e \in Alive
  /\ evts' = [evts EXCEPT ![e].el = TRUE]
  /\ IF evts[e].type = "signal" /\ ~evts[e].el
       THEN ev_signal_start(evts[e].signum) ELSE UNCHANGED <<action, blocked>>
  /\ UNCHANGED <<el, stack, loop_done, asked, before>>

evt_start_event(e) ==
  /\ el /\ CallerRuns /\ e \in Alive
  /\ evts' = [evts EXCEPT ![e].el = TRUE]
  /\ IF evts[e].type = "signal" /\ ~evts[e].el
       THEN ev_signal_start(evts[e].signum) ELSE UNCHANGED <<action, blocked>>
  /\ UNCHANGED <<el, stack, loop_done, asked, before>>

(* Mutant of evt_stop_event: the pointer to the loop is not cleared. *)
evt_stop_event_KeepsLoop(e) ==
  /\ CallerRuns /\ e \in Alive
  /\ action' = StoppedAction(e)
  /\ UNCHANGED <<el, evts, blocked, stack, loop_done, asked, before>>

(* Of an event that is not started it answers EVT_BADPTR. *)
evt_stop_event(e) ==
  /\ CallerRuns /\ e \in Alive
  /\ evts' = [evts EXCEPT ![e].el = FALSE]
  /\ action' = StoppedAction(e)
  /\ UNCHANGED <<el, blocked, stack, loop_done, asked, before>>

(* Mutants of Restored and Reblocked: the action, or the mask, that libev  *)
(* left is kept.                                                           *)
RestoredNot(e) == StoppedAction(e)

(* The action and the mask once e is deleted. *)
Restored(e) ==
  IF evts[e].type = "io" THEN action
  ELSE [action EXCEPT ![evts[e].signum] = evts[e].oldact]

Reblocked(e) ==
  blocked \cup (IF evts[e].type # "io" /\ evts[e].oldset THEN {evts[e].signum} ELSE {})

(* evt_deinit_event stops the event if it is started, and restores the     *)
(* action and, where the signal was blocked, the mask of its signal.       *)
evt_delete_event(e) ==
  /\ CallerRuns /\ e \in Alive
  /\ evts' = [evts EXCEPT ![e] = NULL]
  /\ action' = Restored(e)
  /\ blocked' = Reblocked(e)
  /\ UNCHANGED <<el, stack, loop_done, asked, before>>

(* libev calls evt_signal_cb, evt_child_cb or evt_io_cb of a started       *)
(* event, and evt_cb the callback.  The signal number, pid or io type that *)
(* it passes is read from its own stack; Aiofd models what that does.      *)
evt_cb(e) ==
  /\ InRun /\ Len(stack) < MaxDepth
  /\ e \in Started
  /\ evts[e].type # "io" => action[evts[e].signum] = "libev"
  /\ stack' = Append(stack, "cb")
  /\ UNCHANGED <<el, evts, action, blocked, loop_done, asked, before>>

CallbackReturn ==
  /\ stack # <<>> /\ CallerRuns
  /\ stack' = Front(stack)
  /\ UNCHANGED <<el, evts, action, blocked, loop_done, asked, before>>

Next == \/ evt_new \/ evt_delete \/ evt_run \/ RunReturns
        \/ \E once \in BOOLEAN : evt_stop(once)
        \/ \E e \in Events, kind \in Kinds : evt_new_event(e, kind)
        \/ \E e \in Events : evt_start_event(e)
        \/ \E e \in Events : evt_stop_event(e)
        \/ \E e \in Events : evt_delete_event(e)
        \/ \E e \in Events : evt_cb(e)
        \/ CallbackReturn

(* A run checks for a request to stop after every iteration, and callbacks *)
(* return however many others run inside them.                             *)
Fairness == \A n \in 1 .. MaxDepth :
              /\ SF_vars(Len(stack) = n /\ RunReturns)
              /\ SF_vars(Len(stack) = n /\ CallbackReturn)

Spec == Init /\ [][Next]_vars /\ Fairness

-----------------------------------------------------------------------------
(* Every variable has its type, and the loop is there while it runs. *)
TypeOK ==
  /\ el \in BOOLEAN
  /\ action \in [Signals -> Actions] /\ blocked \subseteq Signals
  /\ evts \in [Events -> Evt \cup {NULL}]
  /\ (stack # <<>> \/ Started # {}) => el
  /\ \A i \in DOMAIN stack : stack[i] = IF i % 2 = 1 THEN "run" ELSE "cb"

(* A started signal or child event is heard: libev handles its signal and  *)
(* the signal is not blocked, whatever other events do meanwhile.          *)
StartedIsHeard ==
  \A e \in Started : evts[e].type # "io" =>
     action[evts[e].signum] = "libev" /\ evts[e].signum \notin blocked

(* Once every event of a signal is deleted, its action and its mask are    *)
(* what they were before the first of them was made.                       *)
SignalsRestored ==
  \A s \in Signals :
     On(s) = {} /\ before[s] # NULL => <<action[s], s \in blocked>> = before[s]

(* evt_stop(el, FALSE) ends every run of the loop, unless a callback runs  *)
(* the loop again or stops only one run.                                   *)
StopEndsRuns == (asked = "all") ~> (stack = <<>> \/ asked # "all")
=============================================================================
