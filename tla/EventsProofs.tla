---------------------------- MODULE EventsProofs ----------------------------
(***************************************************************************)
(* Events and the signals they save and restore, for every set of events   *)
(* and signals.                                                            *)
(*                                                                         *)
(* The argument: a client that keeps the events of a signal apart has at   *)
(* most one event of any signal but SIGCHLD, and what that event saved is  *)
(* what its deletion has to bring back.  The events of SIGCHLD are those   *)
(* of child processes; libev itself watches that signal from the creation  *)
(* of the loop to its end, so that each of them has saved libev's own      *)
(* handler and an open mask, and brings back what is there already.        *)
(***************************************************************************)
EXTENDS Events, TLAPS, SequenceTheorems

USE SignalsAssumption

(* The kinds of an event. *)
Kind(v) == CASE v.type = "io" -> v.signum = NULL
             [] v.type = "child" -> v.signum = SIGCHLD /\ v.oldact \in Actions
             [] OTHER -> v.signum \in Signals /\ v.oldact \in Actions

SignalTypes ==
  /\ el \in BOOLEAN
  /\ action \in [Signals -> Actions] /\ blocked \in SUBSET Signals
  /\ evts \in [Events -> Evt \cup {NULL}]
  /\ \A e \in Alive : Kind(evts[e])
  /\ Started # {} => el

StackTypes ==
  /\ stack \in Seq({"run", "cb"})
  /\ \A i \in 1 .. Len(stack) : stack[i] = IF i % 2 = 1 THEN "run" ELSE "cb"
  /\ stack # <<>> => el

LEMMA SignalTypesInductive ==
  ASSUME SignalTypes, [Next]_vars
  PROVE  SignalTypes'
<1> USE DEF SignalTypes
<1>0. \A s \in Signals : action[s] \in Actions
  OBVIOUS
<1>1. CASE evt_new
  BY <1>1 DEF evt_new, ev_signal_start, Actions, Alive, Started
<1>2. CASE evt_delete
  BY <1>2 DEF evt_delete, Actions, Alive, Started
<1>3. CASE evt_run \/ RunReturns \/ (\E once \in BOOLEAN : evt_stop(once)) \/ CallbackReturn
           \/ (\E e \in Events : evt_cb(e)) \/ UNCHANGED vars
  <2>1. UNCHANGED <<el, evts, action, blocked>>
    BY <1>3 DEF evt_run, RunReturns, evt_stop, CallbackReturn, evt_cb, vars
  <2> QED
    BY <2>1 DEF Alive, Started
<1>4. ASSUME NEW e \in Events, NEW kind \in Kinds, evt_new_event(e, kind)
      PROVE  SignalTypes'
  <2> DEFINE v == [type |-> kind.type, signum |-> kind.signum, el |-> FALSE,
                   oldact |-> IF kind.signum = NULL THEN NULL ELSE action[kind.signum],
                   oldset |-> kind.signum \in blocked]
  <2>1. /\ evts' = [evts EXCEPT ![e] = v] /\ evts[e] = NULL
        /\ UNCHANGED <<el, action, blocked>>
    BY <1>4 DEF evt_new_event
  <2>2. v \in Evt /\ Kind(v) /\ v.el = FALSE
    BY DEF Kinds, Evt, Kind
  <2> HIDE DEF v
  <2>3. evts' \in [Events -> Evt \cup {NULL}]
    BY <2>1, <2>2
  <2>4. \A f \in Alive' : Kind(evts'[f])
    BY <2>1, <2>2 DEF Alive
  <2>5. Started' = Started
    BY <2>1, <2>2 DEF Alive, Started
  <2> QED
    BY <2>1, <2>3, <2>4, <2>5
<1>5. ASSUME NEW e \in Alive, NEW b \in BOOLEAN, evts' = [evts EXCEPT ![e].el = b],
             el' = el, b => el, action' \in [Signals -> Actions], blocked' \in SUBSET Signals
      PROVE  SignalTypes'
  <2> DEFINE v == [evts[e] EXCEPT !.el = b]
  <2>1. evts' = [evts EXCEPT ![e] = v] /\ e \in Events
    BY <1>5 DEF Alive
  <2>2. v \in Evt /\ Kind(v) /\ v.el = b
    BY DEF Evt, Kind, Alive
  <2> HIDE DEF v
  <2>3. evts' \in [Events -> Evt \cup {NULL}]
    BY <2>1, <2>2
  <2>4. \A f \in Alive' : Kind(evts'[f])
    BY <2>1, <2>2 DEF Alive
  <2>5. Started' # {} => el
    BY <1>5, <2>1, <2>2 DEF Alive, Started
  <2> QED
    BY <1>5, <2>3, <2>4, <2>5
<1>6. ASSUME NEW e \in Events, evt_start_event(e) PROVE SignalTypes'
  <2>1. e \in Alive /\ el /\ evts' = [evts EXCEPT ![e].el = TRUE] /\ el' = el
    BY <1>6 DEF evt_start_event
  <2>2. evts[e].type = "signal" => evts[e].signum \in Signals
    BY <2>1 DEF Kind
  <2>3. action' \in [Signals -> Actions] /\ blocked' \in SUBSET Signals
    BY <1>6, <2>2 DEF evt_start_event, ev_signal_start, Actions
  <2> QED
    BY <1>5, <2>1, <2>3
<1>7. ASSUME NEW e \in Events, evt_stop_event(e) PROVE SignalTypes'
  <2>1. e \in Alive /\ evts' = [evts EXCEPT ![e].el = FALSE] /\ UNCHANGED <<el, blocked>>
    BY <1>7 DEF evt_stop_event
  <2>2. action' \in [Signals -> Actions]
    BY <1>7 DEF evt_stop_event, StoppedAction, Actions
  <2> QED
    BY <1>5, <2>1, <2>2
<1>8. ASSUME NEW e \in Events, evt_delete_event(e) PROVE SignalTypes'
  <2>1. e \in Alive /\ evts' = [evts EXCEPT ![e] = NULL] /\ el' = el
    BY <1>8 DEF evt_delete_event
  <2>2. evts[e].type # "io" => evts[e].signum \in Signals /\ evts[e].oldact \in Actions
    BY <2>1 DEF Kind, Evt
  <2>3. action' \in [Signals -> Actions] /\ blocked' \in SUBSET Signals
    BY <1>8, <2>2 DEF evt_delete_event, Restored, Reblocked
  <2>4. Started' \subseteq Started
    BY <2>1 DEF Started, Alive
  <2> QED
    BY <2>1, <2>3, <2>4 DEF Alive
<1> QED
  BY <1>1, <1>2, <1>3, <1>4, <1>6, <1>7, <1>8 DEF Next

(* The last element of a sequence, and the sequence without it. *)
LEMMA FrontOfStack ==
  ASSUME NEW S, NEW q \in Seq(S), q # <<>>
  PROVE  /\ Front(q) \in Seq(S) /\ Len(Front(q)) = Len(q) - 1
         /\ \A i \in 1 .. Len(Front(q)) : Front(q)[i] = q[i]
         /\ Last(q) = q[Len(q)] /\ Len(q) \in Nat /\ Len(q) >= 1
<1>1. Len(q) \in Nat /\ Len(q) >= 1
  BY EmptySeq
<1>2. PICK n \in Nat : Len(q) = n + 1 /\ Len(q) - 1 = n
  BY <1>1
<1>3. Front(q) = SubSeq(q, 1, n) /\ Last(q) = q[Len(q)]
  BY <1>2 DEF Front, Last
<1>4. \A i \in 1 .. n : q[i] \in S
  BY <1>2, ElementOfSeq
<1>5. /\ SubSeq(q, 1, n) \in Seq(S)
      /\ Len(SubSeq(q, 1, n)) = IF 1 <= n THEN n - 1 + 1 ELSE 0
      /\ \A i \in 1 .. n - 1 + 1 : SubSeq(q, 1, n)[i] = q[1 + i - 1]
  <2>1. n \in Int /\ 1 \in Int
    OBVIOUS
  <2> QED
    BY <2>1, <1>4, SubSeqProperties
<1>6. Len(SubSeq(q, 1, n)) = n
  BY <1>5
<1>7. \A i \in 1 .. n : SubSeq(q, 1, n)[i] = q[i]
  BY <1>5
<1> QED
  BY <1>1, <1>2, <1>3, <1>5, <1>6, <1>7

LEMMA StackTypesInductive ==
  ASSUME StackTypes, [Next]_vars
  PROVE  StackTypes'
<1> DEFINE Level(i) == IF i % 2 = 1 THEN "run" ELSE "cb"
<1>0. Len(stack) \in Nat
  BY DEF StackTypes
<1>1. CASE evt_run \/ (\E e \in Events : evt_cb(e))
  <2>1. PICK x \in {"run", "cb"} : /\ stack' = Append(stack, x) /\ el' = el /\ x = Level(Len(stack) + 1)
                                   /\ stack # <<>> \/ el
    <3>1. CASE evt_run
      <4>1. stack' = Append(stack, "run") /\ el' = el /\ el
        BY <3>1 DEF evt_run
      <4>2. "run" = Level(Len(stack) + 1)
        <5>1. CASE stack = <<>>
          BY <5>1
        <5>2. CASE stack # <<>>
          <6>1. stack[Len(stack)] = "cb" /\ Len(stack) >= 1
            BY <5>2, <3>1, FrontOfStack DEF evt_run, CallerRuns, StackTypes
          <6>2. Level(Len(stack)) = "cb"
            BY <6>1, <1>0 DEF StackTypes
          <6> QED
            BY <6>2, <1>0
        <5> QED
          BY <5>1, <5>2
      <4> QED
        BY <4>1, <4>2
    <3>2. CASE \E e \in Events : evt_cb(e)
      <4>1. stack' = Append(stack, "cb") /\ el' = el /\ stack # <<>> /\ Last(stack) = "run"
        BY <3>2 DEF evt_cb, InRun
      <4>2. stack[Len(stack)] = "run" /\ Len(stack) >= 1
        BY <4>1, FrontOfStack DEF StackTypes
      <4>3. Level(Len(stack)) = "run"
        BY <4>2, <1>0 DEF StackTypes
      <4>4. "cb" = Level(Len(stack) + 1)
        BY <4>3, <1>0
      <4> QED
        BY <4>1, <4>4
    <3> QED
      BY <1>1, <3>1, <3>2
  <2>2. stack' \in Seq({"run", "cb"}) /\ Len(stack') = Len(stack) + 1
    BY <2>1, AppendProperties DEF StackTypes
  <2>3. \A i \in 1 .. Len(stack) : stack'[i] = stack[i]
    BY <2>1, AppendProperties DEF StackTypes
  <2>4. stack'[Len(stack) + 1] = x
    BY <2>1, AppendProperties DEF StackTypes
  <2>5. \A i \in 1 .. Len(stack') : stack'[i] = Level(i)
    BY <1>0, <2>1, <2>2, <2>3, <2>4 DEF StackTypes
  <2>6. el'
    BY <2>1 DEF StackTypes
  <2> QED
    BY <2>2, <2>5, <2>6 DEF StackTypes
<1>2. CASE RunReturns \/ CallbackReturn
  <2>1. stack # <<>> /\ stack' = Front(stack) /\ el' = el
    BY <1>2 DEF RunReturns, CallbackReturn, InRun
  <2>2. /\ stack' \in Seq({"run", "cb"}) /\ Len(stack') = Len(stack) - 1
        /\ \A i \in 1 .. Len(stack') : stack'[i] = stack[i]
    BY <2>1, FrontOfStack DEF StackTypes
  <2>3. \A i \in 1 .. Len(stack') : stack'[i] = Level(i)
    BY <1>0, <2>2 DEF StackTypes
  <2> QED
    BY <2>1, <2>2, <2>3 DEF StackTypes
<1>3. CASE evt_new \/ evt_delete
  BY <1>3 DEF evt_new, evt_delete, StackTypes
<1>4. CASE \/ \E once \in BOOLEAN : evt_stop(once)
           \/ \E e \in Events, kind \in Kinds : evt_new_event(e, kind)
           \/ \E e \in Events : evt_start_event(e)
           \/ \E e \in Events : evt_stop_event(e)
           \/ \E e \in Events : evt_delete_event(e)
           \/ UNCHANGED vars
  <2>1. UNCHANGED <<stack, el>>
    BY <1>4 DEF evt_stop, evt_new_event, evt_start_event, evt_stop_event, evt_delete_event, vars
  <2> QED
    BY <2>1 DEF StackTypes
<1> QED
  BY <1>1, <1>2, <1>3, <1>4 DEF Next

LEMMA TypesInvariant == Spec => [](SignalTypes /\ StackTypes)
<1>1. Init => SignalTypes
  BY DEF Init, SignalTypes, Alive, Started, Actions
<1>3. Init => StackTypes
  BY EmptySeq DEF Init, StackTypes
<1>2. SignalTypes /\ StackTypes /\ [Next]_vars => SignalTypes' /\ StackTypes'
  BY SignalTypesInductive, StackTypesInductive
<1> QED
  BY <1>1, <1>3, <1>2, PTL DEF Spec

(* Every variable has its type, a loop runs and has started events only    *)
(* while it exists, and runs of the loop and callbacks of events alternate *)
(* on the call stack, however evt_run, evt_stop and the callbacks nest.    *)
THEOREM TypeCorrect == Spec => []TypeOK
<1>1. SignalTypes /\ StackTypes => TypeOK
  <2> SUFFICES ASSUME SignalTypes, StackTypes PROVE TypeOK
    OBVIOUS
  <2>2. (stack # <<>> \/ Started # {}) => el
    BY DEF SignalTypes, StackTypes
  <2>3. DOMAIN stack = 1 .. Len(stack)
    BY DEF StackTypes
  <2> QED
    BY <2>2, <2>3 DEF SignalTypes, StackTypes, TypeOK
<1> QED
  BY <1>1, TypesInvariant, PTL

-----------------------------------------------------------------------------
(* A client that keeps the events of a signal apart.                       *)

(* No signal event of SIGCHLD, and one event of any other signal. *)
OneEach == /\ \A e \in Alive : evts[e].type = "signal" => evts[e].signum # SIGCHLD
           /\ \A e, f \in Alive : evts[e].signum \in Signals \ {SIGCHLD} /\ evts[f].signum = evts[e].signum
                                  => e = f

(* libev's own watcher of SIGCHLD, and what the events of children save. *)
LoopWatches == /\ el => action[SIGCHLD] = "libev" /\ SIGCHLD \notin blocked
               /\ \A e \in Alive : evts[e].signum = SIGCHLD => evts[e].oldact = "libev" /\ ~evts[e].oldset
               /\ before[SIGCHLD] # NULL => el /\ before[SIGCHLD] = <<"libev", FALSE>>

(* The event of any other signal saved what was there before it. *)
Saved == \A e \in Alive : evts[e].signum \in Signals \ {SIGCHLD} =>
            /\ before[evts[e].signum] = <<evts[e].oldact, evts[e].oldset>>
            /\ evts[e].signum \in blocked => evts[e].oldset

Apart == /\ SignalTypes
         /\ before \in [Signals -> {NULL} \cup (Actions \X BOOLEAN)]
         /\ OneEach /\ LoopWatches /\ Saved
         /\ StartedIsHeard /\ SignalsRestored

LEMMA ApartNewLoop ==
  ASSUME Apart, evt_new
  PROVE  Apart'
<1>1. /\ ~el /\ el' = TRUE /\ UNCHANGED evts /\ ev_signal_start(SIGCHLD)
      /\ before' = [before EXCEPT ![SIGCHLD] = NULL]
  BY DEF evt_new
<1>2. ~Watched(SIGCHLD)
  BY <1>1 DEF Watched, On, Apart, OneEach
<1>3. action' = [action EXCEPT ![SIGCHLD] = "libev"] /\ blocked' = blocked \ {SIGCHLD}
  BY <1>1, <1>2 DEF ev_signal_start
<1>4. SignalTypes'
  BY SignalTypesInductive DEF Next, Apart
<1>5. Alive' = Alive /\ Started' = Started /\ Started = {} /\ \A s : On(s)' = On(s)
  BY <1>1 DEF Alive, Started, On, Apart, SignalTypes
<1>6. before' \in [Signals -> {NULL} \cup (Actions \X BOOLEAN)]
  BY <1>1 DEF Apart
<1>7. OneEach'
  BY <1>1, <1>5 DEF Apart, OneEach
<1>8. LoopWatches'
  BY <1>1, <1>3, <1>5 DEF Apart, LoopWatches, SignalTypes
<1>9. Saved'
  BY <1>1, <1>3, <1>5 DEF Apart, Saved, SignalTypes
<1>10. StartedIsHeard'
  BY <1>5 DEF StartedIsHeard
<1>11. SignalsRestored'
  <2> SUFFICES ASSUME NEW s \in Signals, On(s)' = {}, before'[s] # NULL
               PROVE  <<action'[s], s \in blocked'>> = before'[s]
    BY DEF SignalsRestored
  <2>1. s # SIGCHLD /\ before'[s] = before[s] /\ action'[s] = action[s]
    BY <1>1, <1>3 DEF Apart, SignalTypes
  <2>2. (s \in blocked') = (s \in blocked)
    BY <2>1, <1>3
  <2>3. <<action[s], s \in blocked>> = before[s]
    BY <2>1, <1>5 DEF Apart, SignalsRestored
  <2> QED
    BY <2>1, <2>2, <2>3, Zenon
<1> QED
  BY <1>4, <1>6, <1>7, <1>8, <1>9, <1>10, <1>11 DEF Apart

LEMMA ApartDeleteLoop ==
  ASSUME Apart, evt_delete
  PROVE  Apart'
<1>1. /\ el' = FALSE /\ UNCHANGED <<evts, blocked>> /\ Started = {}
      /\ action' = [action EXCEPT ![SIGCHLD] = "default"]
      /\ before' = [before EXCEPT ![SIGCHLD] = NULL]
  BY DEF evt_delete
<1>4. SignalTypes'
  BY SignalTypesInductive DEF Next, Apart
<1>5. Alive' = Alive /\ Started' = Started /\ \A s : On(s)' = On(s)
  BY <1>1 DEF Alive, Started, On
<1>6. before' \in [Signals -> {NULL} \cup (Actions \X BOOLEAN)]
  BY <1>1 DEF Apart
<1>7. OneEach'
  BY <1>1, <1>5 DEF Apart, OneEach
<1>8. LoopWatches'
  BY <1>1, <1>5 DEF Apart, LoopWatches
<1>9. Saved'
  BY <1>1, <1>5 DEF Apart, Saved
<1>10. StartedIsHeard'
  BY <1>1, <1>5 DEF StartedIsHeard
<1>11. SignalsRestored'
  <2> SUFFICES ASSUME NEW s \in Signals, On(s)' = {}, before'[s] # NULL
               PROVE  <<action'[s], s \in blocked'>> = before'[s]
    BY DEF SignalsRestored
  <2>1. s # SIGCHLD /\ before'[s] = before[s] /\ action'[s] = action[s]
    BY <1>1 DEF Apart, SignalTypes
  <2>3. <<action[s], s \in blocked>> = before[s]
    BY <2>1, <1>5 DEF Apart, SignalsRestored
  <2> QED
    BY <1>1, <2>1, <2>3, Zenon
<1> QED
  BY <1>4, <1>6, <1>7, <1>8, <1>9, <1>10, <1>11 DEF Apart

LEMMA ApartNewEvent ==
  ASSUME ~Overlapping, Apart, NEW e \in Events, NEW kind \in Kinds, evt_new_event(e, kind)
  PROVE  Apart'
<1> DEFINE n == kind.signum
           v == [type |-> kind.type, signum |-> n, el |-> FALSE,
                 oldact |-> IF n = NULL THEN NULL ELSE action[n], oldset |-> n \in blocked]
<1>1. /\ evts' = [evts EXCEPT ![e] = v] /\ evts[e] = NULL /\ UNCHANGED <<el, action, blocked>>
      /\ before' = IF kind.type # "io" /\ On(n) = {}
                     THEN [before EXCEPT ![n] = <<action[n], n \in blocked>>] ELSE before
  BY DEF evt_new_event
<1>2. /\ v.type = kind.type /\ v.signum = n /\ v.el = FALSE
      /\ n # NULL => v.oldact = action[n] /\ (v.oldset = (n \in blocked))
  OBVIOUS
<1>3. /\ kind.type = "signal" => n \in Signals \ {SIGCHLD} /\ On(n) = {}
      /\ kind.type = "child" => n = SIGCHLD /\ el
      /\ kind.type = "io" => n = NULL
      /\ kind.type \in {"signal", "child", "io"}
  BY DEF evt_new_event, Kinds
<1>4. SignalTypes'
  BY SignalTypesInductive DEF Next, Apart
<1>5. v # NULL
  <2>1. v \in Evt
    BY <1>3 DEF Evt, Apart, SignalTypes
  <2> QED
    BY <2>1, NullAssumption
<1> HIDE DEF v
<1>6. /\ Alive' = Alive \cup {e} /\ e \notin Alive /\ evts'[e] = v
      /\ \A f \in Alive : evts'[f] = evts[f]
  BY <1>1, <1>5 DEF Alive, Apart, SignalTypes
<1>7. Started' = Started /\ \A f \in Started : evts'[f] = evts[f]
  BY <1>1, <1>2, <1>6 DEF Started
<1>8. \A s : On(s)' = IF s = n THEN On(s) \cup {e} ELSE On(s)
  BY <1>2, <1>6 DEF On
<1>9. n # NULL => n \in Signals /\ action[n] \in Actions
  BY <1>3 DEF Apart, SignalTypes
<1>10. before' \in [Signals -> {NULL} \cup (Actions \X BOOLEAN)]
  <2>1. kind.type # "io" => <<action[n], n \in blocked>> \in Actions \X BOOLEAN
    <3>1. kind.type # "io" => action[n] \in Actions
      BY <1>3, <1>9
    <3>2. (n \in blocked) \in BOOLEAN
      OBVIOUS
    <3> QED
      BY <3>1, <3>2, Zenon
  <2> QED
    BY <1>1, <2>1 DEF Apart
<1>11. OneEach'
  <2>1. \A f \in Alive' : evts'[f].type = "signal" => evts'[f].signum # SIGCHLD
    BY <1>2, <1>3, <1>6 DEF Apart, OneEach
  <2>2. n \in Signals \ {SIGCHLD} => \A f \in Alive : evts[f].signum # n
    BY <1>3 DEF On
  <2>3. ASSUME NEW f \in Alive', NEW g \in Alive', evts'[f].signum \in Signals \ {SIGCHLD},
               evts'[g].signum = evts'[f].signum
        PROVE  f = g
    BY <1>2, <1>6, <2>2, <2>3 DEF Apart, OneEach
  <2> QED
    BY <2>1, <2>3 DEF OneEach
<1>12. LoopWatches'
  <2>1. el' => action'[SIGCHLD] = "libev" /\ SIGCHLD \notin blocked'
    BY <1>1 DEF Apart, LoopWatches
  <2>2. n = SIGCHLD => el
    BY <1>3
  <2>3. n = SIGCHLD => v.oldact = "libev" /\ ~v.oldset
    BY <1>2, <2>2 DEF Apart, LoopWatches
  <2>4. \A f \in Alive' : evts'[f].signum = SIGCHLD => evts'[f].oldact = "libev" /\ ~evts'[f].oldset
    BY <1>2, <1>6, <2>3 DEF Apart, LoopWatches
  <2>5. before'[SIGCHLD] # NULL => el' /\ before'[SIGCHLD] = <<"libev", FALSE>>
    <3>1. CASE before' = before
      BY <1>1, <3>1 DEF Apart, LoopWatches
    <3>2. CASE n # SIGCHLD /\ before' = [before EXCEPT ![n] = <<action[n], n \in blocked>>]
      BY <1>1, <3>2 DEF Apart, LoopWatches
    <3>3. CASE n = SIGCHLD /\ before' = [before EXCEPT ![n] = <<action[n], n \in blocked>>]
      <4>1. before'[SIGCHLD] = <<action[SIGCHLD], SIGCHLD \in blocked>>
        BY <3>3 DEF Apart
      <4>2. el /\ action[SIGCHLD] = "libev" /\ (SIGCHLD \in blocked) = FALSE
        BY <2>2, <3>3 DEF Apart, LoopWatches
      <4> QED
        BY <1>1, <4>1, <4>2, Zenon
    <3> QED
      BY <1>1, <3>1, <3>2, <3>3
  <2> QED
    BY <2>1, <2>4, <2>5 DEF LoopWatches
<1>13. Saved'
  <2> SUFFICES ASSUME NEW f \in Alive', evts'[f].signum \in Signals \ {SIGCHLD}
               PROVE  /\ before'[evts'[f].signum] = <<evts'[f].oldact, evts'[f].oldset>>
                      /\ evts'[f].signum \in blocked' => evts'[f].oldset
    BY DEF Saved
  <2>1. CASE f = e
    <3>1. n \in Signals \ {SIGCHLD} /\ n # NULL /\ kind.type = "signal"
      BY <1>2, <1>3, <1>6, <2>1
    <3>2. before'[n] = <<action[n], n \in blocked>>
      BY <1>1, <1>3, <3>1 DEF Apart
    <3>3. v.oldact = action[n] /\ v.oldset = (n \in blocked) /\ v.signum = n /\ evts'[f] = v
      BY <1>2, <1>6, <2>1, <3>1
    <3> QED
      BY <1>1, <3>2, <3>3, Zenon
  <2>2. CASE f # e
    <3>1. f \in Alive /\ evts'[f] = evts[f]
      BY <1>6, <2>2
    <3>2. before'[evts[f].signum] = before[evts[f].signum]
      <4>1. evts[f].signum = n => On(n) # {}
        BY <3>1 DEF On
      <4> QED
        BY <1>1, <3>1, <4>1 DEF Apart
    <3> QED
      BY <1>1, <3>1, <3>2 DEF Apart, Saved
  <2> QED
    BY <2>1, <2>2
<1>14. StartedIsHeard'
  BY <1>1, <1>7 DEF Apart, StartedIsHeard
<1>15. SignalsRestored'
  <2> SUFFICES ASSUME NEW s \in Signals, On(s)' = {}, before'[s] # NULL
               PROVE  <<action'[s], s \in blocked'>> = before'[s]
    BY DEF SignalsRestored
  <2>1. s # n /\ On(s) = {}
    BY <1>8
  <2>2. before'[s] = before[s]
    BY <1>1, <2>1 DEF Apart
  <2> QED
    BY <1>1, <2>1, <2>2 DEF Apart, SignalsRestored
<1> QED
  BY <1>4, <1>10, <1>11, <1>12, <1>13, <1>14, <1>15 DEF Apart

(* Starting or stopping e changes no more than its el and, unless it is    *)
(* the event of a child, the action and mask of its signal.                *)
LEMMA ApartStartStop ==
  ASSUME Apart, NEW e \in Alive, NEW b \in BOOLEAN, NEW n, n = evts[e].signum,
         [Next]_vars, evts' = [evts EXCEPT ![e].el = b], UNCHANGED <<el, before>>,
         \A s \in Signals : s # n \/ evts[e].type # "signal" =>
            action'[s] = action[s] /\ (s \in blocked') = (s \in blocked),
         n \in blocked' => n \in blocked,
         b => el,
         b /\ evts[e].type = "signal" => action'[n] = "libev" /\ n \notin blocked'
  PROVE  Apart'
<1> DEFINE v == [evts[e] EXCEPT !.el = b]
<1>0. evts[e] \in Evt /\ e \in Events /\ Kind(evts[e])
  BY DEF Apart, SignalTypes, Alive
<1>1. evts' = [evts EXCEPT ![e] = v]
  OBVIOUS
<1>2. /\ v.type = evts[e].type /\ v.signum = n /\ v.el = b
      /\ v.oldact = evts[e].oldact /\ v.oldset = evts[e].oldset
  BY <1>0 DEF Evt
<1>3. /\ evts[e].type = "signal" => n \in Signals \ {SIGCHLD}
      /\ evts[e].type = "child" => n = SIGCHLD
      /\ evts[e].type = "io" => n = NULL
      /\ evts[e].type \in {"signal", "child", "io"}
  BY <1>0 DEF Apart, OneEach, Kind, Evt
<1>4. SignalTypes'
  BY SignalTypesInductive DEF Next, Apart
<1>5. v \in Evt
  BY <1>0 DEF Evt
<1>6. v # NULL
  BY <1>5, NullAssumption
<1> HIDE DEF v
<1>7. Alive' = Alive /\ evts'[e] = v /\ \A f \in Alive \ {e} : evts'[f] = evts[f]
  BY <1>0, <1>1, <1>6 DEF Alive, Apart, SignalTypes
<1>8. \A f \in Alive : /\ evts'[f].signum = evts[f].signum /\ evts'[f].type = evts[f].type
                       /\ evts'[f].oldact = evts[f].oldact /\ evts'[f].oldset = evts[f].oldset
  BY <1>2, <1>7
<1>9. \A s : On(s)' = On(s)
  BY <1>7, <1>8 DEF On
<1>10. OneEach'
  BY <1>7, <1>8 DEF Apart, OneEach
<1>11. LoopWatches'
  <2>1. action'[SIGCHLD] = action[SIGCHLD] /\ (SIGCHLD \in blocked' <=> SIGCHLD \in blocked)
    BY <1>3
  <2> QED
    BY <1>7, <1>8, <2>1 DEF Apart, LoopWatches
<1>12. Saved'
  <2>1. \A s \in Signals : s \in blocked' => s \in blocked
    OBVIOUS
  <2> QED
    BY <1>7, <1>8, <2>1 DEF Apart, Saved
<1>13. StartedIsHeard'
  <2> SUFFICES ASSUME NEW f \in Started', evts'[f].type # "io"
               PROVE  action'[evts'[f].signum] = "libev" /\ evts'[f].signum \notin blocked'
    BY DEF StartedIsHeard
  <2>1. CASE f = e
    <3>1. b
      BY <1>2, <1>7, <2>1 DEF Started
    <3>2. CASE evts[e].type = "signal"
      BY <1>2, <1>7, <2>1, <3>1, <3>2
    <3>3. CASE evts[e].type = "child"
      BY <1>2, <1>3, <1>7, <2>1, <3>1, <3>3 DEF Apart, LoopWatches
    <3> QED
      BY <1>2, <1>3, <1>7, <2>1, <3>2, <3>3
  <2>2. CASE f # e
    <3>1. f \in Started /\ evts'[f] = evts[f] /\ f \in Alive
      BY <1>7, <2>2 DEF Started
    <3>2. action[evts[f].signum] = "libev" /\ evts[f].signum \notin blocked
      BY <3>1 DEF Apart, StartedIsHeard
    <3>3. evts[f].signum \in Signals
      BY <3>1 DEF Apart, SignalTypes, Kind
    <3>4. evts[f].signum # n \/ evts[e].type # "signal"
      BY <1>3, <2>2, <3>1 DEF Apart, OneEach
    <3> QED
      BY <3>1, <3>2, <3>3, <3>4
  <2> QED
    BY <2>1, <2>2
<1>14. SignalsRestored'
  <2> SUFFICES ASSUME NEW s \in Signals, On(s)' = {}, before'[s] # NULL
               PROVE  <<action'[s], s \in blocked'>> = before'[s]
    BY DEF SignalsRestored
  <2>0. e \in On(n)
    BY DEF On
  <2>1. s # n /\ On(s) = {}
    BY <1>9, <2>0
  <2>2. action'[s] = action[s] /\ (s \in blocked') = (s \in blocked)
    BY <2>1
  <2>3. <<action[s], s \in blocked>> = before[s]
    BY <2>1 DEF Apart, SignalsRestored
  <2> QED
    BY <2>2, <2>3, Zenon
<1>15. before' \in [Signals -> {NULL} \cup (Actions \X BOOLEAN)]
  BY DEF Apart
<1> QED
  BY <1>4, <1>10, <1>11, <1>12, <1>13, <1>14, <1>15 DEF Apart

LEMMA ApartStart ==
  ASSUME Apart, NEW e \in Events, evt_start_event(e)
  PROVE  Apart'
<1> DEFINE n == evts[e].signum
<1>1. /\ e \in Alive /\ el /\ evts' = [evts EXCEPT ![e].el = TRUE] /\ UNCHANGED <<el, before>>
      /\ IF evts[e].type = "signal" /\ ~evts[e].el
           THEN ev_signal_start(n) ELSE UNCHANGED <<action, blocked>>
  BY DEF evt_start_event
<1>2. evts[e].type = "signal" => n \in Signals \ {SIGCHLD}
  BY <1>1 DEF Apart, OneEach, SignalTypes, Kind
<1>3. CASE evts[e].type = "signal" /\ ~evts[e].el
  <2>1. ~Watched(n)
    BY <1>1, <1>2, <1>3 DEF Watched, On, Apart, OneEach
  <2>2. action' = [action EXCEPT ![n] = "libev"] /\ blocked' = blocked \ {n}
    BY <1>1, <1>3, <2>1 DEF ev_signal_start
  <2>3. \A s \in Signals : s # n => action'[s] = action[s] /\ (s \in blocked') = (s \in blocked)
    BY <2>2 DEF Apart, SignalTypes
  <2>4. action'[n] = "libev" /\ n \notin blocked' /\ evts[e].type = "signal"
    BY <1>2, <1>3, <2>2 DEF Apart, SignalTypes
  <2>5. [Next]_vars
    BY DEF Next
  <2> QED
    <3>1. \A s \in Signals : s # n \/ evts[e].type # "signal" =>
             action'[s] = action[s] /\ (s \in blocked') = (s \in blocked)
      BY <2>3, <2>4
    <3>2. n \in blocked' => n \in blocked
      BY <2>4
    <3> HIDE DEF n
    <3>3. n = evts[e].signum
      BY DEF n
    <3> QED
      BY <1>1, <2>4, <2>5, <3>1, <3>2, <3>3, ApartStartStop
<1>4. CASE ~(evts[e].type = "signal" /\ ~evts[e].el)
  <2>1. UNCHANGED <<action, blocked>>
    BY <1>1, <1>4
  <2>2. evts[e].el \in BOOLEAN
    BY <1>1 DEF Apart, SignalTypes, Alive, Evt
  <2>3. evts[e].type = "signal" => action[n] = "libev" /\ n \notin blocked
    BY <1>1, <1>4, <2>2 DEF Apart, StartedIsHeard, Started
  <2>4. [Next]_vars
    BY DEF Next
  <2> QED
    BY <1>1, <2>1, <2>3, <2>4, ApartStartStop
<1> QED
  BY <1>3, <1>4

LEMMA ApartStop ==
  ASSUME Apart, NEW e \in Events, evt_stop_event(e)
  PROVE  Apart'
<1> DEFINE n == evts[e].signum
<1>1. /\ e \in Alive /\ evts' = [evts EXCEPT ![e].el = FALSE] /\ UNCHANGED <<el, before, blocked>>
      /\ action' = StoppedAction(e)
  BY DEF evt_stop_event
<1>2. \A s \in Signals : s # n \/ evts[e].type # "signal" => action'[s] = action[s]
  BY <1>1 DEF StoppedAction, Apart, SignalTypes
<1>3. [Next]_vars
  BY DEF Next
<1> QED
  BY <1>1, <1>2, <1>3, ApartStartStop

LEMMA ApartDelete ==
  ASSUME Apart, NEW e \in Events, evt_delete_event(e)
  PROVE  Apart'
<1> DEFINE n == evts[e].signum
<1>1. /\ e \in Alive /\ evts' = [evts EXCEPT ![e] = NULL] /\ UNCHANGED <<el, before>>
      /\ action' = Restored(e) /\ blocked' = Reblocked(e)
  BY DEF evt_delete_event
<1>2. /\ evts[e] \in Evt /\ Kind(evts[e])
      /\ evts[e].type = "signal" => n \in Signals \ {SIGCHLD}
      /\ evts[e].type = "child" => n = SIGCHLD
      /\ evts[e].type = "io" => n = NULL
      /\ evts[e].type \in {"signal", "child", "io"}
      /\ evts[e].oldset \in BOOLEAN
  BY <1>1 DEF Apart, OneEach, SignalTypes, Kind, Evt, Alive
<1>3. SignalTypes'
  BY SignalTypesInductive DEF Next, Apart
<1>4. Alive' = Alive \ {e} /\ \A f \in Alive' : f \in Alive /\ f # e /\ evts'[f] = evts[f]
  BY <1>1 DEF Alive, Apart, SignalTypes
<1>5. \A s : On(s)' = On(s) \ {e}
  BY <1>4 DEF On
<1>6. \A s \in Signals : s # n => action'[s] = action[s] /\ (s \in blocked') = (s \in blocked)
  BY <1>1 DEF Restored, Reblocked, Apart, SignalTypes
<1>7. evts[e].type # "io" => /\ n \in Signals /\ action'[n] = evts[e].oldact
                             /\ n \in blocked' <=> n \in blocked \/ evts[e].oldset
  BY <1>1, <1>2 DEF Restored, Reblocked, Apart, SignalTypes
<1>8. evts[e].type = "child" => /\ evts[e].oldact = "libev" /\ ~evts[e].oldset
                                /\ action'[SIGCHLD] = "libev"
                                /\ SIGCHLD \in blocked' <=> SIGCHLD \in blocked
  BY <1>1, <1>2, <1>7 DEF Apart, LoopWatches
<1>9. OneEach'
  BY <1>4 DEF Apart, OneEach
<1>10. LoopWatches'
  <2>1. el' => action'[SIGCHLD] = "libev" /\ SIGCHLD \notin blocked'
    <3>1. CASE evts[e].type = "child"
      BY <1>1, <1>8, <3>1 DEF Apart, LoopWatches
    <3>2. CASE evts[e].type # "child"
      BY <1>1, <1>2, <1>6, <3>2 DEF Apart, LoopWatches
    <3> QED
      BY <3>1, <3>2
  <2>2. \A f \in Alive' : evts'[f].signum = SIGCHLD => evts'[f].oldact = "libev" /\ ~evts'[f].oldset
    BY <1>4 DEF Apart, LoopWatches
  <2> QED
    BY <1>1, <2>1, <2>2 DEF Apart, LoopWatches
<1>11. Saved'
  <2> SUFFICES ASSUME NEW f \in Alive', evts'[f].signum \in Signals \ {SIGCHLD}
               PROVE  /\ before'[evts'[f].signum] = <<evts'[f].oldact, evts'[f].oldset>>
                      /\ evts'[f].signum \in blocked' => evts'[f].oldset
    BY DEF Saved
  <2>1. f \in Alive /\ f # e /\ evts'[f] = evts[f]
    BY <1>4
  <2>2. evts[f].signum # n
    BY <1>1, <2>1 DEF Apart, OneEach
  <2> QED
    BY <1>1, <1>6, <2>1, <2>2 DEF Apart, Saved
<1>12. StartedIsHeard'
  <2> SUFFICES ASSUME NEW f \in Started', evts'[f].type # "io"
               PROVE  action'[evts'[f].signum] = "libev" /\ evts'[f].signum \notin blocked'
    BY DEF StartedIsHeard
  <2>1. f \in Started /\ f # e /\ evts'[f] = evts[f] /\ f \in Alive
    BY <1>4 DEF Started
  <2>2. action[evts[f].signum] = "libev" /\ evts[f].signum \notin blocked
    BY <2>1 DEF Apart, StartedIsHeard
  <2>3. evts[f].signum \in Signals
    BY <2>1 DEF Apart, SignalTypes, Kind
  <2>4. CASE evts[f].signum # n
    BY <1>6, <2>1, <2>2, <2>3, <2>4
  <2>5. CASE evts[f].signum = n
    <3>1. n = SIGCHLD
      BY <1>1, <2>1, <2>3, <2>5 DEF Apart, OneEach
    <3>2. evts[e].type = "child"
      BY <1>2, <3>1
    <3> QED
      BY <1>8, <2>1, <2>2, <2>5, <3>1, <3>2
  <2> QED
    BY <2>4, <2>5
<1>13. SignalsRestored'
  <2> SUFFICES ASSUME NEW s \in Signals, On(s)' = {}, before'[s] # NULL
               PROVE  <<action'[s], s \in blocked'>> = before'[s]
    BY DEF SignalsRestored
  <2>1. CASE s # n
    <3>1. On(s) = {}
      BY <1>5, <2>1 DEF On
    <3>2. <<action[s], s \in blocked>> = before[s]
      BY <1>1, <3>1 DEF Apart, SignalsRestored
    <3> QED
      BY <1>1, <1>6, <2>1, <3>2, Zenon
  <2>2. CASE s = n /\ s # SIGCHLD
    <3>1. evts[e].type = "signal"
      BY <1>2, <2>2
    <3>2. before[s] = <<evts[e].oldact, evts[e].oldset>> /\ (s \in blocked => evts[e].oldset)
      BY <1>1, <2>2 DEF Apart, Saved
    <3>3. action'[s] = evts[e].oldact /\ (s \in blocked' <=> evts[e].oldset)
      BY <1>7, <2>2, <3>1, <3>2
    <3>4. (s \in blocked') = evts[e].oldset
      <4>1. CASE evts[e].oldset = TRUE
        BY <3>3, <4>1
      <4>2. CASE evts[e].oldset = FALSE
        <5>1. ~evts[e].oldset
          BY <4>2, Zenon
        <5>2. s \notin blocked'
          BY <3>3, <5>1
        <5>3. (s \in blocked') = FALSE
          BY <5>2
        <5> HIDE <3>3, <5>2
        <5> QED
          BY <4>2, <5>3, Zenon
      <4> QED
        BY <1>2, <4>1, <4>2
    <3> QED
      BY <1>1, <3>2, <3>3, <3>4, Zenon
  <2>3. CASE s = n /\ s = SIGCHLD
    <3>1. evts[e].type = "child"
      BY <1>2, <2>3
    <3>2. el /\ before[s] = <<"libev", FALSE>>
      BY <1>1, <2>3 DEF Apart, LoopWatches
    <3>3. SIGCHLD \notin blocked
      BY <3>2 DEF Apart, LoopWatches
    <3>4. action'[s] = "libev" /\ (s \in blocked') = FALSE
      BY <1>8, <2>3, <3>1, <3>3
    <3> QED
      BY <1>1, <3>2, <3>4, Zenon
  <2> QED
    BY <2>1, <2>2, <2>3
<1>14. before' \in [Signals -> {NULL} \cup (Actions \X BOOLEAN)]
  BY <1>1 DEF Apart
<1> QED
  BY <1>3, <1>9, <1>10, <1>11, <1>12, <1>13, <1>14 DEF Apart

LEMMA ApartInvariant ==
  ASSUME ~Overlapping
  PROVE  Spec => []Apart
<1>1. Init => Apart
  <2> SUFFICES ASSUME Init PROVE Apart
    OBVIOUS
  <2>1. Alive = {} /\ Started = {} /\ before = [s \in Signals |-> NULL]
    BY DEF Init, Alive, Started
  <2>2. SignalTypes
    BY <2>1 DEF Init, SignalTypes, Actions
  <2> QED
    BY <2>1, <2>2 DEF Init, Apart, OneEach, LoopWatches, Saved, StartedIsHeard, SignalsRestored
<1>2. ASSUME Apart, [Next]_vars PROVE Apart'
  <2>1. CASE evt_run \/ RunReturns \/ (\E once \in BOOLEAN : evt_stop(once)) \/ CallbackReturn
             \/ (\E e \in Events : evt_cb(e)) \/ UNCHANGED vars
    <3>1. UNCHANGED <<el, evts, action, blocked, before>>
      BY <2>1 DEF evt_run, RunReturns, evt_stop, CallbackReturn, evt_cb, vars
    <3> QED
      BY <1>2, <3>1 DEF Apart, SignalTypes, OneEach, LoopWatches, Saved, StartedIsHeard,
                        SignalsRestored, Alive, Started, On
  <2> QED
    BY <1>2, <2>1, ApartNewLoop, ApartDeleteLoop, ApartNewEvent, ApartStart, ApartStop,
       ApartDelete DEF Next
<1> QED
  BY <1>1, <1>2, PTL DEF Spec

(* Of a client that keeps the events of a signal apart, libev handles the  *)
(* signal of every started event and the signal is not blocked, whatever   *)
(* other events are made, stopped and deleted meanwhile.                   *)
THEOREM StartedEventsHeard == ~Overlapping => (Spec => []StartedIsHeard)
<1> SUFFICES ASSUME ~Overlapping PROVE Spec => []StartedIsHeard
  OBVIOUS
<1>1. Apart => StartedIsHeard
  BY DEF Apart
<1> QED
  BY <1>1, ApartInvariant, PTL

(* Of such a client, evt_delete_event of the last event of a signal leaves *)
(* the action and the mask that were there when the first one was made.    *)
THEOREM ActionsRestored == ~Overlapping => (Spec => []SignalsRestored)
<1> SUFFICES ASSUME ~Overlapping PROVE Spec => []SignalsRestored
  OBVIOUS
<1>1. Apart => SignalsRestored
  BY DEF Apart
<1> QED
  BY <1>1, ApartInvariant, PTL
=============================================================================
