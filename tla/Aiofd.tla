------------------------------- MODULE Aiofd -------------------------------
(***************************************************************************)
(* The asynchronous file descriptor of src/aiofd.c: a queue of buffers     *)
(* that the write event drains, and a client whose callbacks run inside    *)
(* the event handler and may queue more.                                   *)
(*                                                                         *)
(* stack is the C call stack: "loop" is the while loop of aiofd_io_evt,    *)
(* the others are client callbacks.  wbuf is a sequence of aiofd_write_t,  *)
(* which is what List shows a list_t to be.  A buffer is a model value     *)
(* with a size; aiofd_write and aiofd_writev differ only in the low-level  *)
(* function that is called, and are one operation.                         *)
(***************************************************************************)
EXTENDS Integers, Sequences, FiniteSets, SequencesExt

CONSTANTS Buffers,    \* what the client writes
          Size,       \* Buffers -> bytes in it
          SIZE_MAX,   \* the largest size_t
          ShortWrites,\* may the kernel take only a part of a buffer?
          MaxDepth,   \* bound: handlers and callbacks inside each other
          MaxSent     \* bound: bytes of a buffer that sent remembers

ASSUME SizesAssumption == /\ Size \in [Buffers -> Nat] /\ SIZE_MAX \in Nat
                          /\ \A b \in Buffers : Size[b] <= SIZE_MAX
ASSUME BoundsAssumption == MaxDepth \in Nat /\ MaxSent \in Nat /\ ShortWrites \in BOOLEAN

VARIABLES held,       \* what the aiofd owns; {} when there is none
          started,    \* the events that are started: "wevt", "revt"
          wbuf,       \* the queue of buffers waiting to be written
          stack,      \* the call stack, innermost last
          accepted,   \* history: the buffers queued, in order
          reported,   \* history: the write complete callbacks, in order
          sent        \* history: the offsets of each buffer's bytes that went out

vars == <<held, started, wbuf, stack, accepted, reported, sent>>

Callbacks == {"read_evt", "write_evt", "drained_evt", "error_evt"}
Parts == {"wbuf", "int_cb", "handler", "wevt", "revt"}

(* The steps of aiofd_new whose failure it sees, and none. *)
Failures == {"wbuf", "int_cb", "wevt", "revt", "none"}

live == held # {}

Init == /\ held = {}
        /\ started = {}
        /\ wbuf = <<>>
        /\ stack = <<>>
        /\ accepted = <<>>
        /\ reported = <<>>
        /\ sent = [b \in Buffers |-> <<>>]

(* The client's code is running: outside the event loop or in a callback. *)
Running(frames) == IF stack = <<>> THEN FALSE ELSE Last(stack) \in frames

ClientRuns == stack = <<>> \/ Running(Callbacks)

-----------------------------------------------------------------------------
(* aiofd_new.  fds are the descriptors given; fail is the part that cannot *)
(* be made, "none" if all can.  ADD_IO_CB (aiofd.c:375) is not checked:    *)
(* heard says whether aiofd_io_evt got into int_cb, and when it did not    *)
(* the aiofd is handed out without its handler.  The error path releases   *)
(* what was made before it, cb_delete the handler with int_cb.             *)
Acquired(fds, fail, heard) ==
  LET cbs == {"wbuf", "int_cb"} \cup IF heard THEN {"handler"} ELSE {}
  IN  CASE fail = "wbuf"   -> {}
        [] fail = "int_cb" -> {"wbuf"}
        [] fail = "wevt"   -> cbs
        [] fail = "revt"   -> cbs \cup (fds \cap {"wevt"})
        [] OTHER           -> cbs \cup fds

(* Mutant of Released: the write event is forgotten. *)
ReleasedButEvent(fds, fail) ==
  CASE fail = "int_cb" -> {"wbuf"}
    [] fail \in {"wevt", "revt"} -> {"wbuf", "int_cb", "handler"}
    [] OTHER           -> {}

Released(fds, fail) ==
  CASE fail = "int_cb" -> {"wbuf"}
    [] fail = "wevt"   -> {"wbuf", "int_cb", "handler"}
    [] fail = "revt"   -> {"wbuf", "int_cb", "handler", "wevt"}
    [] OTHER           -> {}

aiofd_new(fds, fail, heard) ==
  /\ ~live /\ stack = <<>>
  /\ fds # {}
  /\ fail \in {"wevt", "revt"} => fail \in fds
  /\ held' = Acquired(fds, fail, heard) \ Released(fds, fail)
  /\ wbuf' = <<>>
  /\ accepted' = <<>> /\ reported' = <<>>
  /\ sent' = [b \in Buffers |-> <<>>]
  /\ UNCHANGED <<started, stack>>

(* aiofd_delete stops the events and frees what is still queued. *)
aiofd_delete ==
  /\ live /\ stack = <<>>
  /\ held' = {} /\ started' = {} /\ wbuf' = <<>>
  /\ accepted' = <<>> /\ reported' = <<>>
  /\ sent' = [b \in Buffers |-> <<>>]
  /\ UNCHANGED stack

(* aiofd_enable_write_evt and aiofd_enable_read_evt. *)
aiofd_enable(evt, enable) ==
  /\ live /\ ClientRuns
  /\ evt \in held
  /\ started' = IF enable THEN started \cup {evt} ELSE started \ {evt}
  /\ UNCHANGED <<held, wbuf, stack, accepted, reported, sent>>

(* aiofd_write and aiofd_writev.  A buffer without bytes is refused, and   *)
(* so is one for which the aiofd_write_t or its place in the list cannot   *)
(* be allocated.  Bound: the client writes each buffer once.               *)
aiofd_write_common(b, alloc) ==
  /\ live /\ ClientRuns
  /\ b \notin Range(accepted)
  /\ IF Size[b] > 0 /\ alloc
       THEN /\ wbuf' = Append(wbuf, [buf |-> b, nleft |-> Size[b]])
            /\ accepted' = Append(accepted, b)
       ELSE UNCHANGED <<wbuf, accepted>>
  /\ UNCHANGED <<held, started, stack, reported, sent>>

(* aiofd_read: the end of the stream and an error both call back. *)
aiofd_read(res) ==
  /\ live /\ ClientRuns
  /\ Len(stack) < MaxDepth
  /\ stack' = IF res > 0 THEN stack ELSE Append(stack, "error_evt")
  /\ UNCHANGED <<held, started, wbuf, accepted, reported, sent>>

-----------------------------------------------------------------------------
(* What evt_cb hands to aiofd_io_evt as the type of an event.  It          *)
(* reads it from the address of its own parameter instead of from the      *)
(* event, so it may be anything.                                           *)
Types == SUBSET {"read", "write"}

(* aiofd_io_evt.  Of a read event it first asks how much there is to read; *)
(* ret < 0 says that this failed.  An event of an aiofd without handler    *)
(* calls nothing.                                                          *)
aiofd_io_evt(evt, type, ret, listening) ==
  /\ live /\ stack = <<>>
  /\ evt \in started
  /\ stack' =
       CASE "handler" \notin held -> <<>>
         [] "handler" \in held /\ "read" \in type /\ "revt" \in held ->
              <<IF ret < 0 /\ ~listening THEN "error_evt" ELSE "read_evt">>
         [] /\ "handler" \in held /\ ~("read" \in type /\ "revt" \in held)
            /\ "write" \in type /\ "wevt" \in held -> <<"loop">>
         [] OTHER -> <<>>
  /\ UNCHANGED <<held, started, wbuf, accepted, reported, sent>>

IoEvent(evt) ==
  \E type \in Types, ret \in {-1, 0}, listening \in BOOLEAN :
     aiofd_io_evt(evt, type, ret, listening)

InLoop == Running({"loop"})

(* The queue is empty: the write complete callback with a NULL buffer. *)
Drained ==
  /\ InLoop /\ wbuf = <<>>
  /\ stack' = <<"drained_evt">>
  /\ UNCHANGED <<held, started, wbuf, accepted, reported, sent>>

(* The write fails.  The buffer stays at the head of the queue. *)
WriteFails(again) ==
  /\ InLoop /\ wbuf # <<>>
  /\ stack' = IF again THEN <<>> ELSE <<"error_evt">>
  /\ UNCHANGED <<held, started, wbuf, accepted, reported, sent>>

(* What the kernel may take of a buffer of n bytes. *)
Writable(n) == IF ShortWrites THEN 1 .. n ELSE {n}

(* The bytes of b that go out: the code passes the whole buffer, from its  *)
(* start, to every write.                                                  *)
SentBytes(b, n) == [i \in 1 .. n |-> i - 1]

(* Mutant of Finished: an unsigned count is waited for to fall below 0. *)
FinishedBelowZero(nleft) == nleft < 0

(* nleft is a size_t: it is never below 0. *)
Finished(nleft) == nleft = 0

(* Mutant of Popped: the newest buffer is taken. *)
PoppedTail(q) == Front(q)

(* list_pop_head on the queue. *)
Popped(q) == Tail(q)

(* n bytes of the head of the queue were written.  When none are left it   *)
(* is popped and reported, and the loop goes on after the callback.        *)
Written(n) ==
  LET wb   == Head(wbuf)
      left == (wb.nleft - n) % (SIZE_MAX + 1)
  IN  /\ sent' = [sent EXCEPT ![wb.buf] = IF Len(@) + n > MaxSent THEN @ ELSE @ \o SentBytes(wb.buf, n)]
      /\ IF Finished(left)
           THEN /\ wbuf' = Popped(wbuf)
                /\ reported' = Append(reported, wb.buf)
                /\ stack' = Append(stack, "write_evt")
           ELSE /\ wbuf' = [wbuf EXCEPT ![1].nleft = left]
                /\ UNCHANGED <<reported, stack>>

WriteSome ==
  /\ InLoop /\ wbuf # <<>>
  /\ \E n \in Writable(Size[Head(wbuf).buf]) : Written(n)
  /\ UNCHANGED <<held, started, accepted>>

(* A callback returns to the loop, to the callback it was called from, or  *)
(* to the event loop.                                                      *)
CallbackReturn(depth) ==
  /\ Running(Callbacks)
  /\ Len(stack) = depth
  /\ stack' = Front(stack)
  /\ UNCHANGED <<held, started, wbuf, accepted, reported, sent>>

Next ==
  \/ \E fds \in SUBSET {"wevt", "revt"}, fail \in Failures, heard \in BOOLEAN : aiofd_new(fds, fail, heard)
  \/ aiofd_delete
  \/ \E evt \in {"wevt", "revt"}, enable \in BOOLEAN : aiofd_enable(evt, enable)
  \/ \E b \in Buffers, alloc \in BOOLEAN : aiofd_write_common(b, alloc)
  \/ \E res \in -1 .. 1 : aiofd_read(res)
  \/ \E evt \in {"wevt", "revt"} : IoEvent(evt)
  \/ Drained
  \/ \E again \in BOOLEAN : WriteFails(again)
  \/ WriteSome
  \/ \E depth \in 1 .. MaxDepth : CallbackReturn(depth)

(* The event loop polls a level-triggered descriptor, so a started write   *)
(* event keeps coming; the handler runs to its end; every callback         *)
(* returns, however many others it runs before; and a descriptor that is   *)
(* written to again and again takes data some time.                        *)
Fairness == /\ SF_vars(IoEvent("wevt"))
            /\ WF_vars(Drained)
            /\ SF_vars(WriteSome)
            /\ \A depth \in 1 .. MaxDepth : SF_vars(CallbackReturn(depth))

Spec == Init /\ [][Next]_vars /\ Fairness

-----------------------------------------------------------------------------
(* Every variable has its type; the bytes left of a queued buffer are      *)
(* within its size, which a subtraction that wraps would break.            *)
TypeOK ==
  /\ held \subseteq Parts /\ started \subseteq (held \cap {"wevt", "revt"})
  /\ \A i \in DOMAIN wbuf : wbuf[i].buf \in Buffers /\ wbuf[i].nleft \in 1 .. Size[wbuf[i].buf]
  /\ \A i \in DOMAIN stack : stack[i] \in Callbacks \cup {"loop"}

(* The error path of aiofd_init releases exactly what was made before it:  *)
(* there is nothing, or an aiofd with its queue, its callbacks and an      *)
(* event.  The handler is not among them: its ADD_IO_CB (aiofd.c:375) is   *)
(* not checked, and an aiofd without it counts as made and never hears of  *)
(* an event.                                                               *)
AllOrNothing == held # {} => {"wbuf", "int_cb"} \subseteq held /\ held \cap {"wevt", "revt"} # {}

(* A buffer is in the queue from the write that queued it until its write  *)
(* complete callback, in order: none is lost, repeated or overtaken, even  *)
(* when callbacks queue more from inside the loop.                         *)
QueueInOrder == accepted = reported \o [i \in DOMAIN wbuf |-> wbuf[i].buf]

(* When the write complete callback says that a buffer has been written to *)
(* the fd (aiofd.c:337-338), its bytes went out, each once and in order.   *)
WrittenWhole ==
  \A b \in Range(reported) : sent[b] = [i \in 1 .. Size[b] |-> i - 1]

(* A queued buffer is reported, unless the client stops the write event or *)
(* deletes the aiofd, or it was made without its handler, provided that    *)
(* the type which evt_cb hands over comes out as a write again and again.  *)
EveryBufferReported ==
  SF_vars(aiofd_io_evt("wevt", {"write"}, 0, FALSE)) =>
    \A b \in Buffers :
       (b \in Range(accepted)) ~> (b \in Range(reported) \/ "wevt" \notin started \/ "handler" \notin held)
=============================================================================
