----------------------------- MODULE AiofdProofs -----------------------------
(***************************************************************************)
(* The write queue of an aiofd, for every set of buffers, every depth of   *)
(* callbacks inside callbacks and every outcome of the writes.             *)
(***************************************************************************)
EXTENDS Aiofd, TLAPS, SequenceTheorems

USE SizesAssumption

Queue == Seq([buf : Buffers, nleft : Nat])

(* Weaker than TypeOK, and true of short writes too. *)
HistoryTypes ==
  /\ wbuf \in Queue
  /\ accepted \in Seq(Buffers) /\ reported \in Seq(Buffers)
  /\ sent \in [Buffers -> Seq(Nat)]

(* QueueInOrder, position by position. *)
InOrder(acc, rep, q) ==
  /\ Len(acc) = Len(rep) + Len(q)
  /\ \A i \in 1 .. Len(rep) : acc[i] = rep[i]
  /\ \A i \in 1 .. Len(q) : acc[Len(rep) + i] = q[i].buf

LEMMA FunctionIsSequence ==
  ASSUME NEW n \in Nat, NEW S, NEW f \in [1 .. n -> S]
  PROVE  f \in Seq(S) /\ Len(f) = n
<1>1. f \in Seq(S)
  BY SeqDef
<1> QED
  BY <1>1, LenProperties

LEMMA InOrderIsQueueInOrder ==
  ASSUME HistoryTypes
  PROVE  InOrder(accepted, reported, wbuf) <=> QueueInOrder
<1> DEFINE bufs == [i \in DOMAIN wbuf |-> wbuf[i].buf]
<1>1. /\ wbuf \in Seq([buf : Buffers, nleft : Nat]) /\ accepted \in Seq(Buffers)
      /\ reported \in Seq(Buffers)
  BY DEF HistoryTypes, Queue
<1>2. bufs \in Seq(Buffers) /\ Len(bufs) = Len(wbuf)
      /\ \A i \in 1 .. Len(wbuf) : bufs[i] = wbuf[i].buf
  <2>0. wbuf \in [1 .. Len(wbuf) -> [buf : Buffers, nleft : Nat]] /\ Len(wbuf) \in Nat
    BY <1>1, LenProperties
  <2>1. Len(wbuf) \in Nat /\ DOMAIN wbuf = 1 .. Len(wbuf)
        /\ \A i \in 1 .. Len(wbuf) : wbuf[i].buf \in Buffers
    BY <2>0
  <2>2. bufs \in [1 .. Len(wbuf) -> Buffers]
    BY <2>1
  <2> QED
    BY <2>1, <2>2, FunctionIsSequence
<1> HIDE DEF bufs
<1>3. /\ reported \o bufs \in Seq(Buffers)
      /\ Len(reported \o bufs) = Len(reported) + Len(bufs)
      /\ \A i \in 1 .. Len(reported) : (reported \o bufs)[i] = reported[i]
      /\ \A i \in 1 .. Len(bufs) : (reported \o bufs)[Len(reported) + i] = bufs[i]
  <2>1. Len(reported) \in Nat /\ Len(bufs) \in Nat
    BY <1>1, <1>2, LenProperties
  <2>2. /\ reported \o bufs \in Seq(Buffers)
        /\ Len(reported \o bufs) = Len(reported) + Len(bufs)
        /\ \A i \in 1 .. Len(reported) + Len(bufs) : (reported \o bufs)[i] =
             IF i <= Len(reported) THEN reported[i] ELSE bufs[i - Len(reported)]
    BY <1>1, <1>2, ConcatProperties
  <2> QED
    BY <2>1, <2>2
<1>4. ASSUME InOrder(accepted, reported, wbuf) PROVE accepted = reported \o bufs
  <2>1. Len(accepted) = Len(reported \o bufs)
    BY <1>2, <1>3, <1>4 DEF InOrder
  <2>2. ASSUME NEW i \in 1 .. Len(accepted) PROVE accepted[i] = (reported \o bufs)[i]
    <3>1. CASE i \in 1 .. Len(reported)
      BY <1>3, <1>4, <3>1 DEF InOrder
    <3>2. CASE i \notin 1 .. Len(reported)
      <4>1. PICK j \in 1 .. Len(wbuf) : i = Len(reported) + j
        <5>1. i - Len(reported) \in 1 .. Len(wbuf) /\ i = Len(reported) + (i - Len(reported))
          BY <1>1, <1>4, <3>2 DEF InOrder
        <5> QED
          BY <5>1
      <4> QED
        BY <1>2, <1>3, <1>4, <4>1 DEF InOrder
    <3> QED
      BY <3>1, <3>2
  <2> QED
    BY <1>1, <1>3, <2>1, <2>2, SeqEqual
<1>5. ASSUME accepted = reported \o bufs PROVE InOrder(accepted, reported, wbuf)
  BY <1>2, <1>3, <1>5 DEF InOrder
<1> QED
  BY <1>4, <1>5 DEF QueueInOrder, bufs
-----------------------------------------------------------------------------
(* What each action does to the queue and to the histories. *)
Unqueued == UNCHANGED <<wbuf, accepted, reported, sent>>

Emptied == /\ wbuf' = <<>> /\ accepted' = <<>> /\ reported' = <<>>
           /\ sent' = [b \in Buffers |-> <<>>]

Queued(b) == /\ b \in Buffers /\ b \notin Range(accepted) /\ Size[b] > 0
             /\ wbuf' = Append(wbuf, [buf |-> b, nleft |-> Size[b]])
             /\ accepted' = Append(accepted, b)
             /\ UNCHANGED <<reported, sent>>

LEMMA StepsOfQueue ==
  ASSUME [Next]_vars
  PROVE  \/ Unqueued
         \/ Emptied
         \/ \E b \in Buffers : Queued(b)
         \/ WriteSome
<1>1. ASSUME NEW b \in Buffers, NEW alloc \in BOOLEAN, aiofd_write_common(b, alloc)
      PROVE  Unqueued \/ Queued(b)
  BY <1>1 DEF aiofd_write_common, Unqueued, Queued
<1>2. ASSUME NEW fds, NEW fail, NEW heard, aiofd_new(fds, fail, heard) PROVE Emptied
  BY <1>2 DEF aiofd_new, Emptied
<1>3. CASE aiofd_delete
  BY <1>3 DEF aiofd_delete, Emptied
<1>4. ASSUME NEW evt, NEW enable, aiofd_enable(evt, enable) PROVE Unqueued
  BY <1>4 DEF aiofd_enable, Unqueued
<1>5. ASSUME NEW res, aiofd_read(res) PROVE Unqueued
  BY <1>5 DEF aiofd_read, Unqueued
<1>6. ASSUME NEW evt, IoEvent(evt) PROVE Unqueued
  BY <1>6 DEF IoEvent, aiofd_io_evt, Unqueued
<1>7. CASE Drained
  BY <1>7 DEF Drained, Unqueued
<1>8. ASSUME NEW again, WriteFails(again) PROVE Unqueued
  BY <1>8 DEF WriteFails, Unqueued
<1>9. ASSUME NEW depth, CallbackReturn(depth) PROVE Unqueued
  BY <1>9 DEF CallbackReturn, Unqueued
<1>10. CASE UNCHANGED vars
  BY <1>10 DEF vars, Unqueued
<1> QED
  BY <1>1, <1>2, <1>3, <1>4, <1>5, <1>6, <1>7, <1>8, <1>9, <1>10 DEF Next

(* A write changes the head of the queue, or takes it off and reports it. *)
Shortened ==
  /\ \E left \in Nat : wbuf' = [wbuf EXCEPT ![1].nleft = left]
  /\ UNCHANGED <<accepted, reported>>

Reported ==
  /\ wbuf' = Tail(wbuf) /\ reported' = Append(reported, Head(wbuf).buf)
  /\ UNCHANGED accepted

Sent(b, n) ==
  sent' = [sent EXCEPT ![b] = IF Len(@) + n > MaxSent THEN @ ELSE @ \o SentBytes(b, n)]

LEMMA WritesOfQueue ==
  ASSUME HistoryTypes, WriteSome
  PROVE  /\ wbuf # <<>> /\ Head(wbuf) \in [buf : Buffers, nleft : Nat]
         /\ \E n \in Writable(Size[Head(wbuf).buf]) :
              /\ n \in Nat /\ Sent(Head(wbuf).buf, n)
              /\ IF (Head(wbuf).nleft - n) % (SIZE_MAX + 1) = 0 THEN Reported ELSE Shortened
<1>1. wbuf # <<>> /\ wbuf \in Seq([buf : Buffers, nleft : Nat])
  BY DEF WriteSome, HistoryTypes, Queue
<1>2. Head(wbuf) \in [buf : Buffers, nleft : Nat]
  BY <1>1, HeadTailProperties
<1>3. PICK n \in Writable(Size[Head(wbuf).buf]) : Written(n)
  BY DEF WriteSome
<1>4. n \in Nat
  BY <1>2, <1>3 DEF Writable
<1>5. (Head(wbuf).nleft - n) % (SIZE_MAX + 1) \in Nat
  <2>1. Head(wbuf).nleft - n \in Int /\ SIZE_MAX + 1 \in Nat \ {0}
    BY <1>2, <1>4
  <2> HIDE DEF Written
  <2> QED
    BY <2>1
<1>6. UNCHANGED accepted
  BY DEF WriteSome
<1>7. Sent(Head(wbuf).buf, n)
  BY <1>3 DEF Written, Sent
<1>8. IF (Head(wbuf).nleft - n) % (SIZE_MAX + 1) = 0 THEN Reported ELSE Shortened
  <2>1. CASE (Head(wbuf).nleft - n) % (SIZE_MAX + 1) = 0
    BY <1>3, <1>6, <2>1 DEF Written, Finished, Popped, Reported
  <2>2. CASE (Head(wbuf).nleft - n) % (SIZE_MAX + 1) # 0
    BY <1>3, <1>5, <1>6, <2>2 DEF Written, Finished, Shortened
  <2> QED
    BY <2>1, <2>2
<1> QED
  BY <1>1, <1>2, <1>3, <1>4, <1>7, <1>8

LEMMA HeadAndTail ==
  ASSUME NEW q \in Queue, q # <<>>
  PROVE  /\ q[1] = Head(q) /\ Head(q) \in [buf : Buffers, nleft : Nat]
         /\ Tail(q) \in Queue /\ Len(q) \in Nat \ {0} /\ Len(Tail(q)) = Len(q) - 1
         /\ \A i \in 1 .. Len(q) - 1 : Tail(q)[i] = q[i + 1]
<1>1. q \in Seq([buf : Buffers, nleft : Nat]) /\ Len(q) \in Nat \ {0}
  BY EmptySeq DEF Queue
<1>2. q[1] = Head(q)
  BY <1>1
<1>3. /\ Head(q) \in [buf : Buffers, nleft : Nat] /\ Tail(q) \in Seq([buf : Buffers, nleft : Nat])
      /\ Len(Tail(q)) = Len(q) - 1
      /\ \A i \in 1 .. Len(Tail(q)) : Tail(q)[i] = q[i + 1]
  BY <1>1, HeadTailProperties
<1> QED
  BY <1>1, <1>2, <1>3 DEF Queue

LEMMA QueueInductive ==
  ASSUME HistoryTypes, InOrder(accepted, reported, wbuf), [Next]_vars
  PROVE  HistoryTypes' /\ InOrder(accepted, reported, wbuf)'
<1>0. Len(wbuf) \in Nat /\ Len(accepted) \in Nat /\ Len(reported) \in Nat
  BY LenProperties DEF HistoryTypes, Queue
<1>1. CASE Unqueued
  BY <1>1 DEF Unqueued, HistoryTypes, InOrder
<1>2. CASE Emptied
  BY <1>2 DEF Emptied, HistoryTypes, Queue, InOrder
<1>3. ASSUME NEW b \in Buffers, Queued(b)
      PROVE  HistoryTypes' /\ InOrder(accepted, reported, wbuf)'
  <2> DEFINE wb == [buf |-> b, nleft |-> Size[b]]
  <2>1. wb \in [buf : Buffers, nleft : Nat] /\ wb.buf = b
    OBVIOUS
  <2> HIDE DEF wb
  <2>2. /\ wbuf' \in Queue /\ Len(wbuf') = Len(wbuf) + 1 /\ wbuf'[Len(wbuf) + 1] = wb
        /\ \A i \in 1 .. Len(wbuf) : wbuf'[i] = wbuf[i]
    BY <1>3, <2>1, AppendProperties DEF Queued, HistoryTypes, Queue, wb
  <2>3. /\ accepted' \in Seq(Buffers) /\ Len(accepted') = Len(accepted) + 1
        /\ accepted'[Len(accepted) + 1] = b
        /\ \A i \in 1 .. Len(accepted) : accepted'[i] = accepted[i]
    BY <1>3, AppendProperties DEF Queued, HistoryTypes
  <2>4. HistoryTypes'
    BY <1>3, <2>2, <2>3 DEF Queued, HistoryTypes
  <2>5. InOrder(accepted, reported, wbuf)'
    <3>1. reported' = reported
      BY <1>3 DEF Queued
    <3>2. \A i \in 1 .. Len(reported) : accepted'[i] = reported[i]
      BY <1>0, <2>3 DEF InOrder
    <3>3. ASSUME NEW i \in 1 .. Len(wbuf) + 1
          PROVE  accepted'[Len(reported) + i] = wbuf'[i].buf
      <4>1. CASE i = Len(wbuf) + 1
        BY <1>0, <2>1, <2>2, <2>3, <4>1 DEF InOrder
      <4>2. CASE i # Len(wbuf) + 1
        <5>1. i \in 1 .. Len(wbuf) /\ Len(reported) + i \in 1 .. Len(accepted)
          BY <1>0, <4>2 DEF InOrder
        <5> QED
          BY <2>2, <2>3, <5>1 DEF InOrder
      <4> QED
        BY <4>1, <4>2
    <3> QED
      BY <1>0, <2>2, <2>3, <3>1, <3>2, <3>3 DEF InOrder
  <2> QED
    BY <2>4, <2>5
<1>4. CASE WriteSome
  <2>1. wbuf # <<>>
    BY <1>4, WritesOfQueue
  <2>2. PICK n \in Nat :
          /\ Sent(Head(wbuf).buf, n)
          /\ Reported \/ Shortened
    BY <1>4, WritesOfQueue
  <2>3. /\ wbuf[1] = Head(wbuf) /\ Head(wbuf) \in [buf : Buffers, nleft : Nat]
        /\ Tail(wbuf) \in Queue /\ Len(wbuf) \in Nat \ {0} /\ Len(Tail(wbuf)) = Len(wbuf) - 1
        /\ \A i \in 1 .. Len(wbuf) - 1 : Tail(wbuf)[i] = wbuf[i + 1]
    BY <2>1, HeadAndTail DEF HistoryTypes
  <2>4. sent' \in [Buffers -> Seq(Nat)]
    <3>1. SentBytes(Head(wbuf).buf, n) \in [1 .. n -> Nat]
      BY DEF SentBytes
    <3>2. SentBytes(Head(wbuf).buf, n) \in Seq(Nat)
      BY <3>1, FunctionIsSequence
    <3>3. sent[Head(wbuf).buf] \in Seq(Nat)
      BY <2>3 DEF HistoryTypes
    <3>4. sent[Head(wbuf).buf] \o SentBytes(Head(wbuf).buf, n) \in Seq(Nat)
      BY <3>2, <3>3, ConcatProperties
    <3> QED
      BY <2>2, <2>3, <3>3, <3>4 DEF Sent, HistoryTypes
  <2>5. CASE Reported
    <3>1. /\ reported' \in Seq(Buffers) /\ Len(reported') = Len(reported) + 1
          /\ reported'[Len(reported) + 1] = wbuf[1].buf
          /\ \A i \in 1 .. Len(reported) : reported'[i] = reported[i]
      <4>1. Head(wbuf).buf \in Buffers
        BY <2>3
      <4> QED
        BY <2>3, <2>5, <4>1, AppendProperties DEF Reported, HistoryTypes
    <3>2. HistoryTypes'
      BY <2>3, <2>4, <2>5, <3>1 DEF HistoryTypes, Reported
    <3>3. ASSUME NEW i \in 1 .. Len(reported) + 1 PROVE accepted[i] = reported'[i]
      <4>1. CASE i = Len(reported) + 1
        BY <1>0, <2>3, <3>1, <4>1 DEF InOrder
      <4> QED
        BY <1>0, <3>1, <4>1 DEF InOrder
    <3>4. ASSUME NEW i \in 1 .. Len(wbuf) - 1
          PROVE  accepted[Len(reported) + 1 + i] = Tail(wbuf)[i].buf
      <4>1. i + 1 \in 1 .. Len(wbuf) /\ Len(reported) + 1 + i = Len(reported) + (i + 1)
        BY <1>0
      <4> QED
        BY <2>3, <4>1 DEF InOrder
    <3>5. InOrder(accepted, reported, wbuf)'
      <4>1. accepted' = accepted /\ wbuf' = Tail(wbuf)
        BY <2>5 DEF Reported
      <4>2. Len(accepted) = Len(reported) + Len(wbuf)
        BY DEF InOrder
      <4>3. Len(accepted') = Len(reported') + Len(wbuf')
        BY <1>0, <2>3, <3>1, <4>1, <4>2
      <4>4. \A i \in 1 .. Len(reported') : accepted'[i] = reported'[i]
        BY <3>1, <3>3, <4>1
      <4>5. \A i \in 1 .. Len(wbuf') : accepted'[Len(reported') + i] = wbuf'[i].buf
        BY <2>3, <3>1, <3>4, <4>1
      <4> QED
        BY <4>3, <4>4, <4>5 DEF InOrder
    <3> QED
      BY <3>2, <3>5
  <2>6. CASE Shortened
    <3>1. PICK left \in Nat : wbuf' = [wbuf EXCEPT ![1].nleft = left]
      BY <2>6 DEF Shortened
    <3> DEFINE e == [wbuf[1] EXCEPT !.nleft = left]
    <3>2. e \in [buf : Buffers, nleft : Nat] /\ e.buf = wbuf[1].buf
      BY <2>3
    <3>3. wbuf' = [wbuf EXCEPT ![1] = e]
      BY <3>1
    <3> HIDE DEF e
    <3>4. /\ wbuf' \in Queue /\ Len(wbuf') = Len(wbuf)
          /\ \A i \in 1 .. Len(wbuf) : wbuf'[i] = IF i = 1 THEN e ELSE wbuf[i]
      BY <2>3, <3>2, <3>3, ExceptSeq DEF HistoryTypes, Queue
    <3>5. \A i \in 1 .. Len(wbuf) : wbuf'[i].buf = wbuf[i].buf
      BY <3>2, <3>4
    <3> QED
      BY <2>4, <2>6, <3>4, <3>5 DEF Shortened, HistoryTypes, InOrder
  <2> QED
    BY <2>2, <2>5, <2>6
<1> QED
  BY <1>1, <1>2, <1>3, <1>4, StepsOfQueue

LEMMA QueueInitially == Init => HistoryTypes /\ InOrder(accepted, reported, wbuf)
BY DEF Init, HistoryTypes, Queue, InOrder

LEMMA QueueAlways == Spec => [](HistoryTypes /\ InOrder(accepted, reported, wbuf))
BY QueueInitially, QueueInductive, PTL DEF Spec

(* No buffer is lost, repeated or overtaken between aiofd_write and its    *)
(* write complete callback, whatever the callbacks that run inside         *)
(* aiofd_io_evt queue and however much of a buffer the kernel takes.       *)
THEOREM OrderKept == Spec => []QueueInOrder
<1>1. HistoryTypes /\ InOrder(accepted, reported, wbuf) => QueueInOrder
  BY InOrderIsQueueInOrder
<1> QED
  BY <1>1, QueueAlways, PTL

-----------------------------------------------------------------------------
Frames == Callbacks \cup {"loop"}

(* The part of TypeOK that is true of short writes too. *)
PartTypes ==
  /\ held \subseteq Parts /\ started \subseteq (held \cap {"wevt", "revt"})
  /\ stack \in Seq(Frames)

LEMMA PartsInductive ==
  ASSUME PartTypes, AllOrNothing, [Next]_vars
  PROVE  PartTypes' /\ AllOrNothing'
<1>0. stack \in Seq(Frames)
  BY DEF PartTypes
<1>1. ASSUME NEW f \in Frames PROVE Append(stack, f) \in Seq(Frames) /\ <<f>> \in Seq(Frames)
  BY <1>0
<1>2. <<>> \in Seq(Frames) /\ (stack # <<>> => Front(stack) \in Seq(Frames))
  <2>1. ASSUME stack # <<>> PROVE SubSeq(stack, 1, Len(stack) - 1) \in Seq(Frames)
    <3>1. Len(stack) \in Nat /\ \A i \in 1 .. Len(stack) - 1 : stack[i] \in Frames
      BY <1>0, LenProperties, ElementOfSeq
    <3> QED
      BY <3>1, SubSeqProperties
  <2> QED
    BY <2>1 DEF Front
<1>3. ASSUME UNCHANGED <<held, started>>, stack' \in Seq(Frames)
      PROVE  PartTypes' /\ AllOrNothing'
  BY <1>3 DEF PartTypes, AllOrNothing
<1>4. ASSUME NEW fds \in SUBSET {"wevt", "revt"}, NEW fail \in Failures, NEW heard \in BOOLEAN,
             aiofd_new(fds, fail, heard)
      PROVE  PartTypes' /\ AllOrNothing'
  <2>1. /\ fds # {} /\ started = {} /\ started' = {} /\ stack' = stack
        /\ held' = Acquired(fds, fail, heard) \ Released(fds, fail)
    BY <1>4 DEF aiofd_new, live, PartTypes
  <2>2. CASE fail = "none"
    BY <1>0, <2>1, <2>2 DEF Acquired, Released, PartTypes, AllOrNothing, Parts
  <2>3. CASE fail # "none"
    <3>1. held' = {}
      BY <2>1, <2>3 DEF Acquired, Released, Failures
    <3> QED
      BY <1>0, <2>1, <3>1 DEF PartTypes, AllOrNothing
  <2> QED
    BY <2>2, <2>3
<1>5. CASE aiofd_delete
  BY <1>5 DEF aiofd_delete, PartTypes, AllOrNothing
<1>6. ASSUME NEW evt \in {"wevt", "revt"}, NEW enable \in BOOLEAN, aiofd_enable(evt, enable)
      PROVE  PartTypes' /\ AllOrNothing'
  BY <1>6 DEF aiofd_enable, PartTypes, AllOrNothing
<1>7. ASSUME NEW b, NEW alloc, aiofd_write_common(b, alloc)
      PROVE  PartTypes' /\ AllOrNothing'
  BY <1>0, <1>3, <1>7 DEF aiofd_write_common
<1>8. ASSUME NEW res, aiofd_read(res) PROVE PartTypes' /\ AllOrNothing'
  BY <1>0, <1>1, <1>3, <1>8 DEF aiofd_read, Frames, Callbacks
<1>9. ASSUME NEW evt, IoEvent(evt) PROVE PartTypes' /\ AllOrNothing'
  <2>1. UNCHANGED <<held, started>>
    BY <1>9 DEF IoEvent, aiofd_io_evt
  <2>2. \/ stack' = <<>>
        \/ \E f \in {"error_evt", "read_evt", "loop"} : stack' = <<f>>
    BY <1>9 DEF IoEvent, aiofd_io_evt
  <2> QED
    BY <1>1, <1>2, <1>3, <2>1, <2>2 DEF Frames, Callbacks
<1>10. CASE Drained
  BY <1>1, <1>3, <1>10 DEF Drained, Frames, Callbacks
<1>11. ASSUME NEW again, WriteFails(again) PROVE PartTypes' /\ AllOrNothing'
  BY <1>1, <1>2, <1>3, <1>11 DEF WriteFails, Frames, Callbacks
<1>12. CASE WriteSome
  <2>1. UNCHANGED <<held, started>>
    BY <1>12 DEF WriteSome
  <2>2. stack' = stack \/ stack' = Append(stack, "write_evt")
    BY <1>12 DEF WriteSome, Written
  <2> QED
    BY <1>0, <1>1, <1>3, <2>1, <2>2 DEF Frames, Callbacks
<1>13. ASSUME NEW depth, CallbackReturn(depth) PROVE PartTypes' /\ AllOrNothing'
  BY <1>2, <1>3, <1>13 DEF CallbackReturn, Running
<1>14. CASE UNCHANGED vars
  BY <1>0, <1>3, <1>14 DEF vars
<1> QED
  BY <1>4, <1>5, <1>6, <1>7, <1>8, <1>9, <1>10, <1>11, <1>12, <1>13, <1>14 DEF Next

LEMMA PartsAlways == Spec => [](PartTypes /\ AllOrNothing)
<1>1. Init => PartTypes /\ AllOrNothing
  BY DEF Init, PartTypes, AllOrNothing
<1> QED
  BY <1>1, PartsInductive, PTL DEF Spec

(* aiofd_new leaves nothing, or an aiofd with queue, callbacks and events, *)
(* whichever of the steps it checks fails, whether or not the handler that *)
(* it does not check got in (aiofd.c:375), and whatever was done with the  *)
(* aiofd since.                                                            *)
THEOREM WholeOrNothing == Spec => []AllOrNothing
BY PartsAlways, PTL

-----------------------------------------------------------------------------
(* Without short writes a queued buffer has all its bytes before it. *)
AllLeft == \A i \in 1 .. Len(wbuf) : wbuf[i].nleft = Size[wbuf[i].buf] /\ wbuf[i].nleft > 0

(* So the first write of a buffer is its last. *)
LEMMA WholeWrite ==
  ASSUME ~ShortWrites, HistoryTypes, AllLeft, WriteSome
  PROVE  /\ wbuf # <<>> /\ Head(wbuf).buf \in Buffers
         /\ Sent(Head(wbuf).buf, Size[Head(wbuf).buf])
         /\ Reported
<1> DEFINE b == Head(wbuf).buf
           n == Size[b]
<1>1. wbuf # <<>> /\ wbuf[1] = Head(wbuf) /\ b \in Buffers /\ Len(wbuf) \in Nat \ {0}
  BY WritesOfQueue, HeadAndTail DEF HistoryTypes
<1>2. n \in Nat /\ Head(wbuf).nleft = n
  BY <1>1 DEF AllLeft
<1>3. (Head(wbuf).nleft - n) % (SIZE_MAX + 1) = 0
  BY <1>2
<1>4. Writable(n) = {n}
  BY DEF Writable
<1> QED
  BY <1>1, <1>3, <1>4, WritesOfQueue

LEMMA LeftInductive ==
  ASSUME ~ShortWrites, HistoryTypes, AllLeft, [Next]_vars
  PROVE  AllLeft'
<1>1. CASE Unqueued
  BY <1>1 DEF Unqueued, AllLeft
<1>2. CASE Emptied
  BY <1>2 DEF Emptied, AllLeft
<1>3. ASSUME NEW b \in Buffers, Queued(b) PROVE AllLeft'
  <2> DEFINE wb == [buf |-> b, nleft |-> Size[b]]
  <2>1. wb \in [buf : Buffers, nleft : Nat] /\ wb.nleft = Size[wb.buf] /\ wb.nleft > 0
    BY <1>3 DEF Queued
  <2> HIDE DEF wb
  <2>2. /\ Len(wbuf') = Len(wbuf) + 1 /\ wbuf'[Len(wbuf) + 1] = wb /\ Len(wbuf) \in Nat
        /\ \A i \in 1 .. Len(wbuf) : wbuf'[i] = wbuf[i]
    BY <1>3, <2>1, AppendProperties, LenProperties DEF Queued, HistoryTypes, Queue, wb
  <2>3. ASSUME NEW i \in 1 .. Len(wbuf') PROVE i = Len(wbuf) + 1 \/ i \in 1 .. Len(wbuf)
    BY <2>2
  <2> QED
    BY <2>1, <2>2, <2>3 DEF AllLeft
<1>4. CASE WriteSome
  <2>1. wbuf' = Tail(wbuf) /\ wbuf # <<>>
    BY <1>4, WholeWrite DEF Reported
  <2>2. Len(wbuf) \in Nat /\ Len(Tail(wbuf)) = Len(wbuf) - 1
        /\ \A i \in 1 .. Len(wbuf) - 1 : Tail(wbuf)[i] = wbuf[i + 1]
    BY <2>1, HeadAndTail DEF HistoryTypes
  <2>3. \A i \in 1 .. Len(wbuf') : i + 1 \in 1 .. Len(wbuf) /\ wbuf'[i] = wbuf[i + 1]
    BY <2>1, <2>2
  <2> QED
    BY <2>3 DEF AllLeft
<1> QED
  BY <1>1, <1>2, <1>3, <1>4, StepsOfQueue

(* If the kernel takes every buffer whole, the bytes left of a queued      *)
(* buffer are all its bytes, and never wrap; the parts and the events of   *)
(* an aiofd and the frames on the stack are what they should be.           *)
THEOREM TypeCorrect == ~ShortWrites => (Spec => []TypeOK)
<1> SUFFICES ASSUME ~ShortWrites PROVE Spec => []TypeOK
  OBVIOUS
<1>1. Init => AllLeft
  BY DEF Init, AllLeft
<1>2. HistoryTypes /\ AllLeft /\ [Next]_vars => AllLeft'
  BY LeftInductive
<1>3. HistoryTypes /\ AllLeft /\ PartTypes => TypeOK
  <2> SUFFICES ASSUME HistoryTypes, AllLeft, PartTypes PROVE TypeOK
    OBVIOUS
  <2>1. ASSUME NEW i \in DOMAIN wbuf
        PROVE  wbuf[i].buf \in Buffers /\ wbuf[i].nleft \in 1 .. Size[wbuf[i].buf]
    <3>1. i \in 1 .. Len(wbuf) /\ wbuf[i] \in [buf : Buffers, nleft : Nat]
      BY LenProperties, ElementOfSeq DEF HistoryTypes, Queue
    <3> QED
      BY <3>1 DEF AllLeft
  <2>2. ASSUME NEW i \in DOMAIN stack PROVE stack[i] \in Callbacks \cup {"loop"}
    BY LenProperties, ElementOfSeq DEF PartTypes, Frames
  <2> QED
    BY <2>1, <2>2 DEF PartTypes, TypeOK
<1> QED
  BY <1>1, <1>2, <1>3, QueueAlways, PartsAlways, PTL DEF Spec
=============================================================================
