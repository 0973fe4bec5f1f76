---------------------------- MODULE SocketProofs ----------------------------
(***************************************************************************)
(* Sockets, for any number of socket_t's and descriptors, of a client that *)
(* may bind whatever it likes and may call into the socket from every      *)
(* callback.                                                               *)
(*                                                                         *)
(* The argument: every function of socket.c takes a sound socket_t to a    *)
(* sound one, and leaves it with the descriptor it had, with none, or with *)
(* one that was free before (the lemmas Sound...).  What the functions     *)
(* compose to therefore cannot make two socket_t's share a descriptor, nor *)
(* let one keep a descriptor that it has given back.                       *)
(***************************************************************************)
EXTENDS Socket, TLAPS, SequenceTheorems, WellFoundedInduction

USE SocketsAssumption, NullAssumption

(* A socket_t as the functions keep it. *)
Sound(s) ==
  /\ s \in SocketT
  /\ s.fd = -1 <=> s.aiofd = NULL
  /\ s.aiofd # NULL => Len(s.aiofd.q) <= MaxQueue
  /\ s.type = "UDP" => /\ s.aiofd # NULL => s.aiofd.on = {}
                       /\ ~s.connected /\ s.told # "conn" /\ ~s.accepted
  /\ s.connected <=> s.told = "conn" \/ (s.accepted /\ s.told = "none")
  /\ s.held = s.fd

(* What a function may make of s, given the descriptor fd or NULL. *)
Becomes(s, t, fd) == Sound(t) /\ t.type = s.type /\ t.fd \in {s.fd, -1, fd}

LEMMA LeastFd ==
  ASSUME NEW T \in SUBSET Nat, T # {}
  PROVE  Min(T) \in T
<1> DEFINE Less == {ss \in Nat \X Nat : ss[1] < ss[2]}
<1>1. IsWellFoundedOn(Less, Nat)
  <2>1. Less = OpToRel(<, Nat)
    BY Zenon DEF OpToRel
  <2> QED
    BY <2>1, NatLessThanWellFounded, Zenon
<1>2. PICK x \in T : \A y \in T : ~ (<<y, x>> \in Less)
  <2> HIDE DEF Less
  <2> QED
    BY <1>1, WFMin
<1>3. ASSUME NEW y \in T PROVE x <= y
  <2>1. x \in Nat /\ y \in Nat
    OBVIOUS
  <2>2. y < x => <<y, x>> \in Less
    BY <2>1
  <2> HIDE DEF Less
  <2> QED
    BY <1>2, <2>1, <2>2
<1> QED
  BY <1>3 DEF Min

LEMMA FieldsOf ==
  ASSUME NEW s, s \in SocketT
  PROVE  /\ s.type \in {"TCP", "UDP"} /\ s.fd \in FDs \cup {-1} /\ s.connected \in BOOLEAN
         /\ s.bound \in BOOLEAN /\ s.listening \in BOOLEAN /\ s.aiofd \in AiofdT \cup {NULL}
         /\ s.kern \in Kernel /\ s.told \in {"none", "conn", "disc"} /\ s.owed \in BOOLEAN
         /\ s.accepted \in BOOLEAN /\ s.held \in FDs \cup {-1}
BY DEF SocketT

LEMMA SoundInit ==
  ASSUME NEW t \in {"TCP", "UDP"}
  PROVE  Sound(s_init(t)) /\ s_init(t).fd = -1
BY DEF Sound, s_init, SocketT, Kernel

(* Starting and stopping an event. *)
LEMMA SoundStart ==
  ASSUME NEW s, Sound(s), NEW evt \in {"w", "r"}, s.type # "UDP"
  PROVE  Becomes(s, Start(s, evt), s.fd)
<1>1. CASE s.aiofd = NULL
  BY <1>1 DEF Start, Becomes
<1>2. CASE s.aiofd # NULL
  <2> DEFINE a == [s.aiofd EXCEPT !.on = @ \cup {evt}]
  <2>1. Start(s, evt) = [s EXCEPT !.aiofd = a]
    BY <1>2 DEF Start
  <2>2. s \in SocketT /\ s.aiofd \in AiofdT
    BY <1>2, FieldsOf DEF Sound
  <2>3. a \in AiofdT /\ a.q = s.aiofd.q /\ a # NULL
    BY <2>2 DEF AiofdT
  <2> HIDE DEF a
  <2> QED
    BY <1>2, <2>1, <2>2, <2>3 DEF Becomes, Sound, SocketT
<1> QED
  BY <1>1, <1>2

LEMMA SoundStop ==
  ASSUME NEW s, Sound(s), NEW evt \in {"w", "r"}
  PROVE  Becomes(s, Stop(s, evt), s.fd)
<1>1. CASE s.aiofd = NULL
  BY <1>1 DEF Stop, Becomes
<1>2. CASE s.aiofd # NULL
  <2> DEFINE a == [s.aiofd EXCEPT !.on = @ \ {evt}]
  <2>1. Stop(s, evt) = [s EXCEPT !.aiofd = a]
    BY <1>2 DEF Stop
  <2>2. s \in SocketT /\ s.aiofd \in AiofdT
    BY <1>2, FieldsOf DEF Sound
  <2>3. a \in AiofdT /\ a.q = s.aiofd.q /\ a # NULL /\ a.on \subseteq s.aiofd.on
    BY <2>2 DEF AiofdT
  <2> HIDE DEF a
  <2> QED
    BY <1>2, <2>1, <2>2, <2>3 DEF Becomes, Sound, SocketT
<1> QED
  BY <1>1, <1>2

LEMMA SoundOpen ==
  ASSUME NEW s, Sound(s), NEW fd \in FDs \cup {NULL}
  PROVE  Becomes(s, OpenIfNeeded(s, fd), fd)
<1>1. CASE s.aiofd # NULL
  BY <1>1 DEF OpenIfNeeded, Becomes
<1>2. CASE s.aiofd = NULL
  <2>0. s.fd = -1 /\ s \in SocketT
    BY <1>2 DEF Sound
  <2>1. CASE fd = NULL
    <3>1. OpenIfNeeded(s, fd) = [s EXCEPT !.held = -1, !.fd = -1]
      BY <1>2, <2>0, <2>1 DEF OpenIfNeeded, s_open, Close, Sound, SocketT
    <3> QED
      BY <1>2, <2>0, <3>1 DEF Becomes, Sound, SocketT
  <2>2. CASE fd # NULL
    <3>1. OpenIfNeeded(s, fd) = [s EXCEPT !.fd = fd, !.held = fd, !.aiofd = NewAiofd]
      BY <1>2, <2>0, <2>2 DEF OpenIfNeeded, s_open, s_open_tcp, s_open_udp
    <3>2. NewAiofd \in AiofdT /\ NewAiofd # NULL /\ NewAiofd.on = {} /\ Len(NewAiofd.q) = 0
      <4>1. <<>> \in Seq(BOOLEAN) /\ Len(<<>>) = 0
        OBVIOUS
      <4>2. NewAiofd.on = {} /\ NewAiofd.q = <<>>
        BY DEF NewAiofd
      <4>3. NewAiofd \in AiofdT
        BY <4>1 DEF NewAiofd, AiofdT
      <4> QED
        BY <4>1, <4>2, <4>3
    <3>3. fd \in FDs /\ fd # -1
      BY <2>2
    <3> HIDE DEF NewAiofd
    <3> DEFINE o == [s EXCEPT !.fd = fd, !.held = fd, !.aiofd = NewAiofd]
    <3>4. /\ o.type = s.type /\ o.fd = fd /\ o.aiofd = NewAiofd
          /\ o.connected = s.connected /\ o.told = s.told /\ o \in SocketT
          /\ o.accepted = s.accepted /\ o.held = fd
      BY <2>0, <3>2, <3>3 DEF SocketT
    <3> HIDE DEF o
    <3>5. Len(o.aiofd.q) <= MaxQueue
      BY <3>2, <3>4
    <3>6. Sound(o)
      BY <3>2, <3>3, <3>4, <3>5 DEF Sound
    <3> QED
      BY <3>1, <3>4, <3>6 DEF Becomes, o
  <2> QED
    BY <2>1, <2>2
<1> QED
  BY <1>1, <1>2

(* What is sound does not depend on the other fields. *)
LEMMA SoundAlike ==
  ASSUME NEW s, Sound(s), NEW t \in SocketT, t.type = s.type, t.fd = s.fd, t.aiofd = s.aiofd,
         t.connected = s.connected, t.told = s.told, t.accepted = s.accepted, t.held = s.held
  PROVE  Becomes(s, t, s.fd)
BY DEF Becomes, Sound

LEMMA BecomesTransitive ==
  ASSUME NEW s, NEW t, NEW u, NEW fd, Becomes(s, t, fd), Becomes(t, u, t.fd)
  PROVE  Becomes(s, u, fd)
BY DEF Becomes

LEMMA SoundClose ==
  ASSUME NEW s, Sound(s)
  PROVE  /\ Becomes(s, s_close(s).s, s.fd) /\ s_close(s).ok \in BOOLEAN
         /\ s_close(s).s.connected = s.connected /\ s_close(s).s.told = s.told
         /\ s_close(s).s.accepted = s.accepted
         /\ s_close(s).ok => s_close(s).s.aiofd = NULL
<1> DEFINE shut == [s EXCEPT !.kern = "idle", !.owed = FALSE]
           all == On(s, "w") /\ On(s, "r")
<1>1. s_close(s).ok = all /\ s_close(s).s = IF all THEN Closed(shut) ELSE Stop(shut, "w")
  BY DEF s_close
<1>2. /\ shut \in SocketT /\ shut.type = s.type /\ shut.fd = s.fd /\ shut.aiofd = s.aiofd
      /\ shut.connected = s.connected /\ shut.told = s.told /\ shut.accepted = s.accepted
      /\ shut.held = s.held /\ s.held = s.fd
  BY DEF Sound, SocketT, Kernel
<1> HIDE DEF shut
<1>3. Becomes(s, shut, s.fd)
  BY <1>2, SoundAlike
<1>4. CASE all
  <2>1. s_close(s).s = [shut EXCEPT !.held = -1, !.aiofd = NULL, !.fd = -1]
    BY <1>1, <1>2, <1>4 DEF Closed, Close, SocketT
  <2> DEFINE t == [shut EXCEPT !.held = -1, !.aiofd = NULL, !.fd = -1]
  <2>2. /\ t \in SocketT /\ t.type = s.type /\ t.fd = -1 /\ t.aiofd = NULL /\ t.held = -1
        /\ t.connected = s.connected /\ t.told = s.told /\ t.accepted = s.accepted
    BY <1>2 DEF SocketT
  <2> HIDE DEF t
  <2>3. Becomes(s, t, s.fd)
    BY <2>2 DEF Becomes, Sound
  <2> QED
    BY <1>1, <2>1, <2>2, <2>3 DEF t
<1>5. CASE ~all
  <2>1. s_close(s).s = Stop(shut, "w") /\ ~s_close(s).ok
    BY <1>1, <1>5
  <2>2. Becomes(shut, Stop(shut, "w"), shut.fd)
    BY <1>3, SoundStop DEF Becomes
  <2>3. /\ Stop(shut, "w").connected = s.connected /\ Stop(shut, "w").told = s.told
        /\ Stop(shut, "w").accepted = s.accepted
    BY <1>2 DEF Stop, SocketT
  <2> QED
    BY <1>1, <1>3, <2>1, <2>2, <2>3, BecomesTransitive
<1> QED
  BY <1>4, <1>5

LEMMA SoundDisconnect ==
  ASSUME NEW s, Sound(s)
  PROVE  Becomes(s, socket_disconnect(s), s.fd)
<1> DEFINE c == s_close(s)
           told == IF s.type # "UDP" THEN "disc" ELSE c.s.told
           t == [c.s EXCEPT !.connected = FALSE, !.told = told]
<1>1. socket_disconnect(s) = IF c.ok THEN t ELSE c.s
  BY DEF socket_disconnect
<1>2. /\ Becomes(s, c.s, s.fd) /\ c.s.connected = s.connected /\ c.s.told = s.told
      /\ c.ok => c.s.aiofd = NULL
  BY SoundClose
<1>3. c.s \in SocketT /\ c.s.type = s.type
  BY <1>2 DEF Becomes, Sound
<1> HIDE DEF c
<1>4. CASE c.ok
  <2>1. /\ told \in {"none", "disc"} /\ told # "conn"
    BY <1>2, <1>3, FieldsOf DEF Sound, Becomes
  <2> HIDE DEF told
  <2>2. /\ t \in SocketT /\ t.type = s.type /\ t.fd = c.s.fd /\ t.aiofd = c.s.aiofd
        /\ t.connected = FALSE /\ t.told = told /\ t.accepted = c.s.accepted /\ t.held = c.s.held
        /\ t.accepted => told = "disc"
    <3>1. /\ t \in SocketT /\ t.type = s.type /\ t.fd = c.s.fd /\ t.aiofd = c.s.aiofd
          /\ t.connected = FALSE /\ t.told = told /\ t.accepted = c.s.accepted /\ t.held = c.s.held
      BY <1>3, <2>1 DEF SocketT
    <3>2. s.type = "UDP" => ~c.s.accepted
      BY <1>2, <1>3 DEF Becomes, Sound
    <3> QED
      BY <3>1, <3>2 DEF told
  <2> HIDE DEF t
  <2>3. Sound(t)
    BY <1>2, <1>3, <1>4, <2>1, <2>2 DEF Sound, Becomes
  <2> QED
    BY <1>1, <1>2, <1>4, <2>2, <2>3 DEF Becomes
<1>5. CASE ~c.ok
  BY <1>1, <1>2, <1>5
<1> QED
  BY <1>4, <1>5

LEMMA SoundWrite ==
  ASSUME NEW s, Sound(s), NEW wd \in BOOLEAN, s.aiofd # NULL => Len(s.aiofd.q) < MaxQueue
  PROVE  Becomes(s, socket_write(s, wd), s.fd)
<1>1. CASE socket_write(s, wd) = s
  BY <1>1 DEF Becomes
<1>2. CASE s.aiofd # NULL /\ socket_write(s, wd) = [s EXCEPT !.aiofd.q = Append(@, wd)]
  <2> DEFINE a == [s.aiofd EXCEPT !.q = Append(@, wd)]
             t == [s EXCEPT !.aiofd = a]
  <2>1. socket_write(s, wd) = t
    BY <1>2 DEF Sound, SocketT
  <2>2. s \in SocketT /\ s.aiofd \in AiofdT
    BY <1>2, FieldsOf DEF Sound
  <2>3. a.on = s.aiofd.on /\ a.q = Append(s.aiofd.q, wd) /\ s.aiofd.q \in Seq(BOOLEAN)
    BY <2>2 DEF AiofdT
  <2>4. a.q \in Seq(BOOLEAN) /\ Len(a.q) <= MaxQueue
    BY <1>2, <2>3, AppendProperties, LenProperties
  <2>5. a \in AiofdT /\ a # NULL
    BY <2>2, <2>4 DEF AiofdT
  <2> HIDE DEF a
  <2>6. /\ t \in SocketT /\ t.type = s.type /\ t.fd = s.fd /\ t.aiofd = a
        /\ t.connected = s.connected /\ t.told = s.told /\ t.accepted = s.accepted /\ t.held = s.held
    BY <2>2, <2>5 DEF SocketT
  <2> HIDE DEF t
  <2>7. Sound(t)
    BY <1>2, <2>3, <2>4, <2>5, <2>6 DEF Sound
  <2> QED
    BY <2>1, <2>6, <2>7 DEF Becomes
<1> QED
  BY <1>1, <1>2 DEF socket_write

LEMMA SoundSent ==
  ASSUME NEW s, Sound(s), s.aiofd # NULL, NEW k \in Nat, k <= Len(s.aiofd.q)
  PROVE  /\ Becomes(s, Sent(s, k), s.fd) /\ Sent(s, k).fd = s.fd /\ Sent(s, k).aiofd # NULL
         /\ Sent(s, k).kern = s.kern
<1> DEFINE q == s.aiofd.q
           a == [s.aiofd EXCEPT !.q = SubSeq(q, k + 1, Len(q))]
           t == [s EXCEPT !.aiofd = a]
<1>1. Sent(s, k) = t
  BY DEF Sent, Sound, SocketT
<1>2. s \in SocketT /\ s.aiofd \in AiofdT
  BY FieldsOf DEF Sound
<1>3. a.on = s.aiofd.on /\ a.q = SubSeq(q, k + 1, Len(q)) /\ q \in Seq(BOOLEAN)
  BY <1>2 DEF AiofdT
<1> HIDE DEF q
<1>4. PICK n \in Nat : Len(q) = n
  BY <1>3, LenProperties
<1>5. \A i \in k + 1 .. n : q[i] \in BOOLEAN
  BY <1>3, <1>4, ElementOfSeq
<1>6. SubSeq(q, k + 1, n) \in Seq(BOOLEAN) /\ Len(SubSeq(q, k + 1, n)) = IF k + 1 <= n THEN n - (k + 1) + 1 ELSE 0
  <2>1. k + 1 \in Int /\ n \in Int
    OBVIOUS
  <2> QED
    BY <2>1, <1>5, SubSeqProperties
<1>7. a.q \in Seq(BOOLEAN) /\ Len(a.q) <= n
  BY <1>3, <1>4, <1>6
<1>8. a \in AiofdT /\ a # NULL /\ Len(a.q) <= MaxQueue
  <2>1. a \in AiofdT
    BY <1>2, <1>7 DEF AiofdT
  <2>2. n <= MaxQueue
    BY <1>4 DEF Sound, q
  <2>3. Len(a.q) \in Nat
    BY <1>7, LenProperties
  <2> HIDE DEF a
  <2> QED
    BY <1>7, <2>1, <2>2, <2>3
<1> HIDE DEF a
<1>9. /\ t \in SocketT /\ t.type = s.type /\ t.fd = s.fd /\ t.aiofd = a
      /\ t.connected = s.connected /\ t.told = s.told /\ t.kern = s.kern
      /\ t.accepted = s.accepted /\ t.held = s.held
  BY <1>2, <1>8 DEF SocketT
<1> HIDE DEF t
<1>10. Sound(t)
  BY <1>3, <1>8, <1>9 DEF Sound
<1> QED
  BY <1>1, <1>8, <1>9, <1>10 DEF Becomes

Answers == {"up", "connecting", "idle"}

LEMMA SoundConnecting ==
  ASSUME NEW s, Sound(s), NEW to \in Answers, NEW el \in BOOLEAN
  PROVE  Becomes(s, Connecting(s, to, el), s.fd)
<1> DEFINE k == [s EXCEPT !.kern = AfterConnect(s.kern, to)]
           w == Awaited(k, to)
           owed == s.type # "UDP"
           t == [w EXCEPT !.owed = owed]
<1>1. Connecting(s, to, el) = IF s.kern = "idle" /\ to # "idle" /\ (s.type = "UDP" \/ el) THEN t ELSE k
  BY DEF Connecting
<1>2. AfterConnect(s.kern, to) \in Kernel
  BY FieldsOf DEF AfterConnect, Answers, Kernel, Sound
<1>3. /\ k \in SocketT /\ k.type = s.type /\ k.fd = s.fd /\ k.aiofd = s.aiofd
      /\ k.connected = s.connected /\ k.told = s.told
      /\ k.accepted = s.accepted /\ k.held = s.held
  BY <1>2 DEF Sound, SocketT
<1> HIDE DEF k
<1>4. Becomes(s, k, s.fd)
  BY <1>3, SoundAlike
<1>5. Becomes(k, w, k.fd)
  BY <1>4, SoundStart DEF Awaited, Becomes
<1>6. owed \in BOOLEAN
  OBVIOUS
<1> HIDE DEF owed, w
<1>7. /\ t \in SocketT /\ t.type = w.type /\ t.fd = w.fd /\ t.aiofd = w.aiofd
      /\ t.connected = w.connected /\ t.told = w.told
      /\ t.accepted = w.accepted /\ t.held = w.held
  BY <1>5, <1>6 DEF Becomes, Sound, SocketT
<1> HIDE DEF t
<1>8. Becomes(w, t, w.fd)
  BY <1>5, <1>7, SoundAlike DEF Becomes
<1>9. Becomes(s, t, s.fd)
  BY <1>4, <1>5, <1>8 DEF Becomes
<1> QED
  BY <1>1, <1>4, <1>9

LEMMA SoundConnect ==
  ASSUME NEW s, Sound(s), NEW fd \in FDs \cup {NULL}, NEW to \in Answers, NEW el \in BOOLEAN
  PROVE  Becomes(s, socket_connect(s, fd, to, el), fd)
<1> DEFINE o == OpenIfNeeded(s, fd)
<1>1. Becomes(s, o, fd)
  BY SoundOpen
<1>2. Becomes(o, Connecting(o, to, el), o.fd)
  BY <1>1, SoundConnecting DEF Becomes
<1>3. Becomes(s, s, fd)
  BY DEF Becomes
<1> HIDE DEF o
<1>4. Becomes(s, Connecting(o, to, el), fd)
  BY <1>1, <1>2, BecomesTransitive
<1>5. socket_connect(s, fd, to, el) \in {s, o, Connecting(o, to, el)}
  BY DEF socket_connect, o
<1> QED
  BY <1>1, <1>3, <1>4, <1>5

LEMMA SoundReact ==
  ASSUME NEW s, Sound(s), NEW does
  PROVE  Becomes(s, React(s, does), s.fd)
<1>1. CASE does = "write" /\ s.aiofd # NULL /\ Len(s.aiofd.q) < MaxQueue
  BY <1>1, SoundWrite DEF React
<1>2. CASE does = "disconnect"
  BY <1>2, SoundDisconnect DEF React
<1>3. CASE does = "connect"
  <2>1. Becomes(s, socket_connect(s, NULL, "connecting", TRUE), NULL)
    BY SoundConnect DEF Answers
  <2>2. LET fd == socket_connect(s, NULL, "connecting", TRUE).fd IN fd = NULL => fd = -1
    <3>1. socket_connect(s, NULL, "connecting", TRUE).fd \in FDs \cup {-1}
      BY <2>1, FieldsOf DEF Becomes, Sound
    <3> QED
      BY <3>1
  <2> QED
    BY <1>3, <2>1, <2>2 DEF React, Becomes
<1>4. CASE React(s, does) = s
  BY <1>4 DEF Becomes
<1> QED
  BY <1>1, <1>2, <1>3, <1>4 DEF React

-----------------------------------------------------------------------------
(* The inductive invariant: the sockets are sound, and no descriptor has   *)
(* two owners or is both owned and lost.                                   *)
Owned == /\ sock \in [Socks -> SocketT \cup {NULL}] /\ leaked \in SUBSET FDs
         /\ \A i \in Socks : sock[i] # NULL => Sound(sock[i]) /\ sock[i].fd \notin leaked
         /\ \A i, j \in Socks : i # j /\ sock[i] # NULL /\ sock[j] # NULL /\ sock[i].fd # -1
                                => sock[i].fd # sock[j].fd

(* A socket_t that is new, or that a function changed, with a descriptor   *)
(* of its own or a free one.                                               *)
LEMMA OwnedBecome ==
  ASSUME Owned, NEW i \in Socks, NEW t, sock' = [sock EXCEPT ![i] = t], leaked' = leaked, Sound(t),
         \/ t.fd = -1
         \/ sock[i] # NULL /\ t.fd = sock[i].fd
         \/ t.fd \notin Taken
  PROVE  Owned'
<1>1. sock' = [sock EXCEPT ![i] = t] /\ leaked' = leaked
  OBVIOUS
<1>2. t \in SocketT /\ t # NULL
  BY DEF Sound
<1>3. sock' \in [Socks -> SocketT \cup {NULL}] /\ leaked' \in SUBSET FDs
  BY <1>1, <1>2 DEF Owned
<1>4. sock'[i] = t /\ \A j \in Socks : j # i => sock'[j] = sock[j]
  BY <1>1 DEF Owned
<1>5. t.fd \notin leaked /\ \A j \in Socks : j # i /\ sock[j] # NULL /\ t.fd # -1 => t.fd # sock[j].fd
  <2>1. -1 \notin leaked
    BY DEF Owned
  <2>2. CASE t.fd = -1
    BY <2>1, <2>2
  <2>3. CASE sock[i] # NULL /\ t.fd = sock[i].fd
    BY <2>3 DEF Owned
  <2>4. CASE t.fd \notin Taken
    <3>1. \A j \in Socks : sock[j] # NULL => sock[j].held = sock[j].fd
      BY DEF Owned, Sound
    <3> QED
      BY <2>4, <3>1 DEF Taken
  <2> QED
    BY <2>2, <2>3, <2>4
<1>6. \A j \in Socks : sock'[j] # NULL => Sound(sock'[j]) /\ sock'[j].fd \notin leaked'
  BY <1>1, <1>4, <1>5 DEF Owned
<1>7. ASSUME NEW j \in Socks, NEW k \in Socks, j # k, sock'[j] # NULL, sock'[k] # NULL, sock'[j].fd # -1
      PROVE  sock'[j].fd # sock'[k].fd
  <2>1. CASE j = i
    BY <1>4, <1>5, <1>7, <2>1
  <2>2. CASE k = i
    BY <1>4, <1>5, <1>7, <2>2
  <2>3. CASE j # i /\ k # i
    BY <1>4, <1>7, <2>3 DEF Owned
  <2> QED
    BY <2>1, <2>2, <2>3
<1> QED
  BY <1>3, <1>6, <1>7 DEF Owned

(* A socket_t goes, and its descriptor is lost or closed. *)
LEMMA OwnedGone ==
  ASSUME Owned, NEW i \in Socks, sock' = [sock EXCEPT ![i] = NULL], NEW L \in SUBSET FDs,
         \A fd \in L : (sock[i] # NULL /\ fd = sock[i].fd) \/ fd \notin Taken,
         leaked' = leaked \cup L
  PROVE  Owned'
<1>1. sock' \in [Socks -> SocketT \cup {NULL}] /\ leaked' \in SUBSET FDs
  BY DEF Owned
<1>2. sock'[i] = NULL /\ \A j \in Socks : j # i => sock'[j] = sock[j]
  BY DEF Owned
<1>3. ASSUME NEW j \in Socks, sock'[j] # NULL PROVE Sound(sock'[j]) /\ sock'[j].fd \notin leaked'
  <2>1. j # i /\ sock'[j] = sock[j] /\ sock[j] # NULL
    BY <1>2, <1>3
  <2>2. Sound(sock[j]) /\ sock[j].fd \notin leaked
    BY <2>1 DEF Owned
  <2>3. sock[j].fd \in Taken
    BY <2>1, <2>2 DEF Taken, Sound
  <2>4. sock[j].fd \notin L
    <3> SUFFICES ASSUME sock[j].fd \in L PROVE FALSE
      OBVIOUS
    <3>1. sock[i] # NULL /\ sock[j].fd = sock[i].fd
      BY <2>3
    <3>2. sock[j].fd # -1
      OBVIOUS
    <3> QED
      BY <2>1, <3>1, <3>2 DEF Owned
  <2> QED
    BY <2>1, <2>2, <2>4
<1>4. ASSUME NEW j \in Socks, NEW k \in Socks, j # k, sock'[j] # NULL, sock'[k] # NULL, sock'[j].fd # -1
      PROVE  sock'[j].fd # sock'[k].fd
  <2>1. j # i /\ k # i
    BY <1>2, <1>4
  <2> QED
    BY <1>2, <1>4, <2>1 DEF Owned
<1> QED
  BY <1>1, <1>3, <1>4 DEF Owned

LEMMA FreshFd ==
  ASSUME FDs \ Taken # {}
  PROVE  NewFd \in FDs /\ NewFd \notin Taken
<1>1. FDs \ Taken \in SUBSET Nat
  OBVIOUS
<1>2. Min(FDs \ Taken) \in FDs \ Taken
  BY <1>1, LeastFd
<1> QED
  BY <1>2 DEF NewFd

(* The client's calls. *)
LEMMA OwnedChanged ==
  ASSUME Owned, NEW i \in Socks, sock[i] # NULL, NEW t, Become(i, t),
         NEW fd, Becomes(sock[i], t, fd), fd \in {sock[i].fd, NULL} \/ fd \notin Taken
  PROVE  Owned'
<1>1. Sound(t) /\ t.fd \in {sock[i].fd, -1, fd}
  BY DEF Becomes
<1>2. t.fd = NULL => t.fd = -1
  BY <1>1, FieldsOf DEF Sound
<1> QED
  BY <1>1, <1>2, OwnedBecome DEF Become

LEMMA FreshOrNull ==
  ASSUME NEW open \in BOOLEAN, open => FDs \ Taken # {}
  PROVE  Fresh(open) \in FDs \cup {NULL} /\ (Fresh(open) = NULL \/ Fresh(open) \notin Taken)
BY FreshFd DEF Fresh

LEMMA OwnedNew ==
  ASSUME Owned, NEW i \in Socks, NEW t \in {"TCP", "UDP"}, NEW alloc \in BOOLEAN, socket_new(i, t, alloc)
  PROVE  Owned'
<1>1. CASE sock' = [sock EXCEPT ![i] = s_init(t)]
  <2>1. leaked' = leaked
    BY DEF socket_new
  <2> QED
    BY <1>1, <2>1, SoundInit, OwnedBecome
<1>2. CASE sock' = [sock EXCEPT ![i] = NULL]
  <2>1. leaked' = leaked \cup {} /\ {} \in SUBSET FDs
    BY DEF socket_new
  <2>2. \A fd \in {} : (sock[i] # NULL /\ fd = sock[i].fd) \/ fd \notin Taken
    OBVIOUS
  <2> QED
    BY <1>2, <2>1, <2>2, OwnedGone, Zenon
<1> QED
  BY <1>1, <1>2 DEF socket_new

LEMMA OwnedDelete ==
  ASSUME Owned, NEW i \in Socks, socket_delete(i)
  PROVE  Owned'
<1>1. /\ sock[i] # NULL /\ sock' = [sock EXCEPT ![i] = NULL]
      /\ leaked' = leaked \cup s_deinit(sock[i])
  BY DEF socket_delete, Live
<1>2. Becomes(sock[i], socket_disconnect(sock[i]), sock[i].fd)
  BY <1>1, SoundDisconnect DEF Owned
<1>3. s_deinit(sock[i]) \in SUBSET FDs /\ \A fd \in s_deinit(sock[i]) : fd = sock[i].fd
  BY <1>2, FieldsOf DEF Becomes, Sound, s_deinit
<1> QED
  BY <1>1, <1>3, OwnedGone

LEMMA OwnedConnect ==
  ASSUME Owned, NEW i \in Socks, NEW open \in BOOLEAN, NEW el \in BOOLEAN, NEW to \in Answers,
         Connect(i, open, to, el)
  PROVE  Owned'
<1> DEFINE t == socket_connect(sock[i], Fresh(open), to, el)
<1>1. sock[i] # NULL /\ Become(i, t) /\ (open => FDs \ Taken # {})
  BY DEF Connect, Live
<1>2. Fresh(open) \in FDs \cup {NULL} /\ (Fresh(open) = NULL \/ Fresh(open) \notin Taken)
  BY <1>1, FreshOrNull
<1>3. Becomes(sock[i], t, Fresh(open))
  BY <1>1, <1>2, SoundConnect DEF Owned
<1> HIDE DEF t
<1> QED
  BY <1>1, <1>2, <1>3, OwnedChanged

LEMMA OwnedBind ==
  ASSUME Owned, NEW i \in Socks, NEW open \in BOOLEAN, NEW ok \in BOOLEAN, socket_bind(i, open, ok)
  PROVE  Owned'
<1> DEFINE fd == Fresh(open)
           s == OpenIfNeeded(sock[i], fd)
           bound == [s EXCEPT !.bound = TRUE]
<1>1. /\ sock[i] # NULL /\ (open => FDs \ Taken # {})
      /\ Become(i, CASE s.aiofd = NULL -> s
                     [] s.aiofd # NULL /\ ok /\ s.kern = "idle" -> bound
                     [] OTHER -> s_close(s).s)
  BY DEF socket_bind, Live
<1>2. fd \in FDs \cup {NULL} /\ (fd = NULL \/ fd \notin Taken)
  BY <1>1, FreshOrNull
<1>3. Becomes(sock[i], s, fd)
  BY <1>1, <1>2, SoundOpen DEF Owned
<1> HIDE DEF fd, s
<1>4. Sound(s) /\ s \in SocketT
  BY <1>3 DEF Becomes, Sound
<1>5. /\ bound \in SocketT /\ bound.type = s.type /\ bound.fd = s.fd /\ bound.aiofd = s.aiofd
      /\ bound.connected = s.connected /\ bound.told = s.told
      /\ bound.accepted = s.accepted /\ bound.held = s.held
  BY <1>4 DEF SocketT
<1> HIDE DEF bound
<1>6. Becomes(s, bound, s.fd)
  BY <1>4, <1>5, SoundAlike
<1>7. Becomes(sock[i], bound, fd)
  BY <1>3, <1>6, BecomesTransitive
<1>8. Becomes(sock[i], s_close(s).s, fd)
  BY <1>3, <1>4, SoundClose, BecomesTransitive
<1>9. PICK t \in {s, bound, s_close(s).s} : Become(i, t)
  BY <1>1
<1>10. Becomes(sock[i], t, fd)
  BY <1>3, <1>7, <1>8
<1> QED
  BY <1>1, <1>2, <1>9, <1>10, OwnedChanged

LEMMA OwnedListen ==
  ASSUME Owned, NEW i \in Socks, NEW ok \in BOOLEAN, socket_listen(i, ok)
  PROVE  Owned'
<1> DEFINE s == sock[i]
           on == Start(s, "r")
           up == [on EXCEPT !.listening = TRUE, !.kern = "listening"]
<1>1. /\ s # NULL /\ s.type # "UDP"
      /\ Become(i, IF ok /\ s.kern \in {"idle", "listening"} THEN up ELSE Stop(s, "r"))
  BY DEF socket_listen, Live
<1>2. Sound(s)
  BY <1>1 DEF Owned
<1> HIDE DEF s
<1>3. Becomes(s, on, s.fd) /\ Becomes(s, Stop(s, "r"), s.fd)
  BY <1>1, <1>2, SoundStart, SoundStop
<1> HIDE DEF on
<1>4. on \in SocketT /\ Sound(on)
  BY <1>3 DEF Becomes, Sound
<1>5. /\ up \in SocketT /\ up.type = on.type /\ up.fd = on.fd /\ up.aiofd = on.aiofd
      /\ up.connected = on.connected /\ up.told = on.told
      /\ up.accepted = on.accepted /\ up.held = on.held
  BY <1>4 DEF SocketT, Kernel
<1> HIDE DEF up
<1>6. Becomes(on, up, on.fd)
  BY <1>4, <1>5, SoundAlike
<1>7. Becomes(s, up, s.fd)
  BY <1>3, <1>6, BecomesTransitive
<1>8. PICK t \in {up, Stop(s, "r")} : Become(i, t)
  BY <1>1
<1>9. Becomes(sock[i], t, sock[i].fd) /\ sock[i] # NULL
  BY <1>1, <1>3, <1>7, <1>8 DEF s
<1> QED
  BY <1>8, <1>9, OwnedChanged

LEMMA OwnedAccept ==
  ASSUME Owned, NEW i \in Socks, NEW c \in Socks, NEW fail, socket_accept(i, c, fail)
  PROVE  Owned'
<1> DEFINE new  == [s_init(sock[i].type) EXCEPT !.fd = NewFd, !.held = NewFd, !.kern = "up"]
           open == s_open(new, NewFd)
           on   == Start(open, "r")
           done == [on EXCEPT !.connected = TRUE, !.accepted = TRUE]
           made == InitReturns /\ fail \notin {"init", "accept"}
           left == s_deinit(IF fail = "open" THEN s_open(new, NULL) ELSE new)
<1>1. /\ sock[i] # NULL /\ sock[c] = NULL /\ sock[i].type # "UDP"
      /\ made => FDs \ Taken # {}
      /\ sock' = [sock EXCEPT ![c] = IF made /\ fail = "none" THEN done ELSE NULL]
      /\ leaked' = IF made /\ fail # "none" THEN leaked \cup left ELSE leaked
  BY DEF socket_accept, Live
<1>2. sock[i].type = "TCP"
  BY <1>1, FieldsOf DEF Owned, Sound
<1>3. CASE made /\ fail = "none"
  <2>1. NewFd \in FDs /\ NewFd \notin Taken /\ NewFd # NULL /\ NewFd # -1
    BY <1>1, <1>3, FreshFd
  <2>2. /\ new.type = "TCP" /\ new.fd = NewFd /\ new.aiofd = NULL /\ new \in SocketT
        /\ new.connected = FALSE /\ new.told = "none" /\ new.accepted = FALSE /\ new.held = NewFd
    BY <1>2, <2>1 DEF s_init, SocketT, Kernel
  <2> HIDE DEF new
  <2>3. open = [new EXCEPT !.aiofd = NewAiofd]
    BY <2>1, <2>2 DEF s_open, s_open_tcp
  <2>4. /\ open \in SocketT /\ open.type = "TCP" /\ open.fd = NewFd /\ open.aiofd = NewAiofd
        /\ open.connected = FALSE /\ open.told = "none" /\ open.accepted = FALSE /\ open.held = NewFd
    <3>1. NewAiofd \in AiofdT
      BY DEF NewAiofd, AiofdT
    <3> HIDE DEF NewAiofd, open
    <3> QED
      BY <2>1, <2>2, <2>3, <3>1 DEF SocketT
  <2> HIDE DEF open
  <2>5. Sound(open)
    <3>1. NewAiofd \in AiofdT /\ NewAiofd.q = <<>> /\ Len(<<>>) = 0
      BY DEF NewAiofd, AiofdT
    <3>2. Len(open.aiofd.q) <= MaxQueue /\ open.aiofd # NULL
      BY <2>4, <3>1
    <3> QED
      BY <2>1, <2>4, <3>2 DEF Sound
  <2>6. Becomes(open, on, open.fd) /\ on.fd = NewFd /\ on.aiofd # NULL /\ on.told = "none"
    <3>1. Becomes(open, on, open.fd)
      BY <2>4, <2>5, SoundStart
    <3>2. on.aiofd # NULL
      <4>1. open.aiofd \in AiofdT /\ open.aiofd # NULL
        <5>1. open.aiofd \in AiofdT
          BY <2>4 DEF NewAiofd, AiofdT
        <5> QED
          BY <5>1
      <4>2. [open.aiofd EXCEPT !.on = @ \cup {"r"}] \in AiofdT
        BY <4>1 DEF AiofdT
      <4>3. on.aiofd = [open.aiofd EXCEPT !.on = @ \cup {"r"}]
        BY <2>4, <4>1 DEF Start, SocketT
      <4> QED
        BY <4>2, <4>3
    <3> QED
      <4>1. on.told = "none"
        BY <2>4 DEF Start, SocketT
      <4> QED
        BY <2>1, <2>4, <3>1, <3>2, <4>1 DEF Becomes, Sound
  <2> HIDE DEF on
  <2>7. /\ done \in SocketT /\ done.type = "TCP" /\ done.fd = NewFd /\ done.aiofd = on.aiofd
        /\ done.connected = TRUE /\ done.told = "none" /\ done.accepted = TRUE /\ done.held = NewFd
    BY <2>4, <2>6 DEF Becomes, Sound, SocketT
  <2> HIDE DEF done
  <2>8. Sound(done)
    BY <2>1, <2>6, <2>7 DEF Becomes, Sound
  <2> QED
    BY <1>1, <1>3, <2>1, <2>7, <2>8, OwnedBecome
<1>4. CASE made /\ fail # "none"
  <2>1. NewFd \in FDs /\ NewFd \notin Taken
    BY <1>1, <1>4, FreshFd
  <2>2. left \subseteq {NewFd}
    <3> DEFINE s == IF fail = "open" THEN s_open(new, NULL) ELSE new
    <3>1. s.held \in {NewFd, -1} /\ s.aiofd = NULL /\ s \in SocketT
      <4>1. new.held = NewFd /\ new.fd = NewFd /\ new.aiofd = NULL /\ new \in SocketT
        BY <1>2, <2>1 DEF s_init, SocketT, Kernel
      <4> HIDE DEF new
      <4>2. s_open(new, NULL) = [new EXCEPT !.held = -1, !.fd = -1]
        BY <4>1 DEF s_open, Close, SocketT
      <4> QED
        BY <4>1, <4>2 DEF SocketT
    <3> HIDE DEF s
    <3>2. ~ s_close(s).ok /\ s_close(s).s.held = s.held
      <4>1. s_close(s).ok = (On(s, "w") /\ On(s, "r"))
        BY DEF s_close
      <4>2. ~On(s, "w")
        BY <3>1 DEF On
      <4>3. s_close(s).s = Stop([s EXCEPT !.kern = "idle", !.owed = FALSE], "w")
        BY <4>2 DEF s_close
      <4>4. LET t == [s EXCEPT !.kern = "idle", !.owed = FALSE] IN t.aiofd = NULL /\ t.held = s.held
        BY <3>1 DEF SocketT
      <4> QED
        BY <4>1, <4>2, <4>3, <4>4 DEF Stop
    <3>3. socket_disconnect(s).held = s.held
      BY <3>2 DEF socket_disconnect
    <3> QED
      BY <3>1, <3>3 DEF s_deinit, s
  <2> HIDE DEF left
  <2>3. left \in SUBSET FDs /\ \A fd \in left : fd \notin Taken
    BY <2>1, <2>2
  <2> QED
    BY <1>1, <1>4, <2>3, OwnedGone
<1>5. CASE ~made
  <2>1. {} \in SUBSET FDs /\ \A fd \in {} : (sock[c] # NULL /\ fd = sock[c].fd) \/ fd \notin Taken
    OBVIOUS
  <2>2. sock' = [sock EXCEPT ![c] = NULL] /\ leaked' = leaked \cup {}
    BY <1>1, <1>5
  <2> QED
    BY <2>1, <2>2, OwnedGone, Zenon
<1> QED
  BY <1>3, <1>4, <1>5

(* An event: the handler ends with t, or the process does. *)
LEMMA OwnedHandled ==
  ASSUME Owned, NEW i \in Socks, sock[i] # NULL, NEW t, Becomes(sock[i], t, sock[i].fd), Handled(i, t)
  PROVE  Owned'
<1>1. CASE Become(i, t)
  BY <1>1, OwnedChanged
<1>2. CASE sock' = [j \in Socks |-> NULL] /\ leaked' = {}
  BY <1>2 DEF Owned
<1> QED
  BY <1>1, <1>2 DEF Handled

LEMMA ReadyOpen ==
  ASSUME Owned, NEW i \in Socks, Ready(i)
  PROVE  /\ sock[i] # NULL /\ Sound(sock[i]) /\ sock[i].aiofd # NULL /\ sock[i].type # "UDP"
         /\ Len(sock[i].aiofd.q) \in Nat
<1>1. sock[i] # NULL /\ Sound(sock[i]) /\ sock[i].aiofd # NULL /\ sock[i].type # "UDP"
  BY DEF Ready, Live, On, Owned, Sound
<1>2. sock[i].aiofd \in AiofdT
  BY <1>1, FieldsOf DEF Sound
<1>3. sock[i].aiofd.q \in Seq(BOOLEAN)
  BY <1>2 DEF AiofdT
<1> QED
  BY <1>1, <1>3, LenProperties

LEMMA OwnedRead ==
  ASSUME Owned, NEW i \in Socks,
         \/ \E refuse \in BOOLEAN : Incoming(i, refuse)
         \/ PeerGone(i)
         \/ \E does \in Reactions : Readable(i, does)
  PROVE  Owned'
<1> DEFINE s == sock[i]
           m == Misread(s)
<1>1. Ready(i)
  BY DEF Incoming, PeerGone, Readable
<1>2. s # NULL /\ Sound(s)
  BY <1>1, ReadyOpen
<1>3. Becomes(s, m, s.fd)
  <2>1. /\ m \in SocketT /\ m.type = s.type /\ m.fd = s.fd /\ m.aiofd = s.aiofd
        /\ m.connected = s.connected /\ m.told = s.told
        /\ m.accepted = s.accepted /\ m.held = s.held
    BY <1>2 DEF Misread, Sound, SocketT
  <2> QED
    BY <1>2, <2>1, SoundAlike
<1> HIDE DEF s, m
<1>4. Sound(m)
  BY <1>3 DEF Becomes
<1>5. CASE \E refuse \in BOOLEAN : Incoming(i, refuse)
  <2>1. PICK t \in {m, Stop(m, "r")} : Handled(i, t)
    BY <1>5 DEF Incoming, s, m
  <2>2. Becomes(s, t, s.fd)
    BY <1>3, <1>4, SoundStop, BecomesTransitive
  <2> QED
    BY <1>2, <2>1, <2>2, OwnedHandled DEF s
<1>6. CASE PeerGone(i)
  <2> DEFINE d == socket_disconnect(s)
  <2>1. Handled(i, Stop(d, "r"))
    BY <1>6 DEF PeerGone, s
  <2>2. Becomes(s, d, s.fd)
    BY <1>2, SoundDisconnect
  <2>3. Becomes(d, Stop(d, "r"), d.fd)
    BY <2>2, SoundStop DEF Becomes
  <2> HIDE DEF d
  <2>4. Becomes(s, Stop(d, "r"), s.fd)
    BY <2>2, <2>3, BecomesTransitive
  <2> QED
    BY <1>2, <2>1, <2>4, OwnedHandled DEF s
<1>7. CASE \E does \in Reactions : Readable(i, does)
  <2>1. PICK does : Handled(i, React(m, does))
    BY <1>7 DEF Readable, s, m
  <2>2. Becomes(s, React(m, does), s.fd)
    BY <1>3, <1>4, SoundReact, BecomesTransitive
  <2> QED
    BY <1>2, <2>1, <2>2, OwnedHandled DEF s
<1> QED
  BY <1>5, <1>6, <1>7

LEMMA OwnedWriteEvent ==
  ASSUME Owned, NEW i \in Socks, WriteEvent(i)
  PROVE  Owned'
<1> DEFINE s == sock[i]
           n == Len(s.aiofd.q)
           e == Sent(s, n)
<1>1. Ready(i)
  BY DEF WriteEvent, Drained, ConnectDone, ConnectFailed, WriteStops
<1>2. s # NULL /\ Sound(s) /\ s.aiofd # NULL /\ s.type # "UDP" /\ n \in Nat
  BY <1>1, ReadyOpen
<1>3. \A k \in Nat : k <= n => Becomes(s, Sent(s, k), s.fd)
  BY <1>2, SoundSent
<1>4. Becomes(s, e, s.fd) /\ Sound(e) /\ e \in SocketT /\ e.type # "UDP" /\ e.type = s.type
      /\ e.aiofd # NULL /\ e.fd = s.fd
  <2>1. Becomes(s, e, s.fd) /\ e.fd = s.fd /\ e.aiofd # NULL
    BY <1>2, SoundSent
  <2> QED
    BY <1>2, <2>1 DEF Becomes, Sound
<1>5. CASE Drained(i)
  <2>1. Handled(i, Stop(e, "w"))
    BY <1>5 DEF Drained
  <2> HIDE DEF s, n, e
  <2>2. Becomes(s, Stop(e, "w"), s.fd)
    BY <1>4, SoundStop, BecomesTransitive
  <2> QED
    BY <1>2, <2>1, <2>2, OwnedHandled DEF s
<1>6. ASSUME NEW does, ConnectDone(i, does) PROVE Owned'
  <2> DEFINE up == [e EXCEPT !.connected = TRUE, !.told = "conn", !.owed = FALSE]
             r == React(up, does)
  <2>1. Handled(i, Start(r, "r"))
    BY <1>6 DEF ConnectDone
  <2> HIDE DEF s, n, e
  <2>2. /\ up \in SocketT /\ up.type = s.type /\ up.fd = e.fd /\ up.aiofd = e.aiofd
        /\ up.connected = TRUE /\ up.told = "conn" /\ up.accepted = e.accepted /\ up.held = e.held
    BY <1>4 DEF SocketT
  <2> HIDE DEF up
  <2>3. Becomes(s, up, s.fd)
    BY <1>2, <1>4, <2>2 DEF Becomes, Sound
  <2>4. Becomes(up, r, up.fd)
    BY <2>3, SoundReact DEF Becomes
  <2> HIDE DEF r
  <2>5. Becomes(r, Start(r, "r"), r.fd)
    BY <1>2, <2>2, <2>4, SoundStart DEF Becomes
  <2>6. Becomes(s, Start(r, "r"), s.fd)
    BY <2>3, <2>4, <2>5, BecomesTransitive
  <2> QED
    BY <1>2, <2>1, <2>6, OwnedHandled DEF s
<1>7. ASSUME NEW does, ConnectFailed(i, does) PROVE Owned'
  <2> DEFINE kern == IF e.kern = "failed" THEN "idle" ELSE e.kern
             told == [e EXCEPT !.kern = kern, !.owed = FALSE]
             r == React(told, does)
  <2>1. Handled(i, Stop(r, "w"))
    BY <1>7 DEF ConnectFailed
  <2> HIDE DEF s, n, e
  <2>2. kern \in Kernel
    BY <1>4, FieldsOf DEF Kernel
  <2> HIDE DEF kern
  <2>3. /\ told \in SocketT /\ told.type = e.type /\ told.fd = e.fd /\ told.aiofd = e.aiofd
        /\ told.connected = e.connected /\ told.told = e.told
        /\ told.accepted = e.accepted /\ told.held = e.held
    BY <1>4, <2>2 DEF SocketT
  <2> HIDE DEF told
  <2>4. Becomes(s, told, s.fd)
    BY <1>4, <2>3, SoundAlike, BecomesTransitive
  <2>5. Becomes(told, r, told.fd)
    BY <2>4, SoundReact DEF Becomes
  <2> HIDE DEF r
  <2>6. Becomes(r, Stop(r, "w"), r.fd)
    BY <2>5, SoundStop DEF Becomes
  <2>7. Becomes(s, Stop(r, "w"), s.fd)
    BY <2>4, <2>5, <2>6, BecomesTransitive
  <2> QED
    BY <1>2, <2>1, <2>7, OwnedHandled DEF s
<1>8. ASSUME NEW k \in 0 .. MaxQueue - 1, NEW does, WriteStops(i, k, does) PROVE Owned'
  <2> DEFINE t == Sent(s, k)
  <2>1. k < n /\ Handled(i, React(t, does)) /\ k \in Nat
    BY <1>8 DEF WriteStops
  <2>2. Becomes(s, t, s.fd)
    BY <1>2, <1>3, <2>1
  <2> HIDE DEF s, n, t
  <2>3. Becomes(s, React(t, does), s.fd)
    <3>1. Becomes(t, React(t, does), t.fd)
      BY <2>2, SoundReact DEF Becomes
    <3> QED
      BY <2>2, <3>1, BecomesTransitive
  <2> QED
    BY <1>2, <2>1, <2>3, OwnedHandled DEF s
<1> QED
  BY <1>5, <1>6, <1>7, <1>8 DEF WriteEvent

LEMMA OwnedCalls ==
  ASSUME Owned, NEW i \in Socks,
         \/ Disconnect(i)
         \/ \E wd \in BOOLEAN : Write(i, wd)
         \/ \E from \in BOOLEAN, does \in Reactions : socket_read(i, from, does)
         \/ \E ok \in BOOLEAN : ConnectEnds(i, ok)
  PROVE  Owned'
<1> DEFINE s == sock[i]
<1>1. s # NULL
  BY DEF Disconnect, Write, socket_read, ConnectEnds, Live
<1>2. Sound(s)
  BY <1>1 DEF Owned
<1> HIDE DEF s
<1>3. CASE Disconnect(i)
  BY <1>1, <1>2, <1>3, SoundDisconnect, OwnedChanged DEF Disconnect, s
<1>4. CASE \E wd \in BOOLEAN : Write(i, wd)
  BY <1>1, <1>2, <1>4, SoundWrite, OwnedChanged DEF Write, s
<1>5. CASE \E from \in BOOLEAN, does \in Reactions : socket_read(i, from, does)
  BY <1>1, <1>2, <1>5, SoundReact, OwnedChanged DEF socket_read, s
<1>6. CASE \E ok \in BOOLEAN : ConnectEnds(i, ok)
  <2>1. PICK kern \in {"up", "failed"} : Become(i, [s EXCEPT !.kern = kern])
    BY <1>6 DEF ConnectEnds, s
  <2> DEFINE t == [s EXCEPT !.kern = kern]
  <2>2. /\ t \in SocketT /\ t.type = s.type /\ t.fd = s.fd /\ t.aiofd = s.aiofd
        /\ t.connected = s.connected /\ t.told = s.told /\ t.accepted = s.accepted
        /\ t.held = s.held
    BY <1>2 DEF Sound, SocketT, Kernel
  <2> HIDE DEF t
  <2>3. Becomes(s, t, s.fd)
    BY <1>2, <2>2, SoundAlike
  <2> QED
    BY <1>1, <2>1, <2>3, OwnedChanged DEF s, t
<1> QED
  BY <1>3, <1>4, <1>5, <1>6

LEMMA OwnedInvariant == Spec => []Owned
<1>1. Init => Owned
  BY DEF Init, Owned
<1>2. ASSUME Owned, [Next]_vars PROVE Owned'
  <2>1. CASE UNCHANGED vars
    BY <1>2, <2>1 DEF Owned, vars
  <2>2. ASSUME NEW i \in Socks,
               \/ \E t \in {"TCP", "UDP"}, alloc \in BOOLEAN : socket_new(i, t, alloc)
               \/ socket_delete(i)
               \/ \E c \in Socks, fail \in {"init", "accept", "host", "open", "none"} : socket_accept(i, c, fail)
        PROVE  Owned'
    BY <1>2, <2>2, OwnedNew, OwnedDelete, OwnedAccept
  <2>3. ASSUME NEW i \in Socks,
               \/ \E open, el \in BOOLEAN, to \in Answers : Connect(i, open, to, el)
               \/ \E open, ok \in BOOLEAN : socket_bind(i, open, ok)
               \/ \E ok \in BOOLEAN : socket_listen(i, ok)
        PROVE  Owned'
    BY <1>2, <2>3, OwnedConnect, OwnedBind, OwnedListen
  <2> QED
    BY <1>2, <2>1, <2>2, <2>3, OwnedCalls, OwnedRead, OwnedWriteEvent DEF Next, Answers
<1> QED
  BY <1>1, <1>2, PTL DEF Spec

(* Every socket_t has fields of their types, its queue keeps its bound,    *)
(* and no event of a UDP socket is ever started.                           *)
THEOREM TypeCorrect == Spec => []TypeOK
<1>1. Owned => TypeOK
  BY DEF Owned, Sound, TypeOK, Sockets, On
<1> QED
  BY <1>1, OwnedInvariant, PTL

(* After any sequence of calls and events, opens that failed and closes    *)
(* that stopped half way among them, a socket_t has a descriptor exactly   *)
(* while it has an aiofd, no two have the same one, and none that was lost *)
(* to the process is in use: it is the one the kernel has open for it.     *)
THEOREM DescriptorsOwned == Spec => []FdOwned
<1>1. Owned => FdOwned
  BY DEF Owned, Sound, FdOwned
<1> QED
  BY <1>1, OwnedInvariant, PTL

(* The connected flag of a socket_t and what its callbacks last told the   *)
(* client agree, whatever the client calls from inside a callback, except  *)
(* for a socket from accept, which is connected untold until it has been   *)
(* disconnected once.                                                      *)
THEOREM ClientKnows == Spec => []CallbacksMatch
<1>1. Owned => CallbacksMatch
  BY DEF Owned, Sound, CallbacksMatch, Sockets
<1> QED
  BY <1>1, OwnedInvariant, PTL
=============================================================================
