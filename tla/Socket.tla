------------------------------- MODULE Socket -------------------------------
(***************************************************************************)
(* The sockets of src/socket.c: socket_t's that open and close their       *)
(* descriptor, and what becomes of the events of their aiofd, which the    *)
(* event loop turns into the callbacks of the client.                      *)
(*                                                                         *)
(* "TCP" stands for the connection based sockets, SOCKET_UNIX too: the two *)
(* differ in how an address is made.  Each call of the client and each     *)
(* event is one action, a callback with the call that the client makes in  *)
(* it included.  evt_cb hands any type at all to aiofd_io_evt (see Aiofd), *)
(* so a started event of either kind may reach either of the two handlers. *)
(***************************************************************************)
EXTENDS Integers, Sequences, FiniteSets, FiniteSetsExt

CONSTANTS Socks,       \* names for socket_t's
          FDs,         \* the descriptors the process can have
          Reactions,   \* the calls a client makes in a callback
          InitReturns, \* does s_init return before its error labels?  The code
                       \* as it is does not
          BindsConnected, \* may a client bind a socket that is connected or has
                          \* asked to be?
          Udp,         \* bound: those that may be UDP sockets, and the only ones
                       \* that are written to with a destination
          Bindable,    \* bound: those that may be bound
          MaxQueue,    \* bound: buffers queued in one aiofd
          NULL

ASSUME SocketsAssumption ==
  /\ FDs \subseteq Nat /\ Udp \subseteq Socks /\ Bindable \subseteq Socks
  /\ InitReturns \in BOOLEAN /\ BindsConnected \in BOOLEAN /\ MaxQueue \in Nat
  /\ Reactions \subseteq {"nothing", "write", "disconnect", "connect"}

(* A socket_t, and the aiofd_t it has while it is open. *)
AiofdT  == [on : SUBSET {"w", "r"}, q : Seq(BOOLEAN)]
Kernel  == {"idle", "connecting", "up", "failed", "listening"}
SocketT == [type : {"TCP", "UDP"}, fd : FDs \cup {-1}, connected : BOOLEAN, bound : BOOLEAN,
            listening : BOOLEAN, aiofd : AiofdT \cup {NULL}, kern : Kernel,
            told : {"none", "conn", "disc"}, owed : BOOLEAN, accepted : BOOLEAN,
            held : FDs \cup {-1}]

ASSUME NullAssumption == NULL \notin AiofdT /\ NULL \notin SocketT /\ NULL \notin FDs

VARIABLES sock,        \* the socket_t's
          leaked,      \* the open descriptors that no socket_t has any more
          crashed      \* did the use of freed memory end the process?

vars == <<sock, leaked, crashed>>

Init == sock = [i \in Socks |-> NULL] /\ leaked = {} /\ crashed = FALSE

(* A socket_t after s_init.  held is the descriptor the kernel has open    *)
(* for it, whatever the field fd says, and kern what the kernel knows of   *)
(* that one; told is the last connect or disconnect callback about this    *)
(* socket, owed says that a connect is still to be answered by one, and    *)
(* accepted that it came from accept.  Bounds: the eight cb_add's here,    *)
(* which nobody checks, succeed, as does the one of aiofd_new (see Aiofd). *)
s_init(t) ==
  [type |-> t, fd |-> -1, connected |-> FALSE, bound |-> FALSE, listening |-> FALSE,
   aiofd |-> NULL, kern |-> "idle", told |-> "none", owed |-> FALSE, accepted |-> FALSE,
   held |-> -1]

(* aiofd_new: both events, "w" and "r", stopped, nothing queued.  An entry *)
(* of q says whether the buffer has a destination of its own.              *)
NewAiofd == [on |-> {}, q |-> <<>>]

On(s, evt)    == s.aiofd # NULL /\ evt \in s.aiofd.on
Start(s, evt) == IF s.aiofd = NULL THEN s ELSE [s EXCEPT !.aiofd.on = @ \cup {evt}]
Stop(s, evt)  == IF s.aiofd = NULL THEN s ELSE [s EXCEPT !.aiofd.on = @ \ {evt}]

Live(i) == ~crashed /\ sock[i] # NULL

(* The descriptors that are open. *)
Taken == leaked \cup {sock[i].held : i \in {j \in Socks : sock[j] # NULL}}

(* socket() and accept() answer the lowest descriptor that is free. *)
NewFd == Min(FDs \ Taken)

IsConnected(s) == s.fd >= 0 /\ s.connected
IsBound(s)     == s.fd >= 0 /\ s.bound

-----------------------------------------------------------------------------
(* A connection based socket that came from accept has its descriptor. *)
s_open_tcp(s, fd) ==
  IF s.fd = -1 THEN [s EXCEPT !.fd = fd, !.held = fd, !.aiofd = NewAiofd]
               ELSE [s EXCEPT !.aiofd = NewAiofd]

s_open_udp(s, fd) == [s EXCEPT !.fd = fd, !.held = fd, !.aiofd = NewAiofd]

(* close(2): the number is free again if it was that of this socket. *)
Close(s) == [s EXCEPT !.held = IF @ = s.fd THEN -1 ELSE @]

(* fd is NULL if a step of it fails, which closes the descriptor, even one *)
(* that came from accept.                                                  *)
s_open(s, fd) ==
  CASE fd = NULL -> [Close(s) EXCEPT !.fd = -1]
    [] fd # NULL /\ s.type = "UDP" -> s_open_udp(s, fd)
    [] OTHER -> s_open_tcp(s, fd)

OpenIfNeeded(s, fd) == IF s.aiofd = NULL THEN s_open(s, fd) ELSE s

(* Mutant of Closed: the number of the descriptor stays. *)
Closed_KeepsFd(s) == [Close(s) EXCEPT !.aiofd = NULL]

Closed(s) == [Close(s) EXCEPT !.aiofd = NULL, !.fd = -1]

(* s_close.  The shutdown comes first.  Stopping an event that is not      *)
(* started fails, and the function returns there.                          *)
s_close(s) ==
  LET shut == [s EXCEPT !.kern = "idle", !.owed = FALSE]
      all  == On(s, "w") /\ On(s, "r")
  IN  [ok |-> all, s |-> IF all THEN Closed(shut) ELSE Stop(shut, "w")]

(* Mutant of socket_disconnect: the flag is cleared before the close. *)
socket_disconnect_Early(s) ==
  LET c == s_close([s EXCEPT !.connected = FALSE])
  IN  IF c.ok /\ s.type # "UDP" THEN [c.s EXCEPT !.told = "disc"] ELSE c.s

(* The disconnect callback comes last. *)
socket_disconnect(s) ==
  LET c == s_close(s)
  IN  IF c.ok THEN [c.s EXCEPT !.connected = FALSE, !.told = IF s.type # "UDP" THEN "disc" ELSE @]
              ELSE c.s

(* connect(2) answers at once (to is "up"), is in progress or fails (to is *)
(* "idle").  It fails for a socket that is connecting, connected or        *)
(* listening; and after a connect that failed it tells and clears the      *)
(* error.                                                                  *)
AfterConnect(kern, to) == CASE kern = "idle" -> to [] kern = "failed" -> "idle" [] OTHER -> kern

(* Mutant of Awaited: the event of a UDP socket is started too. *)
Awaited_Udp(s, to) == Start(s, "w")

(* Mutant of Awaited: a connection made at once is not waited for. *)
Awaited_NotAtOnce(s, to) == IF to = "up" \/ s.type = "UDP" THEN s ELSE Start(s, "w")

(* Write events catch the end of a connect. *)
Awaited(s, to) == IF s.type # "UDP" THEN Start(s, "w") ELSE s

(* socket_connect once the socket is open.  The connect is made before the *)
(* event loop is looked at.                                                *)
Connecting(s, to, el) ==
  LET k == [s EXCEPT !.kern = AfterConnect(@, to)]
  IN  IF s.kern = "idle" /\ to # "idle" /\ (s.type = "UDP" \/ el)
        THEN [Awaited(k, to) EXCEPT !.owed = s.type # "UDP"]
        ELSE k

socket_connect(s, fd, to, el) ==
  LET o == OpenIfNeeded(s, fd)
  IN  CASE IsConnected(s) -> s
        [] ~IsConnected(s) /\ o.aiofd = NULL -> o
        [] OTHER -> Connecting(o, to, el)

(* socket_write and socket_writev, which a UDP socket refuses unless it is *)
(* connected, and the two that take a destination (wd).                    *)
socket_write(s, wd) ==
  IF \/ s.type = "UDP" /\ ~wd /\ ~IsConnected(s)
     \/ s.aiofd = NULL
    THEN s
    ELSE [s EXCEPT !.aiofd.q = Append(@, wd)]

(* The call a client makes in a callback, other than the disconnect        *)
(* callback.  Bounds: it does not delete the socket there.                 *)
React(s, does) ==
  CASE does = "write" /\ s.aiofd # NULL /\ Len(s.aiofd.q) < MaxQueue -> socket_write(s, FALSE)
    [] does = "disconnect" -> socket_disconnect(s)
    [] does = "connect"    -> socket_connect(s, NULL, "connecting", TRUE)
    [] OTHER               -> s

-----------------------------------------------------------------------------
(* The client's calls, outside of callbacks.  Without the return that      *)
(* s_init lacks, socket_new never answers a socket.                        *)
socket_new(i, t, alloc) ==
  /\ ~crashed /\ sock[i] = NULL /\ (t = "UDP" => i \in Udp)
  /\ sock' = [sock EXCEPT ![i] = IF alloc /\ InitReturns THEN s_init(t) ELSE NULL]
  /\ UNCHANGED <<leaked, crashed>>

Become(i, s) == sock' = [sock EXCEPT ![i] = s] /\ UNCHANGED <<leaked, crashed>>

(* s_deinit disconnects and deletes the aiofd, but a descriptor that the   *)
(* disconnecting left open stays open: that one is answered.               *)
s_deinit(s) == {socket_disconnect(s).held} \ {-1}

socket_delete(i) ==
  /\ Live(i)
  /\ sock' = [sock EXCEPT ![i] = NULL]
  /\ leaked' = leaked \cup s_deinit(sock[i])
  /\ UNCHANGED crashed

(* What s_open is to use: NULL if it fails. *)
Fresh(open) == IF open THEN NewFd ELSE NULL

Connect(i, open, to, el) ==
  /\ Live(i)
  /\ open => FDs \ Taken # {}
  /\ Become(i, socket_connect(sock[i], Fresh(open), to, el))

Disconnect(i) == Live(i) /\ Become(i, socket_disconnect(sock[i]))

(* socket_bind.  setsockopt or bind may fail, and bind does for a socket   *)
(* that is not idle; what s_close then answers is not looked at.           *)
socket_bind(i, open, ok) ==
  LET s == OpenIfNeeded(sock[i], Fresh(open))
  IN  /\ Live(i) /\ i \in Bindable
      /\ ~IsBound(sock[i])
      /\ BindsConnected \/ (sock[i].kern = "idle" /\ ~sock[i].connected)
      /\ open => FDs \ Taken # {}
      /\ Become(i, CASE s.aiofd = NULL -> s
                     [] s.aiofd # NULL /\ ok /\ s.kern = "idle" -> [s EXCEPT !.bound = TRUE]
                     [] OTHER -> s_close(s).s)

(* socket_listen.  The read event is started first, and stopped if         *)
(* listen(2) fails, as it does for a socket that is not idle.              *)
socket_listen(i, ok) ==
  LET s == sock[i]
  IN  /\ Live(i)
      /\ IsBound(s) /\ ~IsConnected(s) /\ s.aiofd # NULL /\ s.type # "UDP"
      /\ Become(i, IF ok /\ s.kern \in {"idle", "listening"}
                     THEN [Start(s, "r") EXCEPT !.listening = TRUE, !.kern = "listening"]
                     ELSE Stop(s, "r"))

(* socket_accept.  fail is the step that fails: after the one that copies  *)
(* the name of the host the descriptor stays open, for s_deinit cannot     *)
(* close it.  No callback is called for the new socket.                    *)
socket_accept(i, c, fail) ==
  LET new  == [s_init(sock[i].type) EXCEPT !.fd = NewFd, !.held = NewFd, !.kern = "up"]
      done == [Start(s_open(new, NewFd), "r") EXCEPT !.connected = TRUE, !.accepted = TRUE]
      made == InitReturns /\ fail \notin {"init", "accept"}
  IN  /\ Live(i) /\ sock[c] = NULL
      /\ IsBound(sock[i]) /\ sock[i].type # "UDP"
      /\ made => sock[i].kern = "listening" /\ FDs \ Taken # {}
      /\ sock' = [sock EXCEPT ![c] = IF made /\ fail = "none" THEN done ELSE NULL]
      /\ leaked' = IF made /\ fail # "none"
                     THEN leaked \cup s_deinit(IF fail = "open" THEN s_open(new, NULL) ELSE new)
                     ELSE leaked
      /\ UNCHANGED crashed

Write(i, wd) ==
  /\ Live(i) /\ (wd => i \in Udp)
  /\ sock[i].aiofd # NULL => Len(sock[i].aiofd.q) < MaxQueue
  /\ Become(i, socket_write(sock[i], wd))

(* socket_read and the other three, when there is nothing to read or an    *)
(* error: aiofd_read calls the error callback.  Bytes change nothing here. *)
socket_read(i, from, does) ==
  /\ Live(i) /\ sock[i].aiofd # NULL
  /\ sock[i].type = "UDP" /\ ~from => IsBound(sock[i])
  /\ Become(i, React(sock[i], does))

-----------------------------------------------------------------------------
(* The kernel ends a connect. *)
ConnectEnds(i, ok) ==
  /\ Live(i) /\ sock[i].kern = "connecting"
  /\ Become(i, [sock[i] EXCEPT !.kern = IF ok THEN "up" ELSE "failed"])

(* An event of the socket is started and the kernel has something to tell. *)
Ready(i) == /\ Live(i)
            /\ On(sock[i], "w") \/ On(sock[i], "r")
            /\ sock[i].kern # "connecting"

(* A handler that closed the socket goes on with the aiofd it freed, which *)
(* may crash or may happen to find what it needs.                          *)
Handled(i, s) ==
  \/ Become(i, s)
  \/ /\ s.aiofd = NULL
     /\ crashed' = TRUE
     /\ sock' = [j \in Socks |-> NULL] /\ leaked' = {}

(* A read event for a socket that waits for its connect is not meant for   *)
(* it: the answer it is owed may get lost.                                 *)
Misread(s) == [s EXCEPT !.owed = FALSE]

(* s_read_evt of a listening socket calls the connect callback, where the  *)
(* client may refuse.                                                      *)
Incoming(i, refuse) ==
  /\ Ready(i)
  /\ IsBound(sock[i]) /\ sock[i].listening
  /\ Handled(i, IF refuse THEN Stop(Misread(sock[i]), "r") ELSE Misread(sock[i]))

(* s_read_evt of any other: the peer is gone when there are no bytes, and  *)
(* otherwise, as when nread failed, the client is called.                  *)
PeerGone(i) ==
  /\ Ready(i)
  /\ ~(IsBound(sock[i]) /\ sock[i].listening) /\ sock[i].type # "UDP"
  /\ Handled(i, Stop(socket_disconnect(sock[i]), "r"))

Readable(i, does) ==
  /\ Ready(i)
  /\ ~(IsBound(sock[i]) /\ sock[i].listening)
  /\ Handled(i, React(Misread(sock[i]), does))

(* The head of the queue can be sent by a socket that is connected or to a *)
(* destination; s_write_io refuses it otherwise.                           *)
CanSend(s, k) == \A j \in 1 .. k : IsConnected(s) \/ s.aiofd.q[j]

Sent(s, k) == [s EXCEPT !.aiofd.q = SubSeq(@, k + 1, Len(@))]

(* aiofd_io_evt sends k buffers and cannot send the next, which is an      *)
(* error, or none is left but one that the client queued meanwhile.  The   *)
(* last callback is that of the error or of the last buffer sent.          *)
WriteStops(i, k, does) ==
  LET s == sock[i]
  IN  /\ Ready(i)
      /\ k < Len(s.aiofd.q) /\ CanSend(s, k)
      /\ Handled(i, React(Sent(s, k), does))

(* All of the queue was sent.  s_write_evt of a connected socket stops the *)
(* write event.                                                            *)
Drained(i) ==
  LET s == sock[i]
  IN  /\ Ready(i) /\ (IsConnected(s) \/ s.type = "UDP")
      /\ CanSend(s, Len(s.aiofd.q))
      /\ Handled(i, Stop(Sent(s, Len(s.aiofd.q)), "w"))

(* That of another one takes this for the end of its connect: it is        *)
(* connected, calls the connect callback and starts the read event, unless *)
(* the kernel or s_get_error has an error to tell.                         *)
ConnectDone(i, does) ==
  LET s == Sent(sock[i], Len(sock[i].aiofd.q))
      up == [s EXCEPT !.connected = TRUE, !.told = "conn", !.owed = FALSE]
  IN  /\ Ready(i) /\ ~IsConnected(sock[i]) /\ sock[i].type # "UDP"
      /\ CanSend(sock[i], Len(sock[i].aiofd.q))
      /\ s.kern # "failed"
      /\ Handled(i, Start(React(up, does), "r"))

ConnectFailed(i, does) ==
  LET s == Sent(sock[i], Len(sock[i].aiofd.q))
      told == [s EXCEPT !.kern = IF @ = "failed" THEN "idle" ELSE @, !.owed = FALSE]
  IN  /\ Ready(i) /\ ~IsConnected(sock[i]) /\ sock[i].type # "UDP"
      /\ CanSend(sock[i], Len(sock[i].aiofd.q))
      /\ Handled(i, Stop(React(told, does), "w"))

-----------------------------------------------------------------------------
WriteEvent(i) ==
  \/ Drained(i)
  \/ \E does \in Reactions : ConnectDone(i, does) \/ ConnectFailed(i, does)
  \/ \E k \in 0 .. MaxQueue - 1, does \in Reactions : WriteStops(i, k, does)

Next ==
  \E i \in Socks :
    \/ \E t \in {"TCP", "UDP"}, alloc \in BOOLEAN : socket_new(i, t, alloc)
    \/ socket_delete(i)
    \/ \E open, el \in BOOLEAN, to \in {"up", "connecting", "idle"} : Connect(i, open, to, el)
    \/ Disconnect(i)
    \/ \E open, ok \in BOOLEAN : socket_bind(i, open, ok)
    \/ \E ok \in BOOLEAN : socket_listen(i, ok)
    \/ \E c \in Socks, fail \in {"init", "accept", "host", "open", "none"} : socket_accept(i, c, fail)
    \/ \E wd \in BOOLEAN : Write(i, wd)
    \/ \E from \in BOOLEAN, does \in Reactions : socket_read(i, from, does)
    \/ \E ok \in BOOLEAN : ConnectEnds(i, ok)
    \/ \E refuse \in BOOLEAN : Incoming(i, refuse)
    \/ PeerGone(i)
    \/ \E does \in Reactions : Readable(i, does)
    \/ WriteEvent(i)

(* The kernel ends every connect. *)
Fairness == \A i \in Socks : WF_vars(\E ok \in BOOLEAN : ConnectEnds(i, ok))

Spec == Init /\ [][Next]_vars /\ Fairness

-----------------------------------------------------------------------------
Sockets == {sock[i] : i \in {j \in Socks : sock[j] # NULL}}

(* Descriptors, queues and flags are what they should be, and no event of  *)
(* a UDP socket is ever started.                                           *)
TypeOK ==
  /\ leaked \subseteq FDs
  /\ \A s \in Sockets :
       /\ s \in SocketT
       /\ s.aiofd # NULL => Len(s.aiofd.q) <= MaxQueue
       /\ s.type = "UDP" => ~On(s, "w") /\ ~On(s, "r")

(* A socket_t has a descriptor exactly while it has an aiofd, it is the    *)
(* one the kernel has open for it, and no two have the same: after any mix *)
(* of failed opens, half done closes and reuse of numbers (s_open,         *)
(* s_close), none works on a descriptor that was given back and may be     *)
(* another's by now.                                                       *)
FdOwned ==
  \A i \in Socks : sock[i] # NULL =>
     /\ sock[i].fd = -1 <=> sock[i].aiofd = NULL
     /\ sock[i].fd = sock[i].held
     /\ sock[i].fd \notin leaked
     /\ \A j \in Socks \ {i} : sock[j] # NULL /\ sock[j].fd # -1 => sock[j].fd # sock[i].fd

(* What the client was told is how it is: a socket is connected exactly if *)
(* the last callback about it said so, although events of the wrong type,  *)
(* closes that stop half way, stale flags of a socket that is opened again *)
(* and calls from inside callbacks come between.  The exception is stated: *)
(* a socket from socket_accept is connected and no callback has said so.   *)
(* socket.h:76-77 says that it "also receives a connect_fn callback", but  *)
(* socket.c:351-360 calls none.                                            *)
CallbacksMatch ==
  \A s \in Sockets : s.connected <=> s.told = "conn" \/ (s.accepted /\ s.told = "none")

Answered(i) == sock[i] = NULL \/ ~sock[i].owed \/ crashed

(* A connect that socket_connect has begun is answered by the connect or   *)
(* the error callback of s_write_evt, unless the client disconnects, binds *)
(* or deletes the socket first, the event is misread or a buffer gets into *)
(* the queue, provided that the loop gets to a write event which is        *)
(* pending again and again.  Both of the code's own exceptions to          *)
(* socket.h:77-78 ("the connect_fn callback gets called when the connect   *)
(* is complete") are left to others here: the queued buffer to ConnectTold *)
(* and the connect made from the error callback, whose event socket.c:1160 *)
(* stops again, by the Reactions of the run, which have no "connect".      *)
ConnectAnswered ==
  \A i \in Socks : SF_vars(WriteEvent(i)) =>
     (sock[i] # NULL /\ sock[i].owed)
       ~> (Answered(i) \/ (sock[i].aiofd # NULL /\ sock[i].aiofd.q # <<>>))

(* "Sockets that are connecting, the connect_fn callback gets called when  *)
(* the connect is complete" (socket.h:77-78): the same with no exception   *)
(* for a buffer that the client queues while the connect is under way.     *)
ConnectTold ==
  \A i \in Socks : SF_vars(WriteEvent(i)) =>
     (sock[i] # NULL /\ sock[i].owed) ~> Answered(i)
=============================================================================
