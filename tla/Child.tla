------------------------------- MODULE Child --------------------------------
(***************************************************************************)
(* The child processes of src/child.c: two pipes and a fork, what the      *)
(* child does to itself before it becomes another program, and the parent  *)
(* that hears of its output and its exit through the event loop.  Composes *)
(* Sanitize and Privileges.                                                *)
(*                                                                         *)
(* The parent is one thread: each call is one action, and so is each event *)
(* that the loop dispatches, its callback included; only child_process_new *)
(* is two, since the child it forks runs beside it from then on.  child.c  *)
(* is written for an aiofd and an event interface older than the ones in   *)
(* src/ (aiofd_initialize, evt_initialize_event_handler); those are        *)
(* modelled from how child.c uses them.                                    *)
(***************************************************************************)
EXTENDS Sanitize, Privileges, FiniteSetsExt

CONSTANTS Kids,        \* the child_process_t's, numbers
          FDs,         \* the descriptors a process can have: 0 .. n
          Starts,      \* how the parent may have been started: the descriptors
                       \* it has open, its user ids, its group ids
          Ids,         \* user and group ids
          Ignored,     \* the signals the parent ignores
          CleanVars, Variables, Added, PTR,  \* lengths in an environment
          WaitsUnseen, \* may a client wait for an exit it has not been told of?
          MaxQueue     \* bound: buffers queued for a child

ASSUME FDsAssumption ==
  IsFiniteSet(FDs) /\ FDs = 0 .. Cardinality(FDs) - 1 /\ Std \subseteq FDs

ASSUME StartsAssumption ==
  Starts \subseteq [open : SUBSET FDs, uid : [r : Ids, e : Ids], gid : [r : Ids, e : Ids]]

ASSUME KidsAssumption ==
  Kids \subseteq Nat /\ WaitsUnseen \in BOOLEAN /\ MaxQueue \in Nat /\ Ids \subseteq Nat

ASSUME LengthsAssumption ==
  /\ CleanVars \in Seq(Nat) /\ Added \in Seq(Nat) /\ PTR \in Nat
  /\ Variables \in Seq([name : Nat, value : Nat \cup {-1}])

VARIABLES table,       \* the parent's descriptors
          creds,       \* the parent's credentials
          orig,        \* the priv_state_t of its last temporary drop, or NULL
          kid,         \* the children
          starting,    \* the child that the parent is about to handle, with the
                       \* pipes and the mask it remembers meanwhile, or NULL
          masked,      \* does the parent block its signals?
          waiting,     \* the child whose exit the parent sleeps for, or NULL
          environ,     \* an environment that was built, or NULL
          before       \* history: the credentials when orig was filled in, and
                       \* whether that drop succeeded

vars == <<table, creds, orig, kid, starting, masked, waiting, environ, before>>

(* A child_process_t and its process.  handler says that its SIGCHLD       *)
(* handler is started, due that its callback is to be called.  History:    *)
(* fits says that the parent's standard descriptors were as child.c needs  *)
(* them (see Fit), and misread that its callback was given another pid.    *)
NoKid ==
  [proc |-> "none", live |-> FALSE, table |-> [fd \in FDs |-> Closed], creds |-> NULL,
   drop |-> "no", from |-> NULL, blocked |-> FALSE, ignored |-> {}, rfd |-> 0, wfd |-> 0,
   ends |-> <<>>, handler |-> FALSE, due |-> FALSE, exited |-> FALSE, told |-> 0,
   reading |-> FALSE, wbuf |-> 0, fits |-> FALSE, misread |-> FALSE]

ParentRuns == waiting = NULL /\ starting = NULL

(* A process starts with its effective ids saved. *)
Started(ids) == [r |-> ids.r, e |-> ids.e, s |-> ids.e]

Init ==
  /\ \E start \in Starts :
       /\ table = [fd \in FDs |-> CASE fd \notin start.open -> Closed
                                   [] fd \in start.open \cap Std -> Plain("std")
                                   [] OTHER -> Plain("file")]
       /\ creds = [uid |-> Started(start.uid), gid |-> Started(start.gid), groups |-> Ids]
  /\ orig = NULL /\ before = NULL
  /\ kid = [k \in Kids |-> NoKid]
  /\ starting = NULL /\ masked = FALSE /\ waiting = NULL /\ environ = NULL

-----------------------------------------------------------------------------
Childless == \A k \in Kids : kid[k] = NoKid

(* The client drops and restores its privileges.  Bound: before its first  *)
(* child.                                                                  *)
DropTemporarily(fail) ==
  LET d == drop_privileges(creds, FALSE, fail)
  IN  /\ ParentRuns /\ orig = NULL /\ Childless
      /\ creds' = d.creds
      /\ orig' = Saved(creds, fail)
      /\ before' = [creds |-> creds, ok |-> d.ok]
      /\ UNCHANGED <<table, kid, starting, masked, waiting, environ>>

(* A priv_state_t is used for one drop and one restoring.  Bound: no drop  *)
(* is made inside another.                                                 *)
Restore(fail) ==
  /\ ParentRuns /\ orig # NULL /\ Childless
  /\ creds' = restore_privileges(creds, orig, fail).creds
  /\ orig' = NULL /\ before' = NULL
  /\ UNCHANGED <<table, kid, starting, masked, waiting, environ>>

(* The client builds the environment of a child it is about to start.      *)
(* Bound: before its first one.                                            *)
BuildEnviron(preserve, add) ==
  /\ environ = NULL /\ orig = NULL /\ Childless
  /\ environ' = build_clean_environ(CleanVars, preserve, add, PTR)
  /\ UNCHANGED <<table, creds, orig, kid, starting, masked, waiting, before>>

-----------------------------------------------------------------------------
(* pipe(2) takes the two lowest descriptors that are free. *)
pipe(t, k, name) ==
  LET free == {fd \in FDs : t[fd] = Closed}
      r == Min(free)
      w == Min(free \ {r})
  IN  [r |-> r, w |-> w, table |-> [t EXCEPT ![r] = Pipe(k, name, "r"), ![w] = Pipe(k, name, "w")]]

Free(t) == Cardinality({fd \in FDs : t[fd] = Closed})

(* Mutant of AfterFailedFork: one of the four ends is forgotten. *)
AfterFailedFork_Leak(t, c2p, p2c) == close(t, {p2c.r, c2p.w, c2p.r})

AfterFailedFork(t, c2p, p2c) == close(t, {p2c.w, p2c.r, c2p.w, c2p.r})

(* After the fork the parent closes both ends of the pipe to the child.    *)
ParentTable(t, p2c) == close(t, {p2c.r, p2c.w})

(* The child's rewiring takes for granted that standard error is open, for *)
(* it stays open, and that one of the other two is: the child closes both  *)
(* before it uses the pipes, and without them c2p takes both numbers.      *)
Fit(t) == t[2] = Plain("std") /\ (t[0] # Closed \/ t[1] # Closed)

(* The child as FORK leaves it: a copy of the parent, with all signals     *)
(* blocked; and its child_process_t.                                       *)
Forked(k, t, c2p, p2c, drop) ==
  [NoKid EXCEPT !.proc = "forked", !.live = TRUE, !.table = t, !.creds = creds, !.from = creds,
     !.drop = IF drop THEN "asked" ELSE "no", !.blocked = TRUE, !.ignored = Ignored,
     !.ends = <<c2p, p2c>>, !.rfd = c2p.r, !.wfd = p2c.w, !.fits = Fit(table)]

Ends(p) == [r |-> p.r, w |-> p.w]

(* child_process_new and child_process_initialize up to the fork, that of  *)
(* safe_fork, which has blocked all signals and remembers the mask; a fork *)
(* that fails restores it.  fail is the step that fails.  Bounds: each     *)
(* child is started once, in order; only the first one is asked to drop    *)
(* its privileges, and there is only one while the parent has dropped its  *)
(* own.                                                                    *)
child_process_new(k, drop, fail) ==
  LET c2p == pipe(table, k, "c2p")
      p2c == pipe(c2p.table, k, "p2c")
      failed == CASE fail = "calloc" -> "calloc"
                  [] fail # "calloc" /\ (fail = "pipe" \/ Free(table) < 2) -> "pipe"
                  [] fail \notin {"calloc", "pipe"} /\ Free(table) >= 2
                       /\ (fail = "pipe2" \/ Free(table) < 4) -> "pipe2"
                  [] OTHER -> fail
  IN  /\ ParentRuns /\ kid[k] = NoKid
      /\ \A j \in Kids : j < k => kid[j] # NoKid
      /\ drop \/ orig # NULL => Childless
      /\ table' = CASE failed \in {"calloc", "pipe"} -> table
                    [] failed = "pipe2" -> close(c2p.table, {c2p.w, c2p.r})
                    [] failed = "fork"  -> AfterFailedFork(p2c.table, c2p, p2c)
                    [] OTHER            -> p2c.table
      /\ IF failed = "none"
           THEN /\ kid' = [kid EXCEPT ![k] = Forked(k, p2c.table, Ends(c2p), Ends(p2c), drop)]
                /\ starting' = [kid |-> k, p2c |-> Ends(p2c), mask |-> masked]
                /\ masked' = TRUE
           ELSE UNCHANGED <<kid, starting, masked>>
      /\ environ' = NULL
      /\ UNCHANGED <<creds, orig, waiting, before>>

(* Mutant of evt_start_event_handler: the handler is only initialized. *)
evt_start_event_handler_Not(c) == c

evt_start_event_handler(c) == [c EXCEPT !.handler = TRUE]

(* The parent returns from the fork, with its mask restored, and starts    *)
(* the handler and the read event of the child, which may be anywhere by   *)
(* then, or gone.                                                          *)
ParentStarts(k) ==
  /\ starting # NULL /\ starting.kid = k
  /\ table' = ParentTable(table, starting.p2c)
  /\ kid' = [kid EXCEPT ![k] = [evt_start_event_handler(@) EXCEPT !.reading = TRUE]]
  /\ masked' = starting.mask
  /\ starting' = NULL
  /\ UNCHANGED <<creds, orig, waiting, environ, before>>

-----------------------------------------------------------------------------
(* The child after the fork, the rest of safe_fork: what sanitize_files,   *)
(* drop_privileges and reset_signals_to_default answer is not looked at.   *)
ChildCleansUp(k, bad, fail) ==
  LET c == kid[k]
      d == drop_privileges(c.creds, TRUE, fail)
      pipes == {c.ends[1].r, c.ends[1].w, c.ends[2].r, c.ends[2].w}
  IN  /\ c.proc = "forked"
      /\ kid' = [kid EXCEPT ![k] =
           [c EXCEPT !.proc = "clean",
                     !.table = sanitize_files(c.table, pipes, bad),
                     !.creds = IF c.drop = "asked" THEN d.creds ELSE c.creds,
                     !.drop = IF c.drop = "asked" THEN (IF d.ok THEN "done" ELSE "failed") ELSE "no",
                     !.ignored = @ \ reset_signals_to_default(1 .. NSIG - 1),
                     !.blocked = FALSE]]
      /\ UNCHANGED <<table, creds, orig, starting, masked, waiting, environ, before>>

(* dup2 onto another descriptor; of one that is closed it fails. *)
dup2(t, from, to) == IF t[from] = Closed THEN t ELSE [t EXCEPT ![to] = t[from]]

(* Mutant of Rewired: the pipe to the child stays open twice. *)
Rewired_NoClose(t, c2p, p2c) ==
  LET shut == close(t, {0, 1, c2p.r, p2c.w})
  IN  close(dup2(dup2(shut, p2c.r, 0), c2p.w, 1), {c2p.w})

(* The child makes the pipes its standard input and output, in this order. *)
Rewired(t, c2p, p2c) ==
  LET shut   == close(t, {0, 1, c2p.r, p2c.w})
      stdin  == close(dup2(shut, p2c.r, 0), {p2c.r})
  IN  close(dup2(stdin, c2p.w, 1), {c2p.w})

(* A process that is gone has no descriptors, ids or signals. *)
Gone(c) ==
  [c EXCEPT !.proc = "zombie", !.table = NoKid.table, !.creds = NULL, !.from = NULL,
            !.drop = "no", !.ignored = {}, !.ends = <<>>]

(* execve; when it fails the child exits with 127. *)
ChildExecs(k, ok) ==
  LET c == kid[k]
  IN  /\ c.proc = "clean"
      /\ kid' = [kid EXCEPT ![k] =
           IF ok THEN [c EXCEPT !.proc = "running", !.ends = <<>>,
                                !.table = Rewired(c.table, c.ends[1], c.ends[2])]
                 ELSE Gone(c)]
      /\ UNCHANGED <<table, creds, orig, starting, masked, waiting, environ, before>>

ChildExits(k) ==
  /\ kid[k].proc = "running"
  /\ kid' = [kid EXCEPT ![k] = Gone(@)]
  /\ UNCHANGED <<table, creds, orig, starting, masked, waiting, environ, before>>

-----------------------------------------------------------------------------
(* Mutant of Told: the callback is not called. *)
Told_Not(c) == [c EXCEPT !.exited = TRUE]

(* sigchld_cb calls the exit callback, then records the exit. *)
Told(c) == [c EXCEPT !.told = @ + 1, !.exited = TRUE]

(* libev reaps an exited child when the loop gets to it, and marks the     *)
(* handler of that child, if it is started.                                *)
Reap(k) ==
  /\ ParentRuns /\ ~masked /\ kid[k].proc = "zombie"
  /\ kid' = [kid EXCEPT ![k].proc = "reaped", ![k].due = kid[k].handler]
  /\ UNCHANGED <<table, creds, orig, starting, masked, waiting, environ, before>>

(* The loop calls the handler that was marked, unless it is deleted first. *)
(* match: evt_cb takes the pid it hands over from its own stack instead of *)
(* the watcher, and sigchld_cb ends with an error if it is another one.    *)
sigchld_cb(k, match) ==
  /\ ParentRuns /\ kid[k].due
  /\ kid' = [kid EXCEPT ![k] =
       [(IF match THEN Told(@) ELSE [@ EXCEPT !.misread = TRUE]) EXCEPT !.due = FALSE]]
  /\ UNCHANGED <<table, creds, orig, starting, masked, waiting, environ, before>>

(* The read event has no bytes when every write end of the pipe is closed. *)
AtEnd(k) == \A t \in {table} \cup {kid[j].table : j \in Kids} :
              \A fd \in FDs : t[fd] # Pipe(k, "c2p", "w")

(* child_aiofd_read_evt_fn: no bytes turn the read event off.  Otherwise   *)
(* the read callback runs, which changes nothing here.                     *)
child_aiofd_read_evt_fn(k) ==
  /\ ParentRuns /\ kid[k].live /\ kid[k].reading
  /\ AtEnd(k)
  /\ kid' = [kid EXCEPT ![k].reading = FALSE]
  /\ UNCHANGED <<table, creds, orig, starting, masked, waiting, environ, before>>

(* child_process_write and child_process_writev queue a buffer. *)
child_process_write(k) ==
  /\ ParentRuns /\ kid[k].live
  /\ kid[k].wbuf < MaxQueue
  /\ kid' = [kid EXCEPT ![k].wbuf = @ + 1]
  /\ UNCHANGED <<table, creds, orig, starting, masked, waiting, environ, before>>

(* child_aiofd_write_evt_fn is told of each buffer that was written, and   *)
(* then, without one, that there are no more, which turns the write event  *)
(* off.  A descriptor that cannot be written to ends in                    *)
(* child_aiofd_error_evt_fn, and the buffer stays.                         *)
child_aiofd_write_evt_fn(k) ==
  /\ ParentRuns /\ kid[k].live /\ kid[k].wbuf > 0
  /\ kid' = IF table[kid[k].wfd].end = "w" THEN [kid EXCEPT ![k].wbuf = @ - 1] ELSE kid
  /\ UNCHANGED <<table, creds, orig, starting, masked, waiting, environ, before>>

(* child_process_delete.  The parent sleeps until exited, which only the   *)
(* event loop sets; and it closes both descriptors by their numbers.       *)
child_process_delete(k, wait) ==
  /\ ParentRuns /\ kid[k].live
  /\ wait => kid[k].exited \/ WaitsUnseen
  /\ IF wait /\ ~kid[k].exited
       THEN waiting' = k /\ UNCHANGED <<table, kid>>
       ELSE /\ table' = close(table, {kid[k].rfd, kid[k].wfd})
            /\ kid' = [kid EXCEPT ![k].live = FALSE, ![k].handler = FALSE, ![k].due = FALSE,
                                   ![k].reading = FALSE, ![k].wbuf = 0]
            /\ UNCHANGED waiting
  /\ UNCHANGED <<creds, orig, starting, masked, environ, before>>

-----------------------------------------------------------------------------
(* The system calls of privileges.c, any of which may fail. *)
Failures == SUBSET {"getgroups", "setgroups", "seteuid", "setegid", "setreuid", "setregid"}

StepsOfNew == {"none", "calloc", "pipe", "pipe2", "fork"}

Next ==
  \/ \E fail \in Failures : DropTemporarily(fail) \/ Restore(fail)
  \/ \E p \in 1 .. Len(Variables), a \in 0 .. Len(Added) :
       BuildEnviron(SubSeq(Variables, 1, p), SubSeq(Added, 1, a))
  \/ \E k \in Kids :
       \/ \E drop \in BOOLEAN, fail \in StepsOfNew : child_process_new(k, drop, fail)
       \/ ParentStarts(k)
       \/ \E bad \in {0, 3}, fail \in Failures : ChildCleansUp(k, bad, fail)
       \/ \E ok \in BOOLEAN : ChildExecs(k, ok)
       \/ ChildExits(k)
       \/ Reap(k)
       \/ \E match \in BOOLEAN : sigchld_cb(k, match)
       \/ child_aiofd_read_evt_fn(k)
       \/ child_process_write(k)
       \/ child_aiofd_write_evt_fn(k)
       \/ \E wait \in BOOLEAN : child_process_delete(k, wait)

(* The parent and a child run on after the fork, the child until it execs; *)
(* the loop reaps and dispatches what is pending.                          *)
Fairness == \A k \in Kids :
  /\ WF_vars(ParentStarts(k))
  /\ WF_vars(\E bad \in {0, 3}, fail \in Failures : ChildCleansUp(k, bad, fail))
  /\ WF_vars(\E ok \in BOOLEAN : ChildExecs(k, ok))
  /\ WF_vars(Reap(k))
  /\ WF_vars(\E match \in BOOLEAN : sigchld_cb(k, match))
  /\ WF_vars(child_aiofd_read_evt_fn(k))

Spec == Init /\ [][Next]_vars /\ Fairness

-----------------------------------------------------------------------------
(* Files, ids, process states and counts are what they should be. *)
TypeOK ==
  /\ \A fd \in FDs : table[fd].name \in {"closed", "std", "file", "p2c", "c2p"}
  /\ \A which \in {"uid", "gid"} : \A f \in {"r", "e", "s"} : creds[which][f] \in Ids
  /\ \A k \in Kids : /\ kid[k].proc \in {"none", "forked", "clean", "running", "zombie", "reaped"}
                     /\ kid[k].wbuf \in 0 .. MaxQueue
                     /\ kid[k].exited => kid[k].told = 1

(* A program that child_process_new started reads from the pipe its parent *)
(* writes to, writes to the pipe its parent reads from, and has no other   *)
(* descriptor but the standard error: none of its parent's files, and no   *)
(* end of another child's pipes, however the numbers of the pipes fell in  *)
(* a parent that starts and deletes others; if the parent had standard     *)
(* error and one of the other two when it forked.  The parent that         *)
(* daemon.c:77-78 makes has not: c2p takes 0 and 1, child.c:300-301 closes *)
(* them, the dup2 at 317 fails and the child has no output.  A pipe on 2   *)
(* is handed on to every later child.                                      *)
ChildWired ==
  \A k \in Kids : kid[k].proc = "running" /\ kid[k].fits =>
     /\ kid[k].table[0] = Pipe(k, "p2c", "r")
     /\ kid[k].table[1] = Pipe(k, "c2p", "w")
     /\ kid[k].table[2] = Plain("std")
     /\ \A fd \in FDs \ Std : kid[k].table[fd] = Closed
     /\ ~kid[k].blocked

(* A child whose drop_privileges answered TRUE has only its real ids, with *)
(* no other id to return to, if its parent had not dropped its own         *)
(* temporarily when it forked: then the drop sees nothing left to do.      *)
ChildDropped ==
  \A k \in Kids :
     LET c == kid[k] IN
     c.drop = "done" /\ c.from.uid.e = c.from.uid.s /\ c.from.gid.e = c.from.gid.s =>
       \A which \in {"uid", "gid"} :
          c.creds[which] = [f \in {"r", "e", "s"} |-> c.from[which].r]

(* Restoring after a temporary drop, which itself may have failed on the   *)
(* way, gives back the effective ids and the groups if it answers TRUE,    *)
(* and it does answer TRUE if no system call failed in either.             *)
RestoreUndoes ==
  [][\A fail \in Failures : Restore(fail) =>
       LET ok == restore_privileges(creds, orig, fail).ok IN
       /\ ok => /\ creds'.groups = before.creds.groups
                /\ \A which \in {"uid", "gid"} : creds'[which].e = before.creds[which].e
       /\ before.ok /\ fail = {} => ok]_vars

(* child_process_new that answers NULL has closed what it opened. *)
FailedNewCloses ==
  [][\A k \in Kids, drop \in BOOLEAN, fail \in StepsOfNew :
       child_process_new(k, drop, fail) /\ kid'[k] = NoKid => table' = table]_vars

(* A child that has exited, even before its parent was back from the fork  *)
(* and had started a handler, is reported to its exit callback by the      *)
(* loop, unless the client deletes it first, also between the reaping and  *)
(* the callback, sleeps instead of running the loop, or sigchld_cb         *)
(* (child.c:73) is given another pid.                                      *)
ExitIsTold ==
  \A k \in Kids :
     kid[k].proc = "zombie" ~>
       kid[k].told = 1 \/ ~kid[k].live \/ waiting # NULL \/ kid[k].misread

(* The strings of an environment lie one behind the other between the      *)
(* pointers and the end of the memory allocated for both, and there is a   *)
(* pointer left to end the array.                                          *)
EnvironFits ==
  environ # NULL =>
    LET e == environ.copied IN
    /\ Len(e) + 1 = environ.slots
    /\ \A i \in DOMAIN e :
         /\ e[i].at >= environ.slots * PTR
         /\ e[i].at + e[i].len <= IF i = Len(e) THEN environ.size ELSE e[i + 1].at

(* "(parent) -> p2c_pipe[PIPE_WRITE_IDX] -> kernel -> ... -> (child)": what *)
(* the parent writes to a child goes into the pipe to that child.          *)
WritesReachChild ==
  \A k \in Kids :
     kid[k].live /\ kid[k].wbuf > 0 /\ table[kid[k].wfd].end = "w" =>
       table[kid[k].wfd] = Pipe(k, "p2c", "w")
=============================================================================
