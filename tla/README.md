# Verification of cutil

cutil is a C library of containers, callbacks, event driven I/O, sockets and child processes.
These modules model it in TLA+, check the models with TLC and prove with TLAPS, for every
value of the constants, the safety properties of all of them but the btree. Line numbers are
those of the files in `src/src/`.

## Inventory

| part | state | operations | how it meets the others |
|---|---|---|---|
| list | one array of items on which two doubly linked rings, used and free, are threaded by index | init, deinit, reserve, clear, push, pop, get, iterate | buckets of hashtable and cb, write queue of aiofd |
| hashtable | an array of lists, a count, a size out of a table of primes | init, deinit, insert, find, remove, clear, iterate | maps names to buckets in cb |
| pair | two pointers | new, delete, first, second | records of cb |
| cb | a hashtable of names, each with a list of (context, function) | add, remove, has, call | every asynchronous part reports through a client's cb |
| events | a libev loop, events with saved signal actions and masks | run, stop, new, delete, start, stop an event | its callbacks run aiofd's handler |
| aiofd | two descriptors, two events, a queue of buffers | new, delete, enable, read, write, flush, the event handler | socket, child |
| socket | an aiofd, a descriptor, addresses, the flags connected, bound and listening | new, delete, connect, disconnect, bind, listen, accept, read, write, the read and write handlers | top of the stack: reports to its client through a cb |
| btree | AVL tree with threads and a block allocator | new, delete, add, find, remove, iterate | on its own |
| child | two pipes, a pid, an aiofd, an event for SIGCHLD | new (pipe, fork, exec), delete, read, write, the exit and output events | calls privileges and sanitize in the new process |
| privileges | the ids of a process, saved ids of a temporary drop | drop for good or for a time, restore | child |
| sanitize | descriptors, signal dispositions, an environment | close files, build an environment, reset signals | child |
| bitset | an array of 32 bit words | init, deinit, set, clear, test, set all, clear all | on its own |
| buffer, log, daemon | a growing block; two streams; none | append; open, write; daemonize | on their own |

`child`, `privileges`, `sanitize`, `bitset`, `buffer`, `log` and `daemon` are not in the
build (`src/src/Makefile`); `child` is written for an older aiofd and event interface.

The library is single threaded. What makes it hard is re-entrance: `cb_call` runs code that
may add, remove and call callbacks while the loop of `cb_call` holds an index; the handler of
aiofd runs code that queues more; a callback of the event loop may run the loop again. Next
come allocations that fail half way through an operation, short writes, indices and unsigned
counters at their limits, and two owners of one signal's disposition. A child process runs
beside its parent, and descriptor numbers that one part gave back are given to another at
once.

What makes each part correct: a list is a sequence whatever the slots do; a hashtable is a
set without equal keys; a cb runs every callback once and returns; a started event is heard
and a deleted one leaves no trace; an aiofd reports every buffer, in order, once it is
written; a btree is balanced, ordered and threaded; a socket works on its own descriptor and
tells its client what becomes of a connection; a child starts with its pipes, nothing else
and no privilege it dropped, and its exit is reported; a bitset is a set of numbers.
`PROJECT.json` lists the hazards with their lines and the properties that watch them.

## Modules

`ListOps` holds the list operations as operators on a list value (`items`, `size`, `count`,
`used_head`, `free_head`, `dfn`): index by index for the ring surgery of `remove_item` and
`insert_item`, in one step for `list_grow`, whose loops have the effect written in `Regrown`.
`List` is a list and its caller; `ListSpec` is what a list promises: a sequence. `Cb` uses
the same list values, because its trouble comes from slots being renumbered and reused; its
`stack` holds the active `cb_call` frames and their iterators. `Hashtable` and `Aiofd` use
sequences for lists, which the refinement of `ListSpec` justifies. `HashSpec` is what a
hashtable promises. `Events` models libev as the code relies on it: watchers of a signal
share one handler, installed with the first and set to the default with the last; `ev_break`
ends the innermost or all runs. `Btree` keeps the nodes pointer by pointer. `Bitset` is an
array of words, `BitsetSpec` the set of numbers it stands for. `Privileges` and `Sanitize`
are operators on a process (its ids; its descriptors, signals, environment); `Child` composes
them with the pipes, the fork and the events of `child.c`, for a parent and several children.
`Socket` models `socket.c` on top of what `Aiofd` shows of a write queue and two events;
`"TCP"` stands for the connection based sockets, those of UNIX included. `MCList`, `MCCb`,
`MCHashtable`, `MCAiofd` and `MCChild` give constants their values. `ListProofs`, `CbProofs`,
`HashtableProofs`, `BitsetProofs`, `AiofdProofs`, `EventsProofs`, `SocketProofs` and
`ChildProofs` hold the theorems of the module they are named after; `CbProofs` takes what it
needs of lists from an instance of `ListProofs` whose data are the callbacks.

One action stands for one call. Where a call runs client code it is split there and only
there: `cb_call`, `EnterCallback`, `CallbackReturn`, `CallReturn`; the rounds of the write
loop of `aiofd_io_evt`; `evt_run`, `evt_cb`, `CallbackReturn`, `RunReturns`. `Child` and
`Socket` keep an event, its handler and the call the client makes in the callback in one
action, since nothing else runs meanwhile. A child process takes its own steps, so
`child_process_new` is two actions, up to its `fork` and from there on (`ParentStarts`): a
child may do all it does and exit in between. The kernel hands a dead child to libev (`Reap`)
before `sigchld_cb` is called. Each call that can fail is a parameter of its action.
Undefined reads are choices: `Garbage` for `items[-1]`, `Types` for what `evt_cb` reads from
its own stack (so in `Socket` a started event of either kind may reach either handler),
`match` for the pid that it reads there (events.c 471-472) and `sigchld_cb` compares with the
child's, and a crash or going on (`Handled`) for the use of an aiofd that its own callback
freed. Variables marked as history in their declarations (`registered`, `accepted`,
`reported`, `sent`, `before`, `asked`, `removed`, `unthreaded`), and the fields `told`,
`owed` and `accepted` of a socket and `told`, `fits` and `misread` of a child, are
for the properties; no action reads them to decide what the code does, except where a comment
names a bound on the caller. What the kernel has open for a socket (`held`) is set by
`socket`, `accept` and `close`, apart from the field `fd` that `socket.c` keeps, so that a
number kept after its close would be given out again.

## Runs

Passing, one per component:

| run | what it shows |
|---|---|
| `MCList` | two disjoint closed rings that make up the array, after any calls; the backward walk is the reverse of the forward one; a list implements `ListSpec`: results, contents, order, deletions, and no change when an allocation fails. `ListSpec` lets a pop of the tail by its iterator answer the end, as list.c 314-317 says; the run's caller makes no such call, for the code answers the head (`PopsTail`) |
| `MCCb` | buckets are the registered callbacks in order; callbacks that nest calls, remove others and add where there is room do not make a call skip or repeat one, nor keep it from returning; a second name may lose its whole bucket when the first insertion of another makes the table grow and an allocation of the rehash fails (hashtable.c 167-168, 414) |
| `MCAiofd` | buffers are reported in order, none lost; a failed creation leaves nothing, where the failure of the unchecked `ADD_IO_CB` (aiofd.c 375) makes no creation fail but leaves an aiofd without a handler; every buffer queued in an aiofd with its handler is reported unless the client disables writing or deletes it |
| `MCHashtable` | items are in their buckets across growth, the load is bounded, both walks meet every item once; a hashtable implements `HashSpec` |
| `MCEvents` | a started event has its signal caught and unblocked; the last event of a signal restores what the first one found; a request to stop all runs ends them at any depth |
| `MCBtree` | balance and stored balances survive every order of insertion; search order survives the removal of leaves and of nodes with one or two children below the root too, which loses no other key (`Removes = "kept"` leaves out the nodes where it does); threads survive the removal of leaves |
| `MCBitset` | every mix of calls on one bit and on all bits does to the words what `BitsetSpec` does to a set: no two bits share a place, none lies outside the array |
| `MCChild` | every program whose parent had standard error and one of the other two at the fork starts with its two pipes, standard error and nothing else; a drop that answered TRUE cannot be undone by the program; restoring undoes a temporary drop, whichever of the system calls of either failed; a start that fails closes what it opened; an exit is reported, also one before the parent has its handler, unless the pid is misread; an environment fits its memory |
| `MCSocket` | no socket works on a descriptor that it gave back or shares; `connected` is what the last callback said, but for an accepted socket, about which the code calls none; a connect is answered unless a buffer is queued meanwhile |

`MCSocket` supposes a `return TRUE` at the end of `s_init`, which the code lacks
(`InitReturns`): it falls through into its error labels (socket.c 636), so that `socket_new`
answers NULL although every step succeeded, against test_socket.c 109. With `InitReturns =
FALSE` the model has no state with a socket.

Deadlock checking is off in `MCBtree` (a failed `ASSERT` ends the process, and after a failed
block allocation the tree is not used any more), in `MCChild` (each child is started once)
and in `MCSocket` and `MCSocketTold` (the use of freed memory may end the process).

Violations, each a disagreement of the code with a line of its own text (`findings`):

| run | what the counterexample shows |
|---|---|
| `MCAiofdShort` | after a short write the buffer is sent from its start again |
| `MCChildPipes` | the parent closes both ends of the pipe to the child and goes on writing to the number, which the next child's pipe takes |
| `MCSocketTold` | a buffer queued while the connect is under way is tried first by every write event, so the connect callback is never called although the connect is complete |

### Seen while modelling, and not made a run

Some constants of the models exclude a caller or a failure from the passing run; the other
value reproduces what happens then:

* `PopsEmpty = TRUE` (`List`): `list_pop` of the tail of an empty list with capacity reads
  `items[-1]`; the count may wrap. Breaks `RingsOK`.
* `PopsTail = TRUE` (`List`): popping the tail of several items by its iterator answers the
  head (348), where the comments (314-317, 346-347) say the end. Breaks `RefinesListSpec`.
* `MayRun = {"remove_running"}` (`Cb`): a callback that removes itself keeps `cb_call` in the
  free ring for ever. With `"grow"`, a callback that adds to a full bucket after a removal
  makes `list_grow` renumber the items under the loop, which skips a callback.
* `MayFail` with `"rehash"` (`Hashtable`): an insertion that fails during growth loses the
  item.
* `Overlapping = TRUE` (`Events`): deleting one of two events of a signal silences the other.
* `Removes = "any"` (`Btree`): removing the root, or a node whose right child has a left
  child, loses other keys. Breaks the invariants of the tree.
* `WaitsUnseen = TRUE` (`Child`): deleting a child with waiting sleeps for ever if its exit
  has not been reported, since no handler runs meanwhile.
* `"connect"` in `Reactions` (`Socket`): a connect retried from the error callback is never
  answered. `BindsConnected = TRUE`: binding a connected socket closes it without a callback
  and leaves `connected` stale. Both break `ConnectAnswered`.

Others are part of what the models do:

* cb: one `va_list` serves all callbacks of a call (210); adding the first callback of a name
  can lose all callbacks of others (`lost`), since the table's growth drops what it cannot
  insert again.
* aiofd: the `cb_add` of the handler is not checked (375), so a creation that succeeds may
  give an aiofd that hears of no event.
* events: `evt_cb` reads signal number, pid or io type from its own stack (465-478).
* btree: `bt_remove` leaves size and balances as they were (`aborted` records the assertion
  at 688 failing because of it); the child that takes the place of a removed node is threaded
  to itself, so that an iterator never leaves it (897-907, `unthreaded`); `bt_add_more_nodes`
  counts a block before it has it.
* child: the parent keeps the write end of the pipe from the child, so it never sees the end
  of the output and one descriptor leaks per child; deleting a child in its exit callback
  frees the struct that the handler then writes to; `reset_signals_to_default` fails at
  signal 0, of which `sigismember` answers -1, and resets none, although the comment at
  child.c 212 says all; the results of `sanitize_files`, `drop_privileges` and the reset are
  ignored; a parent that lacks both standard input and output, as daemon.c 77-78 leaves one,
  or standard error, wires a child wrongly: the ends of its pipes take those numbers, 300-301
  close them and the `dup2` at 317 fails (`fits` keeps such children out of `ChildWired`); a
  pid misread in `evt_cb` makes `sigchld_cb` return before the exit callback, and the exit is
  not reported again.
* privileges: a permanent drop after a temporary one finds nothing to do and answers TRUE.
* socket: `s_close` succeeds only when both events are started, so an idle connected socket
  cannot be disconnected, the disconnect of a peer is seldom reported and the descriptor
  leaks, in `socket_delete` and in an accept that finds no host name too; a close that
  succeeds inside a handler leaves the handler with a freed aiofd (1061-1064); a buffer
  queued while connecting keeps the connect from being answered; the write event is not
  started again after the queue has drained, so a later `socket_write` does not go out; no
  event of a UDP socket is ever started; connecting again after a failure swallows the error
  and reports a connection; accepting never runs the connect callback, which socket.h 76-77
  promises (`CallbacksMatch` states the exception). The `ADD_*_CB` calls of `s_init`
  (627-634) are not checked either; their failure, which is that of `aiofd.c` 375 again, is
  not modelled.
* bitset: `DWORDS_NEEDED` wraps for sizes within 31 of the largest `size_t`.

### Bounds

Lists: arrays up to 4 slots and 4 data, so an array grows twice from 1 to 4 and is full, half
full and empty in every arrangement of slots; the data are symmetric, since no operation
compares them. Cb: three callbacks under one name and one under a second, since buckets of
different names share nothing but the table that may lose them, which it does here only to
names that are not being called; nesting of two with one call per callback: enough for the
inner call to recycle a slot next to the one where the outer loop stands. Hashtable: sizes 1,
2, 5 in place of the primes, so that two growths happen, with two data of one key and
collisions that split up when the table grows. Aiofd: four buffers, an empty one among them,
and callbacks nested to depth 3; a size_t of 7. Each buffer is written at most once, which
names the buffers and bounds the history. Events: three events, SIGCHLD being special in
libev, runs and callbacks nested four deep. Btree: six keys reach every rotation with
subtrees below it, at the root and below; blocks of 2, 3 and 6 nodes; one removal per tree,
of any node that `Removes` allows. Bitset: words of 4 bits and sizes just below, at and above
a multiple of them, 0 included; nothing in the code but the width depends on 32. Child: two
children, which is what it takes for a number to be reused; ten descriptors, so that the fork
with the most open ones still fits; parents (`Startings`) whose user, group or both differ,
of root, and ones that lack standard input, output, both or the standard error; every set of
failing system calls of a drop and of a restore; the parent changes its privileges only
before its first child and only that child drops its own, since the two concern different
processes. Socket: two sockets and two descriptors, so that numbers run out and return; only
the first may be UDP or bound; two queued buffers; a client does not delete a socket inside a
callback.

### Fairness

Only what the C program and the kernel give: a loop goes on, a callback returns (an
assumption on the client: `Cb`, `Aiofd`, `Events`), `ev_run` leaves once asked. `Aiofd`
assumes strong fairness of the write event and of a write that takes data: libev is
level-triggered, and a peer that never reads again is outside the claim.
`EveryBufferReported` is conditional on whole writes (`ShortWrites`) and on a handler, and
has as a premise that the type `evt_cb` reads from its stack comes out as a write again and
again. `Child` assumes that a process goes on, the parent after its `fork` included, and that
the loop reaps a dead child and dispatches a pending exit or output event; `Socket` that the
kernel ends every connect, and `ConnectAnswered` and `ConnectTold` have as a premise that the
loop gets to a write event that is pending again and again. `CallsReturn` needs callbacks
that do not add again what an active call has called; two callbacks that remove and add each
other would keep the loop going for ever.

## Proofs

Each theorem holds for every value of the constants that the named assumptions of its module
allow; TLC evaluates those on every run. The runs check the same properties on small
instances. A hypothesis in front of a theorem excludes a caller or a failure under which the
code does something else ("Seen while modelling" says what).

| module | theorem | property | hypothesis |
|---|---|---|---|
| `ListProofs` | `TypeCorrect`, `RingsIntact` | `TypeOK`, `RingsOK` | `~PopsEmpty` |
| | `ReadsBackwards` | `BackwardsIsReverse` | `~PopsEmpty` |
| | `ImplementsSequence` | `RefinesListSpec` | `~PopsEmpty`, `~PopsTail` |
| `CbProofs` | `TypeCorrect`, `BucketsOrdered` | `TypeOK`, `BucketsInOrder` | |
| | `EachCalledOnce` | `CallsEachOnce` | `{"grow", "remove_running"} \cap MayRun = {}` |
| `HashtableProofs` | `TypeCorrect`, `FindsAll`, `LoadIsBounded` | `TypeOK`, `FindsEveryItem`, `LoadBounded` | |
| | `WalksMeetEverything` | `WalksMeetAll` | |
| | `ImplementsSet` | `RefinesHashSpec` | `"rehash" \notin MayFail` |
| `BitsetProofs` | `TypeCorrect`, `ImplementsSet` | `TypeOK`, `RefinesBitsetSpec` | |
| `AiofdProofs` | `OrderKept`, `WholeOrNothing` | `QueueInOrder`, `AllOrNothing` | |
| | `TypeCorrect` | `TypeOK` | `~ShortWrites` |
| `EventsProofs` | `TypeCorrect` | `TypeOK` | |
| | `StartedEventsHeard`, `ActionsRestored` | `StartedIsHeard`, `SignalsRestored` | `~Overlapping` |
| `SocketProofs` | `TypeCorrect`, `DescriptorsOwned`, `ClientKnows` | `TypeOK`, `FdOwned`, `CallbacksMatch` | |
| `ChildProofs` | `TypeCorrect`, `ProgramWired`, `PrivilegesDropped` | `TypeOK`, `ChildWired`, `ChildDropped` | |
| | `EnvironmentFits` | `EnvironFits` | |
| | `FailedNewClosesAll`, `RestoreUndoesDrop` | the action properties `FailedNewCloses`, `RestoreUndoes` | |

### The arguments

**List.** The inductive invariant is `ListInv == TypeOK /\ RingsOK`. `RingsOK` is stated with
an explicit enumeration of each ring (a bijection from `0 .. n - 1` to the slots along which
`next` and `prev` go one forward and one back), which is what makes it inductive: unlinking
drops one element of an enumeration, linking inserts one, and growth writes down the
enumerations 0, 1, ... Lemmas show this once for rings (`RingRemove`, `RingInsert`,
`WalkOfRing`), then for each operation of `ListOps`, and `NextInv` has one case per action.
The same lemmas carry the data along: `Contents` is the data along the used ring
(`ContentsAlong`), a push, a pop and a growth do to it what `ListSpec` does to its sequence,
and an iterator's position is its place in the enumeration; `StepRefines` has one case per
call and uses `~PopsTail` where `list_pop` answers the next place. The backward iteration
follows `prev` along the same enumeration (`BackOfRing`). What an operation does to the
iterators a caller holds is stated beside what it does to the contents: a push that does not
grow keeps every item's place (`KeepsPlaces`), a pop moves the places behind it by one
(`ShiftsPlaces`), and iterating goes from place to place (`IteratorsMove`).

**Cb.** Two invariants. `SafeInv` needs no hypothesis: every bucket is a list with intact
rings whose contents are the callbacks registered under its name, none twice (a bucket that
the table lost is none, with none registered; the model bounds the loss to names that are not
being called), and the iterator of every active `cb_call` is `End` or inside the array of its
bucket. An iterator may then be stale, but what `cb_call` reads through it is a slot.
`LoopInv` adds where the loops stand: each active call is at a place p of its bucket or
behind its end, everything it owes is called or at p or behind it, and nothing behind p has
been called (`StandsAt`). Adding where there is room and removing a callback that is not
running keep every iterator at its item, so each action takes a place to a place; that is why
the theorem supposes that callbacks do neither `"grow"` nor `"remove_running"`, the two under
which `cb_call` skips callbacks or does not return. `MCCb` checks the same set of callers. It
is assumed that a bucket's bound is below `UINT_MAX` and that `NULL` is neither a callback
nor a list.

**Hashtable.** `IInv` says that the table is `Sound`: every item is in the bucket its hash
names, no bucket has a key twice, the count is the number of items, and the load is at most
one over the limit. So the one bucket that `ht_find` looks at holds all there is of a key,
and the refinement follows call by call. `GrownHasRoom` shows that the table after a growth
takes all items without growing again, which is why `Rehashed` need not recurse. The
assumption on the sizes is that the last is the largest; that is true of the code's table of
primes although its 24th entry is out of order. For the walks, `Offsets` counts the items in
front of each list: an iterator is at place n of the items when n is the offset of its list
plus its position in it (`AtPlace`). `ht_itr_next` goes from place n to n + 1 and from the
last to the end, because lists that it skips are empty and add nothing to the offset
(`NothingBetween`), and `ht_itr_rnext` goes the other way; an induction over the steps of the
walk does the rest (`ForthMeetsAll`, `BackMeetsAll`).

**Bitset.** `TypeOK` is inductive. The refinement rests on `WordInArray` (the word of every
bit below the size is in the array: rounding up against rounding down) and `PlacesApart` (two
bits do not share word and bit), so writing a place changes one member.

**Aiofd.** `HistoryTypes` and `InOrder` (accepted = reported followed by queued, position by
position) are inductive and hold under short writes too. `PartTypes` with `AllOrNothing`
covers creation and deletion; the handler is a part that a creation may lack. `TypeCorrect`
adds `AllLeft`: a queued buffer has all its bytes left, which is where short writes are
excluded.

**Events.** `SignalTypes` and `StackTypes` give the types. `Apart` adds that at most one
event has a signal other than SIGCHLD (`OneEach`), that libev watches SIGCHLD for the whole
life of the loop (`LoopWatches`), and that what an event saved is what was there before it
(`Saved`).

**Socket.** `Owned`: every `socket_t` is `Sound` (a descriptor exactly while it has an aiofd,
and the one that the kernel has open for it; `connected` exactly when the client was last
told so or the socket was accepted and nothing told since; a UDP socket without started
events), no two share a descriptor, and no lost one is in use. One lemma per C function says
that it takes a sound `socket_t` to a sound one that has its old descriptor, none, or the new
one.

**Child.** `CredsOK` and `DropKnown` for the ids: an effective id is always the real or the
saved one, so restoring finds its way back whichever calls failed. `ParentOK` gives only the
types of the parent's descriptors: nothing is assumed of the ones it starts with or closes.
If it has standard error and one of the other two at a fork (`Fit`, remembered in `fits`), at
most one end of the new pipes has a standard number (`NewEndsApart`), which is what the
rewiring needs. `KidsOK` for each child, phase by phase: told once (`ToldOnce`), ids as asked
(`IdsKnown`), the pipe ends differ (`PipesApart`), after closing only they are left
(`OnlyPipes`), and the program has them in their places (`Wired`). It is assumed that
descriptors are finitely many and ids are numbers. `EnvironFits` is inductive as it stands;
what it takes is arithmetic on sums (`TotalOfConcat`, `TotalOfPrefix`): a string begins at
the sum of the lengths before it, and the lengths that the second pass copies are those that
the first one counted (`BuiltFits`). Lengths are naturals there: that the texts of an
environment exist in memory keeps their sum from wrapping.

Recursive definitions over a sequence (`Total`, `InEnviron`, the walks, `Rehashed`,
`FlattenSeq`) are reasoned about through the values of their rounds: a function with the
first value and the steps exists (`Recursion`, `LoopEnds`), and a set of round numbers that
contains 0 and with each its successor contains all (`SetInduction`).

### Left to TLC

Liveness (`EveryBufferReported`, `StopEndsRuns`, `ExitIsTold`, `ConnectAnswered`,
`CallsReturn`), which these provers do not reach, and what the violation runs refute
(`WrittenWhole`, `WritesReachChild`, `ConnectTold`). `Btree`: balance, search order and the
thread are properties of subtrees of any depth, so that each rotation and each insertion
needs induction over trees, on nodes that are linked by pointers; six keys in every order
reach every rotation in every position (`MCBtree`).

## Not modelled

Operations that change no state the properties see: `aiofd_flush`, `socket_flush`,
`bt_print`, `child_process_read`. Addresses and their text, and with them the unlinking of a
UNIX socket's node and the address that `socket_read_from` leaves behind. The call of
`bt_remove` that dereferences NULL (966) leaves C's defined behaviour at once. The real table
of primes, whose 24th entry is out of order, is beyond TLC's bounds. `pair` is a record of
two fields that is written once and appears inlined in `Cb`. `buffer` (append with
reallocation), `log` (I/O through stdio) and `daemon` (a straight sequence of system calls)
are sequential, keep no state that two calls could disagree about and are not in the build.

## Plan

A run asks one component all its questions, and a question that needs another caller has a
run of its own; new components take the place of violation runs that have been acted on.

1. Deletion of a socket from inside a callback.
2. Runs of their own for the tail popped by its iterator, the accepted socket that nobody is
   told of and the `socket_new` that answers NULL, as the present findings are acted on.
3. `SearchOrder` of `Btree` as a theorem, as far as rotations and the thread allow it without
   induction over trees.
