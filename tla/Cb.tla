--------------------------------- MODULE Cb ---------------------------------
(***************************************************************************)
(* The callback registry of src/cb.c: named lists of callbacks, and        *)
(* cb_call, which runs the callbacks of a name while they themselves may   *)
(* call back into the registry.                                            *)
(*                                                                         *)
(* A callback is a (ctx, fn) pair.  A bucket is the list_t of the pairs    *)
(* under a name; the hash table that maps names to buckets is a function   *)
(* here (src/hashtable.c is modelled on its own).  stack holds the active  *)
(* cb_call frames, innermost last; each keeps the iterator that its loop   *)
(* carries across the call of a callback.                                  *)
(***************************************************************************)
EXTENDS ListOps, Sequences, SequencesExt

CONSTANTS Names,       \* the names callbacks are registered under
          Callbacks,   \* the (ctx, fn) pairs
          Uses,        \* name -> the callbacks the program adds under it
          MayRun,      \* what callbacks do: subset of CallKinds
          Removals,    \* does the program outside callbacks remove any?
          MaxCalls,    \* bound: calls into the registry by one callback
          MaxDepth,    \* bound: nested cb_calls
          MaxSize      \* bound: slots of a bucket list

(* "grow" is the adding of a callback to a bucket that has no room.        *)
CallKinds == {"add", "grow", "remove_running", "remove_other", "call"}

ASSUME CallbacksAssumption == NULL \notin Callbacks
ASSUME UsesAssumption == Uses \in [Names -> SUBSET Callbacks]
ASSUME KindsAssumption == MayRun \subseteq CallKinds /\ Removals \in BOOLEAN
ASSUME BoundsAssumption == /\ {MaxCalls, MaxDepth, MaxSize, UINT_MAX} \subseteq Nat
                           /\ MaxSize < UINT_MAX

(* A list_t of n slots that hold callbacks or nothing. *)
Links(n) == {End} \cup 0 .. n - 1

ListT(n) ==
  [dfn : BOOLEAN, size : {n}, count : 0 .. n, used_head : Links(n), free_head : Links(n),
   items : [0 .. n - 1 -> [next : Links(n), prev : Links(n), used : BOOLEAN,
                           data : Callbacks \cup {NULL}]]]

ASSUME NullAssumption == \A n \in 0 .. MaxSize : NULL \notin ListT(n)

VARIABLES bucket,      \* name -> its list_t, or NULL
          stack,       \* the active cb_calls
          out,         \* what the last call returned, and what it had to do
          registered   \* history: the callbacks under each name, in order

vars == <<bucket, stack, out, registered>>

Init == /\ bucket = [n \in Names |-> NULL]
        /\ stack = <<>>
        /\ out = [ret |-> FALSE, owed |-> {}, called |-> <<>>]
        /\ registered = [n \in Names |-> <<>>]

Answer(ret) == [ret |-> ret, owed |-> {}, called |-> <<>>]

-----------------------------------------------------------------------------
(* find_bucket allocates a pair to search with: no memory, no bucket. *)
find_bucket(name, alloc) == IF alloc THEN bucket[name] ELSE NULL

get_cb_itr(l, c) ==
  LET w     == Walk(l)
      found == {k \in 0 .. WalkLength(l) - 1 : list_get(l, w[k]) = c}
  IN  IF found = {} THEN End ELSE w[CHOOSE k \in found : \A j \in found : k <= j]

(* The callbacks whose cb_call loop stands at them. *)
Running == {f.callback : f \in Range(stack)}

(* The program is between two calls, or a callback is, and may make one    *)
(* of this kind.                                                           *)
MayCall(kind) ==
  IF stack = <<>> THEN TRUE
  ELSE Last(stack).callback # NULL /\ Last(stack).calls > 0 /\ kind \in MayRun

(* The stack after the running callback made one more call. *)
Charged == IF stack = <<>> THEN <<>> ELSE [stack EXCEPT ![Len(stack)].calls = @ - 1]

(* The allocations of cb_add, in order, and the one of them that fails. *)
AddFailures == {"none", "find", "name", "list", "bucket", "pair", "push", "insert"}

(* Mutant of cb_added: no check that the pair is there already. *)
cb_added_NoCheck(name, c, fail) ==
  LET l == find_bucket(name, fail # "find")
  IN  IF l = NULL
      THEN IF fail \in {"name", "list", "bucket", "pair", "insert"} \/ bucket[name] # NULL
             THEN [list |-> bucket[name], ret |-> FALSE]
             ELSE list_push_tail(list_init(1, TRUE, TRUE).list, c, TRUE)
      ELSE IF fail = "pair" THEN [list |-> l, ret |-> FALSE]
      ELSE list_push_tail(l, c, fail # "push")

(* The bucket under name after cb_add.  Without a bucket a list of         *)
(* capacity 1 is made for it, the pair goes in, and ht_insert adds it,     *)
(* unless there is a bucket under that name after all.                     *)
cb_added(name, c, fail) ==
  LET l == find_bucket(name, fail # "find")
  IN  IF l = NULL
      THEN IF fail \in {"name", "list", "bucket", "pair", "insert"} \/ bucket[name] # NULL
             THEN [list |-> bucket[name], ret |-> FALSE]
             ELSE list_push_tail(list_init(1, TRUE, TRUE).list, c, TRUE)
      ELSE IF get_cb_itr(l, c) # End \/ fail = "pair" THEN [list |-> l, ret |-> FALSE]
      ELSE list_push_tail(l, c, fail # "push")

(* The names that cb_add of another may lose.  ht_insert of a new bucket   *)
(* may grow the table, and ht_grow drops a bucket whose insertion into the *)
(* larger table fails without a word (hashtable.c:414); the new bucket may *)
(* get in all the same.  Bound: a name that is being called is not lost    *)
(* (its cb_call would go on over the list that nothing leads to any more). *)
Losable(name, fail) ==
  IF bucket[name] # NULL \/ fail \in {"name", "list", "bucket", "pair"} THEN {}
  ELSE {n \in Names : bucket[n] # NULL} \ {f.name : f \in Range(stack)}

(* Callbacks do not add one again that an active cb_call has called: two   *)
(* that remove and add each other would keep it from ever returning.       *)
cb_add(name, c, fail, lost) ==
  LET added == cb_added(name, c, fail)
      full  == bucket[name] # NULL /\ bucket[name].count = bucket[name].size
  IN  /\ MayCall(IF full THEN "grow" ELSE "add")
      /\ \A i \in DOMAIN stack : c \notin Range(stack[i].called)
      /\ added.ret => added.list.size <= MaxSize
      /\ lost \subseteq Losable(name, fail)
      /\ bucket' = [n \in Names |-> IF n = name THEN added.list
                                    ELSE IF n \in lost THEN NULL ELSE bucket[n]]
      /\ registered' = [n \in Names |-> IF n = name /\ added.ret THEN Append(registered[n], c)
                                        ELSE IF n \in lost THEN <<>> ELSE registered[n]]
      /\ stack' = Charged
      /\ out' = Answer(added.ret)

(* A call that has not finished does not owe a removed callback a turn. *)
Excused(name, c) ==
  [i \in DOMAIN Charged |-> IF Charged[i].name = name
                            THEN [Charged[i] EXCEPT !.owed = @ \ {c}] ELSE Charged[i]]

(* Mutant of remove_cb: the first callback goes instead. *)
remove_cb_First(l, c) == list_pop(l, list_itr_begin(l), FALSE).list

(* The bucket stays in the table when its last callback goes. *)
remove_cb(l, c) == list_pop(l, get_cb_itr(l, c), FALSE).list

cb_remove(name, c, alloc) ==
  LET l     == find_bucket(name, alloc)
      found == l # NULL /\ get_cb_itr(l, c) # End
  IN  /\ IF stack = <<>> THEN Removals
                         ELSE MayCall(IF c \in Running THEN "remove_running" ELSE "remove_other")
      /\ bucket' = IF found THEN [bucket EXCEPT ![name] = remove_cb(l, c)] ELSE bucket
      /\ registered' = IF found
                         THEN [registered EXCEPT ![name] = RemoveFirst(@, c)]
                         ELSE registered
      /\ stack' = IF found THEN Excused(name, c) ELSE Charged
      /\ out' = Answer(found)

cb_has(name, alloc) ==
  LET l == find_bucket(name, alloc)
  IN  /\ MayCall("call")
      /\ out' = Answer(l # NULL /\ l.count > 0)
      /\ stack' = Charged
      /\ UNCHANGED <<bucket, registered>>

(* cb_delete, from outside callbacks: every bucket and pair goes.  The     *)
(* program goes on with a new registry.                                    *)
cb_delete ==
  /\ stack = <<>>
  /\ bucket' = [n \in Names |-> NULL]
  /\ registered' = [n \in Names |-> <<>>]
  /\ out' = Answer(TRUE)
  /\ UNCHANGED stack

-----------------------------------------------------------------------------
(* cb_call up to the loop: the frame of the call. *)
cb_call(name, alloc) ==
  LET l     == find_bucket(name, alloc)
      frame == [name |-> name, itr |-> list_itr_begin(l), callback |-> NULL, calls |-> 0,
                called |-> <<>>, owed |-> Range(registered[name])]
  IN  /\ MayCall("call")
      /\ Len(stack) < MaxDepth
      /\ IF l = NULL THEN stack' = Charged /\ out' = Answer(FALSE)
                     ELSE stack' = Append(Charged, frame) /\ UNCHANGED out
      /\ UNCHANGED <<bucket, registered>>

InLoop == stack # <<>> /\ Last(stack).callback = NULL

(* The head of the loop body: the callback at itr is called; a slot        *)
(* without one is skipped.                                                 *)
EnterCallback ==
  LET f == Last(stack)
      l == bucket[f.name]
      c == list_get(l, f.itr)
      g == IF c # NULL THEN [f EXCEPT !.callback = c, !.called = Append(@, c), !.calls = MaxCalls]
                       ELSE [f EXCEPT !.itr = list_itr_next(l, @)]
  IN  /\ InLoop
      /\ f.itr # End
      /\ stack' = [stack EXCEPT ![Len(stack)] = g]
      /\ UNCHANGED <<bucket, out, registered>>

(* Mutants of CallbackReturn: the iterator is taken for an array index, or *)
(* it is advanced in the loop body as well.                                *)
CallbackReturn_Index ==
  LET f == Last(stack)
  IN  /\ stack # <<>> /\ f.callback # NULL
      /\ stack' = [stack EXCEPT ![Len(stack)] =
                     [f EXCEPT !.itr = @ + 1,
                               !.callback = NULL, !.calls = 0]]
      /\ UNCHANGED <<bucket, out, registered>>

CallbackReturn_TwoSteps ==
  LET f == Last(stack)
  IN  /\ stack # <<>> /\ f.callback # NULL
      /\ stack' = [stack EXCEPT ![Len(stack)] =
                     [f EXCEPT !.itr = list_itr_next(bucket[f.name], list_itr_next(bucket[f.name], @)),
                               !.callback = NULL, !.calls = 0]]
      /\ UNCHANGED <<bucket, out, registered>>

(* The callback returns and the loop goes on from the iterator it kept.    *)
CallbackReturn ==
  LET f == Last(stack)
  IN  /\ stack # <<>> /\ f.callback # NULL
      /\ stack' = [stack EXCEPT ![Len(stack)] =
                     [f EXCEPT !.itr = list_itr_next(bucket[f.name], @),
                               !.callback = NULL, !.calls = 0]]
      /\ UNCHANGED <<bucket, out, registered>>

(* The loop is over: cb_call returns whether it called anything. *)
CallReturn ==
  LET f == Last(stack)
  IN  /\ InLoop
      /\ f.itr = End
      /\ stack' = Front(stack)
      /\ out' = [ret |-> f.called # <<>>, owed |-> f.owed, called |-> f.called]
      /\ UNCHANGED <<bucket, registered>>

Next ==
  \/ \E n \in Names, fail \in AddFailures :
       \E c \in Uses[n], lost \in SUBSET Losable(n, fail) : cb_add(n, c, fail, lost)
  \/ \E n \in Names, alloc \in BOOLEAN : \E c \in Uses[n] : cb_remove(n, c, alloc)
  \/ \E n \in Names, alloc \in BOOLEAN : cb_has(n, alloc)
  \/ cb_delete
  \/ \E n \in Names, alloc \in BOOLEAN : cb_call(n, alloc)
  \/ EnterCallback
  \/ CallbackReturn
  \/ CallReturn

(* The loop runs on and callbacks return. *)
Fairness == /\ WF_vars(EnterCallback)
            /\ WF_vars(CallbackReturn)
            /\ WF_vars(CallReturn)

Spec == Init /\ [][Next]_vars /\ Fairness

-----------------------------------------------------------------------------
Frame == [name : Names, itr : Links(MaxSize), callback : Callbacks \cup {NULL},
          calls : 0 .. MaxCalls, called : Seq(Callbacks),
          owed : SUBSET Callbacks]

(* Frames, answers and buckets have their types: the iterator that a       *)
(* cb_call carries across a callback stays within the slots of its bucket. *)
TypeOK ==
  /\ \A n \in Names : bucket[n] # NULL => \E m \in 0 .. MaxSize : bucket[n] \in ListT(m)
  /\ \A i \in DOMAIN stack : /\ stack[i] \in Frame
                             /\ stack[i].itr < bucket[stack[i].name].size
  /\ out.ret \in BOOLEAN

(* A bucket lists the callbacks that were added and not removed, in the    *)
(* order they were added and none twice, however the slots were recycled   *)
(* and whichever allocation of cb_add failed in between.  The one way a    *)
(* callback goes without cb_remove is that a rehash in ht_insert loses its *)
(* name (Losable): then every callback under the name goes and cb_call of  *)
(* it finds no bucket; no other name is left with a part of its list.      *)
BucketsInOrder ==
  \A n \in Names :
    /\ IF bucket[n] = NULL THEN registered[n] = <<>> ELSE Contents(bucket[n]) = registered[n]
    /\ IsInjective(registered[n])

(* cb_call calls every callback that is under the name from its start to   *)
(* its end exactly once, although callbacks add, remove and call others    *)
(* while its loop holds on to an index into the list.                      *)
CallsEachOnce ==
  \A c \in out.owed : Cardinality({i \in DOMAIN out.called : out.called[i] = c}) = 1

(* cb_call returns whenever every callback does. *)
CallsReturn == (stack # <<>>) ~> (stack = <<>>)
=============================================================================
