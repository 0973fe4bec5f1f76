------------------------------- MODULE Btree -------------------------------
(***************************************************************************)
(* The balanced tree of src/btree.c, pointer by pointer: an AVL tree whose *)
(* nodes are threaded in key order and come from blocks of a free list.    *)
(* The value of a key goes with it and is left out; a cleared key is 0.    *)
(***************************************************************************)
EXTENDS Integers, FiniteSets, SequencesExt

CONSTANTS Keys,       \* the keys a caller adds, ordered as numbers
          Capacities, \* the initial capacities a caller asks for
          MaxNodes,   \* bound: no more nodes are allocated
          MaxAdds,    \* bound: no more keys are added, removed ones included
          MaxRemoves, \* bound: no more keys are removed from one tree
          Removes,    \* the keys a caller removes: "kept" or "any"
          AllocFails, \* may an allocation of nodes fail?
          NULL

ASSUME KeysAssumption == Keys \subseteq Nat \ {0} /\ NULL \notin 0 .. MaxNodes
ASSUME CapacitiesAssumption == Capacities \subseteq 1 .. MaxNodes /\ {MaxNodes, MaxAdds, MaxRemoves} \subseteq Nat
ASSUME CallerAssumption == Removes \in {"kept", "any"} /\ AllocFails \in BOOLEAN

VARIABLES live,    \* between bt_new and bt_delete
          btree,   \* the bt_t
          node,    \* the nodes: their fields
          aborted, \* did an ASSERT of bt_balance_tree fail?
          removed, \* history: the key bt_remove took and the others then found
          unthreaded \* history: was a node with children removed?

vars == <<live, btree, node, aborted, removed, unthreaded>>

Nodes == 1 .. MaxNodes
Sides == {"left", "right"}
Opposite(side) == IF side = "left" THEN "right" ELSE "left"

Blank == [key |-> 0, balance |-> 0, parent |-> NULL, left |-> NULL,
          right |-> NULL, next |-> NULL, prev |-> NULL]

(* free_list, a list through the next fields, is a sequence; blocks is how *)
(* many elements of node_list point to a block.                            *)
NoTree == [tree |-> NULL, size |-> 0, free_list |-> <<>>, num_lists |-> 0,
           list_size |-> 0, blocks |-> 0]

Init == /\ live = FALSE
        /\ btree = NoTree
        /\ node = [n \in Nodes |-> Blank]
        /\ aborted = FALSE
        /\ removed = NULL
        /\ unthreaded = FALSE

(* n->field = v, where n is not NULL. *)
Set(h, n, field, v) == IF n = NULL THEN h ELSE [h EXCEPT ![n][field] = v]

(* Mutant of Attach: a child does not learn its new parent. *)
AttachOneWay(h, p, side, c) == Set(h, p, side, c)

(* c becomes the child of p on one side. *)
Attach(h, p, side, c) == Set(Set(h, p, side, c), c, "parent", p)

bt_is_left_child(h, p, n) == h[p].left = n

SideOf(h, p, n) == IF bt_is_left_child(h, p, n) THEN "left" ELSE "right"

-----------------------------------------------------------------------------
(* Rotations.  h are the nodes with p's balance already at -2 or 2.  The   *)
(* nodes the code checks for are there: the balance of n was tipped on the *)
(* way up to p.                                                            *)

(* top takes the place of p under p's parent. *)
Replant(h, p, top, below) ==
  LET R == h[p].parent
  IN  IF R = NULL THEN Set(below, top, "parent", NULL)
                  ELSE Attach(below, R, SideOf(h, R, p), top)

(* bt_rotate_left is Rotate to the left, bt_rotate_right its mirror. *)
Rotate(h, p, to) ==
  LET from == Opposite(to)
      n == h[p][from]
      b == h[n][to]
      turned == Attach(Attach(h, p, from, b), n, to, p)
      level  == Set(Set(turned, n, "balance", 0), p, "balance", 0)
  IN  [h |-> Replant(h, p, n, level), top |-> n]

bt_rotate_left(h, p) == Rotate(h, p, "left")
bt_rotate_right(h, p) == Rotate(h, p, "right")

(* Mutant of Leaning: the rows of the table of balances are swapped. *)
LeaningSwapped(side, g) ==
  LET heavy == IF side = "left" THEN -1 ELSE 1
  IN  [n |-> IF g = heavy THEN -heavy ELSE 0, p |-> IF g = -heavy THEN -heavy ELSE 0]

(* The balances of n and p after a double rotation, by the balance of g. *)
Leaning(side, g) ==
  LET heavy == IF side = "left" THEN -1 ELSE 1
  IN  [n |-> IF g = -heavy THEN heavy ELSE 0, p |-> IF g = heavy THEN -heavy ELSE 0]

(* The grandchild g of p, inside its child n on side, rises above both. *)
RotateTwice(h, p, side) ==
  LET in  == Opposite(side)
      n   == h[p][side]
      g   == h[n][in]
      lean == Leaning(side, h[g].balance)
      h1  == Attach(Attach(h, n, in, h[g][side]), p, side, h[g][in])
      h2  == Attach(Attach(h1, g, side, n), g, in, p)
      h3  == Set(Set(Set(h2, n, "balance", lean.n), p, "balance", lean.p), g, "balance", 0)
  IN  [h |-> Replant(h, p, g, h3), top |-> g]

bt_rotate_left_right(h, p) == RotateTwice(h, p, "left")
bt_rotate_right_left(h, p) == RotateTwice(h, p, "right")

-----------------------------------------------------------------------------
(* bt_balance_tree after a leaf was added.  The loop climbs while the      *)
(* parents were even, tipping each, and ends at the root or at the first   *)
(* one that was not: that one becomes even, or is rotated.  ok says that   *)
(* the ASSERTs hold: a child that made its parent lean twice leans itself. *)
Ancestors(h, n) ==
  LET up[i \in 0 .. MaxNodes] ==
        IF i = 0 THEN n ELSE IF up[i - 1] = NULL THEN NULL ELSE h[up[i - 1]].parent
  IN  up

Tip(h, p, n) == IF bt_is_left_child(h, p, n) THEN -1 ELSE 1

bt_balance_tree(t, h, leaf) ==
  LET up   == Ancestors(h, leaf)
      stop == Min({i \in 1 .. MaxNodes : up[i] = NULL \/ h[up[i]].balance # 0})
      p    == up[stop]
      n    == up[stop - 1]
      tipped == [m \in Nodes |->
                   IF \E i \in 1 .. stop - 1 : up[i] = m
                     THEN [h[m] EXCEPT !.balance = Tip(h, m, up[(CHOOSE i \in 1 .. stop - 1 : up[i] = m) - 1])]
                     ELSE h[m]]
      now  == [tipped EXCEPT ![p].balance = @ + Tip(h, p, n)]
      done == CASE now[p].balance = -2 /\ now[n].balance = -1 -> bt_rotate_right(now, p)
                [] now[p].balance = -2 /\ now[n].balance =  1 -> bt_rotate_left_right(now, p)
                [] now[p].balance =  2 /\ now[n].balance = -1 -> bt_rotate_right_left(now, p)
                [] now[p].balance =  2 /\ now[n].balance =  1 -> bt_rotate_left(now, p)
                [] OTHER -> [h |-> now, top |-> p]
  IN  IF p = NULL THEN [t |-> t, h |-> tipped, ok |-> TRUE]
      ELSE [t  |-> IF h[p].parent = NULL THEN [t EXCEPT !.tree = done.top] ELSE t,
            h  |-> done.h,
            ok |-> now[p].balance = 0 \/ (now[p].balance \in {-2, 2} /\ now[n].balance \in {-1, 1})]

-----------------------------------------------------------------------------
(* The nodes met on the way to a key: the last is the one found or NULL. *)
Search(k) ==
  LET at[i \in 0 .. MaxNodes] ==
        IF i = 0 THEN btree.tree
        ELSE LET n == at[i - 1]
             IN  CASE n = NULL -> NULL
                   [] n # NULL /\ k < node[n].key -> node[n].left
                   [] n # NULL /\ k > node[n].key -> node[n].right
                   [] OTHER -> n
  IN  at

bt_find_node(k) == Search(k)[MaxNodes]

(* The node among some that was met last. *)
LastMet(at, some) ==
  LET met == {i \in 0 .. MaxNodes : at[i] \in some}
  IN  IF met = {} THEN NULL ELSE at[Max(met)]

(* Mutant of Threaded: the predecessor is not told. *)
ThreadedOneWay(h, n, pred, succ) ==
  Set(Set(Set(h, n, "next", succ), n, "prev", pred), succ, "prev", n)

(* n is threaded between its predecessor and its successor. *)
Threaded(h, n, pred, succ) ==
  Set(Set(Set(Set(h, n, "next", succ), n, "prev", pred), succ, "prev", n), pred, "next", n)

Duplicate(k) == bt_find_node(k) # NULL

(* bt_insert_node, of a key that is not in the tree t. *)
bt_insert_node(t, k) ==
  LET at   == Search(k)
      n    == Head(t.free_list)
      succ == LastMet(at, {m \in Nodes : k < node[m].key})
      pred == LastMet(at, {m \in Nodes : k > node[m].key})
      p    == LastMet(at, Nodes)
      leaf == [node EXCEPT ![n] = [Blank EXCEPT !.key = k, !.parent = p]]
      hung == IF p = NULL THEN leaf
              ELSE Set(leaf, p, IF k < node[p].key THEN "left" ELSE "right", n)
      root == IF p = NULL THEN n ELSE t.tree
  IN  bt_balance_tree([t EXCEPT !.tree = root, !.size = @ + 1, !.free_list = Tail(@)],
                      Threaded(hung, n, pred, succ), n)

(* Mutant of bt_add_more_nodes: the last node of a block is not linked. *)
bt_add_more_nodes_Short(t, alloc) ==
  LET from == t.blocks * t.list_size
  IN  [t EXCEPT !.num_lists = @ + 1, !.blocks = @ + 1,
                !.free_list = [i \in 1 .. t.list_size - 1 |-> from + i]]

(* bt_add_more_nodes counts the block before it is there. *)
bt_add_more_nodes(t, alloc) ==
  LET from == t.blocks * t.list_size
  IN  IF alloc
        THEN [t EXCEPT !.num_lists = @ + 1, !.blocks = @ + 1,
                       !.free_list = [i \in 1 .. t.list_size |-> from + i]]
        ELSE [t EXCEPT !.num_lists = @ + 1]

Allocs == IF AllocFails THEN BOOLEAN ELSE {TRUE}

-----------------------------------------------------------------------------
(* bt_new returns a tree even when it has no nodes. *)
bt_new(capacity) ==
  /\ ~live /\ ~aborted
  /\ live' = TRUE
  /\ \E alloc \in Allocs :
       btree' = bt_add_more_nodes([NoTree EXCEPT !.list_size = capacity], alloc)
  /\ node' = [n \in Nodes |-> Blank]
  /\ removed' = NULL
  /\ unthreaded' = FALSE
  /\ UNCHANGED aborted

(* bt_delete walks the num_lists blocks of node_list, so a caller that has *)
(* seen an allocation fail cannot make the call.                           *)
bt_delete ==
  /\ live /\ btree.num_lists = btree.blocks
  /\ live' = FALSE
  /\ btree' = NoTree
  /\ node' = [n \in Nodes |-> Blank]
  /\ removed' = NULL
  /\ unthreaded' = FALSE
  /\ UNCHANGED aborted

(* Bounds: MaxAdds, and MaxNodes until an allocation fails.  When an       *)
(* ASSERT fails the process ends.                                          *)
bt_add(k) ==
  /\ live /\ btree.size < MaxAdds
  /\ btree.num_lists = btree.blocks
  /\ btree.free_list = <<>> => (btree.blocks + 1) * btree.list_size <= MaxNodes
  /\ \E alloc \in Allocs :
       LET t == IF btree.free_list = <<>> THEN bt_add_more_nodes(btree, alloc) ELSE btree
           added == bt_insert_node(t, k)
       IN  IF t.free_list = <<>> \/ Duplicate(k)
             THEN btree' = t /\ UNCHANGED <<node, live, aborted>>
             ELSE /\ btree' = added.t /\ node' = added.h
                  /\ aborted' = ~added.ok
                  /\ live' = added.ok
  /\ removed' = NULL
  /\ UNCHANGED unthreaded

(* Mutant of bt_replace_node, for a leaf: both children are unlinked. *)
bt_replace_node_Both(h, p, s) ==
  LET h1 == Set(Set(h, h[p].parent, "left", s), h[p].parent, "right", s)
      h2 == Set(Set(h1, h[p].prev, "next", h[p].next), h[p].next, "prev", h[p].prev)
  IN  [h2 EXCEPT ![p] = [Blank EXCEPT !.key = h[p].key]]

(* bt_replace_node: s takes the place of p, with p's threads and without   *)
(* p's children.                                                           *)
bt_replace_node(h, p, s) ==
  LET R  == h[p].parent
      h1 == IF R = NULL THEN h ELSE Set(h, R, SideOf(h, R, p), s)
      h2 == Set(h1, s, "parent", R)
      h3 == IF h[p].prev = NULL THEN h2
            ELSE Set(Set(h2, s, "prev", h[p].prev), h[p].prev, "next", IF s = NULL THEN h[p].next ELSE s)
      h4 == IF h[p].next = NULL THEN h3
            ELSE Set(Set(h3, s, "next", h[p].next), h[p].next, "prev", IF s = NULL THEN h[p].prev ELSE s)
  IN  [h4 EXCEPT ![p] = [Blank EXCEPT !.key = h[p].key, !.balance = h[p].balance]]

bt_find_tree_min(h, n) ==
  LET down[i \in 0 .. MaxNodes] ==
        IF i = 0 THEN n ELSE IF h[down[i - 1]].left = NULL THEN down[i - 1] ELSE h[down[i - 1]].left
  IN  down[MaxNodes]

bt_find_tree_max(h, n) ==
  LET down[i \in 0 .. MaxNodes] ==
        IF i = 0 THEN n ELSE IF h[down[i - 1]].right = NULL THEN down[i - 1] ELSE h[down[i - 1]].right
  IN  down[MaxNodes]

(* The nodes of the tree in key order; d bounds the depth. *)
InOrder ==
  LET walk[d \in 0 .. MaxNodes, n \in Nodes \cup {NULL}] ==
        IF n = NULL \/ d = 0 THEN <<>>
        ELSE walk[d - 1, node[n].left] \o <<n>> \o walk[d - 1, node[n].right]
  IN  walk[MaxNodes, btree.tree]

(* bt_remove.  Neither the root nor the size is updated, nothing is        *)
(* balanced, and a right child without left children needs a left one.     *)
(* The children of p go with it when the successor comes from deeper in    *)
(* its right subtree (case 3), and all keys when p is the root; "kept"     *)
(* stands for a caller that removes no such key.                           *)
bt_remove(k) ==
  LET p == bt_find_node(k)
      r == node[p].right
      s == bt_find_tree_min(node, r)
      without ==
        CASE r = NULL -> bt_replace_node(node, p, node[p].left)
          [] r # NULL /\ node[r].left = NULL ->
               bt_replace_node(Attach(node, r, "left", node[p].left), p, r)
          [] OTHER -> bt_replace_node(bt_replace_node(node, s, node[s].right), p, s)
      kept == node[p].parent # NULL /\ (r # NULL => node[r].left = NULL)
  IN  /\ live
      /\ p # NULL
      /\ btree.size - Len(InOrder) < MaxRemoves
      /\ Removes = "any" \/ kept
      /\ r # NULL => node[p].left # NULL \/ node[r].left # NULL
      /\ node' = Set(without, p, "key", 0)
      /\ btree' = [btree EXCEPT !.free_list = <<p>> \o @]
      /\ removed' = [key |-> k, others |-> {m \in Keys \ {k} : bt_find_node(m) # NULL}]
      /\ unthreaded' = (unthreaded \/ {node[p].left, r} # {NULL})
      /\ UNCHANGED <<live, aborted>>

Next == \/ \E capacity \in Capacities : bt_new(capacity)
        \/ bt_delete
        \/ \E k \in Keys : bt_add(k)
        \/ \E k \in Keys : bt_remove(k)

Spec == Init /\ [][Next]_vars

-----------------------------------------------------------------------------
(* The height of a subtree; d bounds the depth. *)
Height(n) ==
  LET high[d \in 0 .. MaxNodes, m \in Nodes \cup {NULL}] ==
        IF m = NULL \/ d = 0 THEN 0
        ELSE LET l == high[d - 1, node[m].left]
                 r == high[d - 1, node[m].right]
             IN  1 + IF l > r THEN l ELSE r
  IN  high[MaxNodes, n]

(* Every variable has its type; the blocks hold all nodes, each in the     *)
(* tree or on the free list and never in both.                             *)
TypeOK ==
  /\ live \in BOOLEAN
  /\ \A n \in Nodes : node[n].key \in Keys \cup {0} /\ (aborted \/ node[n].balance \in -1 .. 1)
  /\ btree.tree \in Nodes \cup {NULL}
  /\ IsInjective(InOrder \o btree.free_list)
  /\ Range(InOrder \o btree.free_list) = 1 .. btree.blocks * btree.list_size

(* The balance factor of every node is the difference of the heights of    *)
(* its subtrees and within -1 .. 1, after any sequence of insertions, as   *)
(* long as none is removed: size, which bt_remove does not decrement, is   *)
(* then the number of nodes.                                               *)
Balanced ==
  btree.size = Len(InOrder) =>
    \A n \in Range(InOrder) :
       /\ node[n].balance = Height(node[n].right) - Height(node[n].left)
       /\ node[n].balance \in -1 .. 1

(* The keys ascend in order, each once, and every child knows its parent,  *)
(* so that a search finds every key whatever rotations took place.         *)
SearchOrder ==
  /\ \A i, j \in DOMAIN InOrder : i < j => node[InOrder[i]].key < node[InOrder[j]].key
  /\ \A n \in Range(InOrder), side \in Sides :
        node[n][side] # NULL => node[node[n][side]].parent = n
  /\ btree.tree # NULL => node[btree.tree].parent = NULL

(* The nodes from n on along the threads; field is "next" or "prev". *)
Threads(n, field) ==
  LET along[d \in 0 .. MaxNodes, m \in Nodes \cup {NULL}] ==
        IF m = NULL \/ d = 0 THEN <<>> ELSE <<m>> \o along[d - 1, node[m][field]]
  IN  along[MaxNodes, n]

(* bt_itr_next from bt_itr_begin meets the nodes in key order, bt_itr_rnext *)
(* from bt_itr_rbegin in the opposite order, as long as bt_remove took     *)
(* only leaves: the child that takes the place of a removed node is        *)
(* threaded to itself (btree.c:897-907), and an iterator never leaves it.  *)
IteratesInOrder ==
  btree.tree # NULL /\ ~unthreaded =>
    /\ Threads(bt_find_tree_min(node, btree.tree), "next") = InOrder
    /\ Threads(bt_find_tree_max(node, btree.tree), "prev") = Reverse(InOrder)

(* bt_remove takes its key out of the tree and no other, from leaves and   *)
(* from nodes with children below the root, as btree.h:65 says.  Left out  *)
(* by Removes = "kept" are the root and the nodes whose right child has a  *)
(* left child: there the code loses other keys.                            *)
RemoveKeepsOthers ==
  removed # NULL =>
     /\ bt_find_node(removed.key) = NULL
     /\ \A k \in removed.others : bt_find_node(k) # NULL
=============================================================================
