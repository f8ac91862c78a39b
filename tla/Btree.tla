------------------------------- MODULE Btree -------------------------------
(***************************************************************************)
(* The B-tree of test_dll/btree.h, as TestBTree (test_dll/main.cpp) uses   *)
(* it.  The nodes live in a heap indexed by node identities; DOMAIN heap   *)
(* is the set of nodes allocated and not freed, 0 is the null pointer.  A  *)
(* node keeps the part of its arrays that is in use: keys[0..n-1] and      *)
(* p[0..n], so n is Len(keys).  Positions are those of the code, from 0.   *)
(* Each call runs to completion on its caller's thread: one action each.   *)
(***************************************************************************)
EXTENDS Integers, FiniteSets, Sequences, SequencesExt

CONSTANTS
  M,        \* order of the tree: 4 for TestBTree, 3 by default
  MaxKey,   \* the keys are 1..MaxKey
  Junk      \* what delUpper may find in the slot behind a node's last key

Key == 1..MaxKey
None == 0

VARIABLES
  heap,     \* the allocated nodes
  root,     \* Btree::root
  call,     \* the last call: its name and its argument
  ret,      \* what the last call returned
  found     \* the 'found' of the last removeUpper that returned true

vars == <<heap, root, call, ret, found>>

minKeys == (M - 1) \div 2
splitPos == (M - 1) \div 2

\* TestBTree::allocNode and freeNode.
allocNode(h) == CHOOSE a \in 1..(Cardinality(DOMAIN h) + 1) : a \notin DOMAIN h
freeNode(h, ptr) == [a \in DOMAIN h \ {ptr} |-> h[a]]

\* A write to a node, new or not.
Store(h, ptr, node) ==
  [a \in DOMAIN h \cup {ptr} |-> IF a = ptr THEN node ELSE h[a]]

keys(h, ptr) == h[ptr].keys
p(h, ptr) == h[ptr].p
Size(h, ptr) == Len(h[ptr].keys)
IsLeaf(h, ptr) == p(h, ptr)[1] = 0

\* The position of the first key that is not below 'key'.
searchPos(key, ks) == Cardinality({i \in 1..Len(ks) : \A j \in 1..i : key > ks[j]})

-----------------------------------------------------------------------------
(* insert                                                                  *)

\* A full node is split around its middle key.  r holds the key and the node
\* that come up from the child at pos.
splitNode(ptr, pos, r) ==
  LET ks == InsertAt(keys(r.h, ptr), pos + 1, r.key)
      ps == InsertAt(p(r.h, ptr), pos + 2, r.node)
      new == allocNode(r.h)
      left == [keys |-> SubSeq(ks, 1, splitPos), p |-> SubSeq(ps, 1, splitPos + 1)]
      right == [keys |-> SubSeq(ks, splitPos + 2, M), p |-> SubSeq(ps, splitPos + 2, M + 1)]
  IN [h |-> Store(Store(r.h, ptr, left), new, right), status |-> "InsertIt",
      key |-> ks[splitPos + 1], node |-> new]

\* A node with room takes the key and the node that come up.
addToNode(ptr, r) ==
  LET pos == searchPos(r.key, keys(r.h, ptr))
      node == [keys |-> InsertAt(keys(r.h, ptr), pos + 1, r.key),
               p |-> InsertAt(p(r.h, ptr), pos + 2, r.node)]
  IN [r EXCEPT !.h = Store(r.h, ptr, node), !.status = "Success"]

RECURSIVE ins(_, _, _)
ins(h, ptr, key) ==
  IF ptr = 0 THEN [h |-> h, status |-> "InsertIt", key |-> key, node |-> 0]
  ELSE LET n == Size(h, ptr)
           pos == searchPos(key, keys(h, ptr))
           r == ins(h, p(h, ptr)[pos + 1], key)
       IN CASE pos < n /\ key = keys(h, ptr)[pos + 1] ->
                 [h |-> h, status |-> "Duplicate", key |-> key, node |-> 0]
            [] OTHER ->
                 CASE r.status # "InsertIt" -> r
                   [] r.status = "InsertIt" /\ n < M - 1 -> addToNode(ptr, r)
                   [] OTHER -> splitNode(ptr, pos, r)

insert(key) ==
  LET r == ins(heap, root, key)
      new == allocNode(r.h)
  IN /\ IF r.status = "InsertIt"
        THEN /\ root' = new
             /\ heap' = Store(r.h, new, [keys |-> <<r.key>>, p |-> <<root, r.node>>])
        ELSE heap' = r.h /\ UNCHANGED root
     /\ call' = <<"insert", key>>
     /\ ret' = (r.status # "Duplicate")
     /\ found' = None

-----------------------------------------------------------------------------
(* contains                                                                *)

RECURSIVE lookup(_, _, _)
lookup(h, ptr, key) ==
  /\ ptr # 0
  /\ LET pos == searchPos(key, keys(h, ptr))
     IN \/ pos < Size(h, ptr) /\ key = keys(h, ptr)[pos + 1]
        \/ ~(pos < Size(h, ptr) /\ key = keys(h, ptr)[pos + 1])
           /\ lookup(h, p(h, ptr)[pos + 1], key)

contains(key) ==
  /\ call' = <<"contains", key>>
  /\ ret' = lookup(heap, root, key)
  /\ found' = None
  /\ UNCHANGED <<heap, root>>

-----------------------------------------------------------------------------
(* remove and removeUpper                                                  *)

\* Shift keys and pointers left over the key at pos, then --n.
dropKey(node, pos) ==
  LET n == Len(node.keys)
  IN [keys |-> [i \in 1..(n - 1) |-> node.keys[IF i > pos THEN i + 1 ELSE i]],
      p |-> [i \in 1..n |-> node.p[IF i > pos + 1 THEN i + 1 ELSE i]]]

\* --n >= (ptr == root ? 1 : min) ? Success : LessKeys
Shrunk(ptr, n) == IF n >= (IF ptr = root THEN 1 ELSE minKeys) THEN "Success" ELSE "LessKeys"

removeFromLeaf(h, ptr, pos, fkey) ==
  [h |-> Store(h, ptr, dropKey(h[ptr], pos)),
   status |-> Shrunk(ptr, Size(h, ptr) - 1), fkey |-> fkey]

\* The last key below ptr changes places with the key at pos of node at.
RECURSIVE lastLeaf(_, _)
lastLeaf(h, ptr) ==
  LET q == Last(p(h, ptr)) IN IF q = 0 THEN ptr ELSE lastLeaf(h, q)

\* Mutant of swapWithLast: the first key of the leaf is taken.
swapWithFirst(h, at, pos) ==
  LET q == lastLeaf(h, p(h, at)[pos + 1])
      key == keys(h, at)[pos + 1]
      h2 == [h EXCEPT ![at].keys[pos + 1] = Head(keys(h, q))]
  IN [h2 EXCEPT ![q].keys[1] = key]

swapWithLast(h, at, pos) ==
  LET q == lastLeaf(h, p(h, at)[pos + 1])
      key == keys(h, at)[pos + 1]
      h2 == [h EXCEPT ![at].keys[pos + 1] = Last(keys(h, q))]
  IN [h2 EXCEPT ![q].keys[Size(h, q)] = key]

\* The child at pos takes a key from its left or right neighbour, through the
\* pivot key of its parent.
borrowLeft(h, ptr, pos) ==
  LET l == p(h, ptr)[pos]
      r == p(h, ptr)[pos + 1]
  IN [h EXCEPT ![r] = [keys |-> <<keys(h, ptr)[pos]>> \o keys(h, r),
                       p |-> <<Last(p(h, l))>> \o p(h, r)],
               ![l] = [keys |-> Front(keys(h, l)), p |-> Front(p(h, l))],
               ![ptr].keys[pos] = Last(keys(h, l))]

borrowRight(h, ptr, pos) ==
  LET l == p(h, ptr)[pos + 1]
      r == p(h, ptr)[pos + 2]
  IN [h EXCEPT ![l] = [keys |-> Append(keys(h, l), keys(h, ptr)[pos + 1]),
                       p |-> Append(p(h, l), Head(p(h, r)))],
               ![r] = [keys |-> Tail(keys(h, r)), p |-> Tail(p(h, r))],
               ![ptr].keys[pos + 1] = Head(keys(h, r))]

\* The child at pos is merged with its right neighbour, or with its left one
\* when it is the last; the right node of the two is freed.
merge(h, ptr, pos) ==
  LET pivot == IF pos = Size(h, ptr) THEN pos - 1 ELSE pos
      l == p(h, ptr)[pivot + 1]
      r == p(h, ptr)[pivot + 2]
      both == [keys |-> Append(keys(h, l), keys(h, ptr)[pivot + 1]) \o keys(h, r),
               p |-> p(h, l) \o p(h, r)]
  IN freeNode([h EXCEPT ![l] = both, ![ptr] = dropKey(h[ptr], pos)], r)

\* Mutant of balance: a neighbour with the minimum number of keys gives one.
balanceFromMinimum(ptr, pos, res) ==
  IF pos > 0
  THEN [res EXCEPT !.h = borrowLeft(res.h, ptr, pos), !.status = "Success"]
  ELSE [res EXCEPT !.h = borrowRight(res.h, ptr, pos), !.status = "Success"]

\* What del and delUpper do when the child at pos has too few keys left.
balance(ptr, pos, res) ==
  LET h == res.h
      n == Size(h, ptr)
  IN CASE pos > 0 /\ Size(h, p(h, ptr)[pos]) > minKeys ->
            [res EXCEPT !.h = borrowLeft(h, ptr, pos), !.status = "Success"]
       [] ~(pos > 0 /\ Size(h, p(h, ptr)[pos]) > minKeys)
          /\ pos < n /\ Size(h, p(h, ptr)[pos + 2]) > minKeys ->
            [res EXCEPT !.h = borrowRight(h, ptr, pos), !.status = "Success"]
       [] OTHER ->
            [res EXCEPT !.h = merge(h, ptr, pos), !.status = Shrunk(ptr, n - 1)]

RECURSIVE del(_, _, _)
del(h, ptr, key) ==
  IF ptr = 0 THEN [h |-> h, status |-> "SearchFailure", fkey |-> None]
  ELSE LET n == Size(h, ptr)
           pos == searchPos(key, keys(h, ptr))
           here == pos < n /\ key = keys(h, ptr)[pos + 1]
           res == del(IF here THEN swapWithLast(h, ptr, pos) ELSE h,
                      p(h, ptr)[pos + 1], key)
       IN CASE IsLeaf(h, ptr) /\ ~here ->
                 [h |-> h, status |-> "SearchFailure", fkey |-> None]
            [] IsLeaf(h, ptr) /\ here -> removeFromLeaf(h, ptr, pos, None)
            [] ~IsLeaf(h, ptr) ->
                 IF res.status = "LessKeys" THEN balance(ptr, pos, res) ELSE res

\* delUpper removes the least key that is not below 'key'.  When the child at
\* pos has none, it is key_arr[pos]: the code also reads that slot when pos = n.
\* There it finds a stale key, or the bits of p[0] when the node is full: any
\* value of Junk, one choice per level.
RECURSIVE delUpper(_, _, _, _)
delUpper(h, ptr, key, junk) ==
  IF ptr = 0 THEN [h |-> h, status |-> "SearchFailure", fkey |-> None]
  ELSE LET n == Size(h, ptr)
           pos == searchPos(key, keys(h, ptr))
           child == p(h, ptr)[pos + 1]
           here == pos < n /\ key = keys(h, ptr)[pos + 1]
           first == delUpper(IF here THEN swapWithLast(h, ptr, pos) ELSE h,
                             child, key, Tail(junk))
           upper == IF pos < n THEN keys(first.h, ptr)[pos + 1] ELSE Head(junk)
           retry == delUpper(IF pos < n THEN swapWithLast(first.h, ptr, pos) ELSE first.h,
                             child, upper, Tail(junk))
           res == IF first.status = "SearchFailure" /\ key < upper THEN retry ELSE first
       IN CASE IsLeaf(h, ptr) /\ pos = n ->
                 [h |-> h, status |-> "SearchFailure", fkey |-> None]
            [] IsLeaf(h, ptr) /\ pos # n ->
                 removeFromLeaf(h, ptr, pos, keys(h, ptr)[pos + 1])
            [] ~IsLeaf(h, ptr) ->
                 IF res.status = "LessKeys" THEN balance(ptr, pos, res) ELSE res

\* The root has lost its last key: its only child becomes the root.
shrinkRoot(res) ==
  IF res.status = "LessKeys"
  THEN heap' = freeNode(res.h, root) /\ root' = p(res.h, root)[1]
  ELSE heap' = res.h /\ UNCHANGED root

remove(key) ==
  LET res == del(heap, root, key)
  IN /\ shrinkRoot(res)
     /\ call' = <<"remove", key>>
     /\ ret' = (res.status # "SearchFailure")
     /\ found' = None

RECURSIVE Height(_, _)
Height(h, ptr) == IF ptr = 0 THEN 0 ELSE 1 + Height(h, p(h, ptr)[1])

removeUpper(key) ==
  \E junk \in [1..(Height(heap, root) - 1) -> Junk] :
    LET res == delUpper(heap, root, key, junk)
    IN /\ shrinkRoot(res)
       /\ call' = <<"removeUpper", key>>
       /\ ret' = (res.status # "SearchFailure")
       /\ found' = IF res.status = "SearchFailure" THEN None ELSE res.fkey

-----------------------------------------------------------------------------

\* Btree::Btree()
Init ==
  /\ heap = << >> /\ root = 0
  /\ call = <<"Btree", None>> /\ ret = FALSE /\ found = None

Next == \E k \in Key : insert(k) \/ contains(k) \/ remove(k) \/ removeUpper(k)

Spec == Init /\ [][Next]_vars

-----------------------------------------------------------------------------
(* Properties.                                                             *)

RECURSIVE Reach(_, _)
Reach(h, ptr) ==
  IF ptr = 0 THEN {} ELSE {ptr} \cup UNION {Reach(h, q) : q \in Range(p(h, ptr))}

\* The keys below ptr in the order in which display() prints them.
RECURSIVE InOrder(_, _)
InOrder(h, ptr) ==
  IF ptr = 0 THEN << >>
  ELSE LET n == Size(h, ptr)
           upTo[i \in 0..n] ==
             IF i = 0 THEN InOrder(h, p(h, ptr)[1])
             ELSE upTo[i - 1] \o <<keys(h, ptr)[i]>> \o InOrder(h, p(h, ptr)[i + 1])
       IN upTo[n]

RECURSIVE LeafDepths(_, _)
LeafDepths(h, ptr) ==
  IF IsLeaf(h, ptr) THEN {0}
  ELSE {1 + d : d \in UNION {LeafDepths(h, q) : q \in Range(p(h, ptr))}}

KeySet == UNION {Range(keys(heap, a)) : a \in Reach(heap, root)}

TypeOK ==
  /\ \A a \in DOMAIN heap :
       /\ keys(heap, a) \in Seq(Key)
       /\ p(heap, a) \in Seq(DOMAIN heap \cup {0})
       /\ Len(p(heap, a)) = Size(heap, a) + 1
  /\ root \in DOMAIN heap \cup {0}
  /\ ret \in BOOLEAN /\ found \in Key \cup {None}

\* The comments of BtNode (btree.h:17-19): every node has fewer than M keys, so
\* no write passes the end of its arrays; every node but the root has at least
\* min = (M-1)/2 keys (btree.h:201), the root at least one.
Occupancy ==
  \A a \in DOMAIN heap :
    Size(heap, a) \in (IF a = root THEN 1 ELSE minKeys)..(M - 1)

\* insert, del and delUpper keep the search order (btree.h:70-140, 187-301,
\* 344-491): an in-order walk meets strictly increasing keys, so no key is
\* stored twice and searchPos leads to every one.
Sorted ==
  LET s == InOrder(heap, root)
  IN \A i \in 1..(Len(s) - 1) : s[i] < s[i + 1]

\* Splits grow and merges shrink the tree at its root only (btree.h:58-66,
\* 179-182): all leaves are at the same depth, and a node's children are all
\* null or all nodes.
Balanced ==
  /\ \A a \in DOMAIN heap : 0 \in Range(p(heap, a)) => Range(p(heap, a)) = {0}
  /\ root # 0 => Cardinality(LeafDepths(heap, root)) = 1

\* Every node allocated by allocNode and not freed is in the tree, and the tree
\* has no freed node (btree.h:61, 127, 182, 294, 339, 484).
NoLeakNoDangling == Reach(heap, root) = DOMAIN heap

\* The tree implements an ordered set: every call of insert, contains, remove
\* and removeUpper (btree.h:47-68, 142-158, 169-185, 326-342) changes the set
\* of keys and returns what the abstract operation says; a removeUpper that
\* returns true has removed and returned the least key that is not below its
\* argument (the assertion value <= found of TestBTree::test).
Set == INSTANCE OrderedSet WITH set <- KeySet, Key <- Key
IsOrderedSet == Set!Spec
=============================================================================
