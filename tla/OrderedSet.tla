----------------------------- MODULE OrderedSet -----------------------------
(***************************************************************************)
(* What Btree<BtKey, M> (test_dll/btree.h) promises its user: a set of keys *)
(* with insertion, removal, membership and removal of the least key that   *)
(* is not below a given one, each telling whether it did something.        *)
(***************************************************************************)
EXTENDS Integers

CONSTANTS Key, None

VARIABLES
  set,    \* the keys stored
  call,   \* the last call: its name and its argument
  ret,    \* the last result
  found   \* the key that the last removeUpper removed, None after other calls

vars == <<set, call, ret, found>>

Init == set = {} /\ call = <<"Btree", None>> /\ ret = FALSE /\ found = None

Insert(k) ==
  /\ call' = <<"insert", k>>
  /\ set' = set \cup {k}
  /\ ret' = (k \notin set)
  /\ found' = None

Remove(k) ==
  /\ call' = <<"remove", k>>
  /\ set' = set \ {k}
  /\ ret' = (k \in set)
  /\ found' = None

Contains(k) ==
  /\ call' = <<"contains", k>>
  /\ ret' = (k \in set)
  /\ found' = None
  /\ UNCHANGED set

RemoveUpper(k) ==
  /\ call' = <<"removeUpper", k>>
  /\ LET upper == {g \in set : g >= k} IN
     \/ \E f \in upper :
          /\ \A g \in upper : f <= g
          /\ set' = set \ {f}
          /\ ret' = TRUE
          /\ found' = f
     \/ /\ upper = {}
        /\ ret' = FALSE
        /\ found' = None
        /\ UNCHANGED set

Next == \E k \in Key : Insert(k) \/ Remove(k) \/ Contains(k) \/ RemoveUpper(k)

Spec == Init /\ [][Next]_vars
=============================================================================
