----------------------------- MODULE PartialMap -----------------------------
(***************************************************************************)
(* What a map from keys to values promises: a key has the value it was given *)
(* last, until it is removed.                                                *)
(***************************************************************************)
CONSTANTS Keys, Values
VARIABLE map

Init == map = <<>>
Put(k, v) == map' = [x \in DOMAIN map \cup {k} |-> IF x = k THEN v ELSE map[x]]
Drop(k) == k \in DOMAIN map /\ map' = [x \in DOMAIN map \ {k} |-> map[x]]
Next == \E k \in Keys : Drop(k) \/ \E v \in Values : Put(k, v)
Spec == Init /\ [][Next]_map
=============================================================================
