------------------------------- MODULE Mutex --------------------------------
(***************************************************************************)
(* What a lock promises: at most one holder, who alone gives it up.         *)
(***************************************************************************)
CONSTANT Threads
VARIABLE holder  \* {} or {the thread that holds the lock}

Init == holder = {}
Lock(t) == holder = {} /\ holder' = {t}
Unlock(t) == holder = {t} /\ holder' = {}
Next == \E t \in Threads : Lock(t) \/ Unlock(t)
Spec == Init /\ [][Next]_holder
=============================================================================
