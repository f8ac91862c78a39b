------------------------------- MODULE LocksMC -------------------------------
(***************************************************************************)
(* Model-checking instances of what threads share through locks and atomics: *)
(* the spin lock, the central free lists, the lists of malloc hooks, and the  *)
(* heap profiler, whose hooks they are.  They share no variable, so one part  *)
(* moves at a time, the one part names.                                     *)
(***************************************************************************)
EXTENDS SpinLock, HookList, CentralFreeList, HeapProfiler, TLC

CONSTANTS t1, t2, c1, c2
VARIABLE part

\* The configuration's central lists have room for two batches of one object and
\* may take a slot more; these have room for a single batch of two.
ByTwo == INSTANCE CentralFreeList WITH Batch <- 2, InitialSize <- 1, MaxSize <- 2
\* Two objects, so small that every interval passes.
BlockSizes == ("a" :> 1) @@ ("b" :> 2)

PartsInit == /\ part \in {"Profiled", "SpinLock", "ByOne", "ByTwo", "Changed", "First"}
             /\ Init
             /\ IF part = "ByTwo" THEN ByTwo!CentralInit ELSE CentralInit
             /\ HookInit
             /\ ProfilerInit
\* HookList: a thread allocates while another changes the hooks, or two allocate first.
PartsNext == /\ UNCHANGED part
             /\ \/ part = "SpinLock" /\ Next /\ UNCHANGED <<centralVars, hookVars, profilerVars>>
                \/ part = "ByOne" /\ CentralNext /\ UNCHANGED <<vars, hookVars, profilerVars>>
                \/ part = "ByTwo" /\ ByTwo!CentralNext /\ UNCHANGED <<vars, hookVars, profilerVars>>
                \/ part = "Changed" /\ HookNext /\ UNCHANGED call[t2] /\ UNCHANGED <<vars, centralVars, profilerVars>>
                \/ part = "First" /\ HookNext /\ (\A i \in Slots : priv_data'[i] \notin Hooks) /\ UNCHANGED <<vars, centralVars, profilerVars>>
                \/ part = "Profiled" /\ (ProfilerNext \/ (Over /\ UNCHANGED profilerVars)) /\ UNCHANGED <<vars, centralVars, hookVars>>
PartsSpec == PartsInit /\ [][PartsNext]_<<part, vars, centralVars, hookVars, profilerVars>>
Symmetry == Permutations({t1, t2}) \cup Permutations({c1, c2})
=============================================================================
