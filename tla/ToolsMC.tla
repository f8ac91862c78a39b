------------------------------- MODULE ToolsMC -------------------------------
(***************************************************************************)
(* Model-checking instances of the tools around the allocator: the debugging *)
(* allocator, the CPU profiler, the patched C libraries, the lister of       *)
(* threads, and the system's allocators below.  They share no variable, so    *)
(* one part moves at a time, the one part names.                             *)
(***************************************************************************)
EXTENDS CpuProfiler, TLC

CONSTANTS t1, t2, b1, b2, l1, l2, l3, l4
VARIABLES part,
          mode, heap, memory, alloc_map, free_queue, free_queue_size, calls, held, fault, died,                 \* DebugAllocation
          refs, code, libcs, origstub_fn, g_last_loaded, main, stack, refused,                                  \* PatchFunctions
          alive, forked, parents, born, traced, stopped, foreign, pids, lister, caller, result,                 \* LinuxThreads
          mem, block, brk, given, failed, huge, used, backed, req                                               \* SystemAlloc

TraceDepths == ("a" :> 1) @@ ("b" :> 1) @@ ("c" :> 2)
Debug == INSTANCE DebugAllocation WITH Threads <- {t1, t2}, Blocks <- {b1, b2}, Nobody <- "nobody", Types <- {"malloc", "new"},
           Sizes <- {1, 2}, kFreeQueueSize <- 3, Entries <- 1, max_free_queue_size <- 4, EntrySize <- 1, th <- calls
Libcs == INSTANCE PatchFunctions WITH Modules <- {l1, l2, l3, l4}, Slots <- {1, 2}, Libcs <- {l1, l2, l3},
           Shared <- {l3}, Static <- TRUE, MaxRefs <- 2, MaxDepth <- 2

Lister == INSTANCE LinuxThreads WITH MaxPid <- 3, MaxBorn <- 2, leader <- 2, Slack <- 1, MaxBatch <- 2

\* Sbrk first, and a request that is too large; mmap first, below a file of big pages; Windows.
Unix == INSTANCE SystemAlloc WITH platform <- "sbrk first", memfs <- FALSE, Width <- 32, First <- 4, Top <- 20, pagesize <- 4,
          big_page_size_ <- 4, MinAlign <- 2, kPageSize <- 2, Sizes <- {3, 29}, Alignments <- {4}, limit <- 0, MaxForeign <- 1
Memfs == INSTANCE SystemAlloc WITH platform <- "mmap first", memfs <- TRUE, Width <- 32, First <- 4, Top <- 16, pagesize <- 4,
          big_page_size_ <- 4, MinAlign <- 2, kPageSize <- 2, Sizes <- {3, 29}, Alignments <- {1, 8}, limit <- 16, MaxForeign <- 0
Windows == INSTANCE SystemAlloc WITH platform <- "windows", memfs <- FALSE, Width <- 32, First <- 4, Top <- 16, pagesize <- 4,
          big_page_size_ <- 4, MinAlign <- 2, kPageSize <- 2, Sizes <- {3, 29}, Alignments <- {1, 2}, limit <- 0, MaxForeign <- 0

DebugVars == <<mode, heap, memory, alloc_map, free_queue, free_queue_size, calls, held, fault, died>>
LibcsVars == <<refs, code, libcs, origstub_fn, g_last_loaded, main, stack, refused>>
ListerVars == <<alive, forked, parents, born, traced, stopped, foreign, pids, lister, caller, result>>
SystemVars == <<mem, block, brk, given, failed, huge, used, backed, req>>

PartsInit ==
        /\ part \in {"Debug", "Cpu", "Libcs", "Lister", "Unix", "Memfs", "Windows"}
        /\ Debug!Init /\ (part = "Debug" \/ mode = [fence |-> FALSE, reclaim |-> TRUE])
        /\ CpuInit
        /\ Libcs!Init /\ (part = "Libcs" \/ refs = [m \in {l1, l2, l3, l4} |-> 0])
        /\ Lister!Init /\ (part = "Lister" \/ (alive = {2} /\ foreign = {} /\ lister.hasTask))
        /\ CASE part = "Memfs" -> Memfs!Init [] part = "Windows" -> Windows!Init [] OTHER -> Unix!Init
        /\ part \in {"Unix", "Memfs"} \/ brk = 4
Others == UNCHANGED <<DebugVars, cpuVars, LibcsVars, ListerVars>>
PartsNext ==
        /\ UNCHANGED part
        /\ \/ part = "Debug" /\ Debug!Next /\ UNCHANGED <<cpuVars, LibcsVars, ListerVars, SystemVars>>
           \/ part = "Cpu" /\ CpuNext /\ UNCHANGED <<DebugVars, LibcsVars, ListerVars, SystemVars>>
           \/ part = "Libcs" /\ Libcs!Next /\ UNCHANGED <<DebugVars, cpuVars, ListerVars, SystemVars>>
           \/ part = "Lister" /\ Lister!Next /\ UNCHANGED <<DebugVars, cpuVars, LibcsVars, SystemVars>>
           \/ part = "Unix" /\ Unix!Next /\ Others
           \/ part = "Memfs" /\ Memfs!Next /\ Others
           \/ part = "Windows" /\ Windows!Next /\ Others
PartsSpec == PartsInit /\ [][PartsNext]_<<part, DebugVars, cpuVars, LibcsVars, ListerVars, SystemVars>>
Symmetry == Permutations({t1, t2}) \cup Permutations({b1, b2})

------------------------------------------------------------------------------
\* DebugAllocation: a program without errors is never accused; with an error, no
\* block is lost or given back twice, and what was overwritten is not used again.
\* LinuxThreads: a fault of the lister leaves no thread stopped, and it shows its
\* callback all of them, stopped.
\* SystemAlloc: memory from the system is aligned, enough and tcmalloc's alone, its
\* pages come and go with what the page heap says, and a failure is not for ever.
FaultsContained ==
  CASE part = "Debug" -> Debug!NoFalseAlarm /\ Debug!EveryBlockOnce /\ Debug!QueueTrue /\ Debug!OverwritesCaught
    [] part = "Lister" -> Lister!AllStopped /\ Lister!NoneLeftStopped
    [] part = "Unix" -> Unix!GivenTrue /\ Unix!NoPageLost /\ Unix!StillTries
    [] part = "Memfs" -> Memfs!GivenTrue /\ Memfs!NoPageLost /\ Memfs!StillTries
    [] part = "Windows" -> Windows!GivenTrue /\ Windows!NoPageLost
    [] OTHER -> TRUE

\* PatchFunctions: a call of a patched function comes to tcmalloc, and what that
\* hands on comes to the function of its own module, whatever is loaded and freed.
CallsComeHome == part = "Libcs" => Libcs!LibcsPatched /\ Libcs!NeverDies
=============================================================================
