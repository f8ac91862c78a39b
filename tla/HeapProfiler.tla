------------------------------ MODULE HeapProfiler ------------------------------
(***************************************************************************)
(* The heap profiler (heap-profiler.cc).  Its hooks see what every thread     *)
(* allocates and frees, after the one and before the other; its table, under  *)
(* heap_lock, is to hold what is in use, while the profiler is started and    *)
(* stopped by any thread and dumps profiles by itself, when asked, and on a   *)
(* signal that interrupts a thread anywhere.                                *)
(*   heap       objects in use; born: the start since which each was made, 0   *)
(*              if the hook for new objects was not there                    *)
(*   heap_lock  its holder, of those that keep it over several steps; what    *)
(*              the others do with it is one step                            *)
(*   hooks      which of NewHook and DeleteHook are installed                *)
(*   table      objects in heap_profile, NULL when there is none; total: sizes *)
(*              recorded and removed so far                                  *)
(*   mark       last_dump_alloc, last_dump_free and high_water_mark          *)
(*   starts     how often it has been, up to a bound                         *)
(*   where      where each thread is, and with which object                   *)
(* Recording of mmap and the logs of it are left out (MemoryRegionMap has     *)
(* the former), and so are the stack traces and the files: a dump counts them  *)
(* and changes nothing else, so HeapProfilerDump and its signal, which does    *)
(* nothing when the lock is taken, are no actions.                           *)
(***************************************************************************)
EXTENDS Integers, FiniteSets, FiniteSetsExt

CONSTANTS
  Actors, Blocks, Nobody,
  Size,                 \* of each object
  AllocationInterval, DeallocationInterval, InuseInterval,   \* 0 when off
  TimeInterval,         \* whether dumps come after some time, too
  MaxStarts, MaxAlloc   \* bounds

ASSUME ProfilerAssumption ==
  /\ Nobody \notin Actors /\ Nobody \notin Blocks /\ Size \in [Blocks -> Nat]
  /\ AllocationInterval \in Nat /\ DeallocationInterval \in Nat /\ InuseInterval \in Nat
  /\ TimeInterval \in BOOLEAN /\ MaxStarts \in Nat /\ MaxAlloc \in Nat

VARIABLES heap, born, heap_lock, is_on, hooks, table, total, mark, starts, where
profilerVars == <<heap, born, heap_lock, is_on, hooks, table, total, mark, starts, where>>

NULL == {Nobody}
Zero == [alloc |-> 0, free |-> 0]

ProfilerInit ==
  /\ heap = {} /\ born = [o \in Blocks |-> 0] /\ heap_lock = Nobody /\ is_on = FALSE /\ hooks = {}
  /\ table = NULL /\ total = Zero /\ mark = [alloc |-> 0, free |-> 0, high |-> 0] /\ starts = 0
  /\ where = [t \in Actors |-> [pc |-> "idle", o |-> Nobody]]

In(t, pc) == where[t].pc = pc
Go(t, pc) == where' = [where EXCEPT ![t] = [pc |-> pc, o |-> IF pc = "idle" THEN Nobody ELSE where[t].o]]
Program == <<heap, born>>
Profile == <<is_on, table, total, mark, starts>>
Unlocked == heap_lock = Nobody

------------------------------------------------------------------------------
(* What a program allocates and frees, and the hooks that see it.            *)

Malloc(t) ==
  /\ In(t, "idle")
  /\ \E o \in Blocks \ heap : /\ total.alloc < MaxAlloc
                               /\ heap' = heap \cup {o} /\ where' = [where EXCEPT ![t] = [pc |-> "made", o |-> o]]
                               /\ born' = [born EXCEPT ![o] = IF "new" \in hooks THEN starts ELSE 0]
  /\ UNCHANGED <<heap_lock, hooks, Profile>>
CallNewHook(t) == /\ In(t, "made") /\ Go(t, IF "new" \in hooks THEN "record" ELSE "idle")
                    /\ UNCHANGED <<Program, heap_lock, hooks, Profile>>

\* An object is freed once, by a thread that got it.
Hands(o) == {t \in Actors : where[t].o = o}
CallDeleteHook(t) ==
  /\ In(t, "idle")
  /\ \E o \in {p \in heap : Hands(p) = {}} : where' = [where EXCEPT ![t] = [pc |-> IF "delete" \in hooks THEN "remove" ELSE "free", o |-> o]]
  /\ UNCHANGED <<Program, heap_lock, hooks, Profile>>
RealFree(t) == /\ In(t, "free") /\ heap' = heap \ {where[t].o} /\ Go(t, "idle")
               /\ UNCHANGED <<born, heap_lock, hooks, Profile>>

------------------------------------------------------------------------------
(* Under the lock.                                                          *)

inuse(s) == s.alloc - s.free
NeedToDump(s) ==
  \/ AllocationInterval > 0 /\ s.alloc >= mark.alloc + AllocationInterval
  \/ DeallocationInterval > 0 /\ s.free >= mark.free + DeallocationInterval
  \/ InuseInterval > 0 /\ inuse(s) > mark.high + InuseInterval
\* Whether or not the file can be written.
MaybeDumpProfileLocked(s) ==
  \/ /\ NeedToDump(s) \/ TimeInterval
     /\ mark' = [alloc |-> s.alloc, free |-> s.free, high |-> Max({inuse(s), mark.high})]
  \/ ~NeedToDump(s) /\ UNCHANGED mark

\* Mutant: it does not look whether the profiler is still on.
RecordAllocAlways(t) ==
  /\ In(t, "record") /\ Unlocked /\ Go(t, "idle")
  /\ table' = table \cup {where[t].o} /\ total' = [total EXCEPT !.alloc = @ + Size[where[t].o]] /\ MaybeDumpProfileLocked(total')
  /\ UNCHANGED <<Program, heap_lock, hooks, is_on, starts>>
RecordAlloc(t) ==
  /\ In(t, "record") /\ Unlocked /\ Go(t, "idle")
  /\ IF is_on THEN /\ table' = table \cup {where[t].o} /\ total' = [total EXCEPT !.alloc = @ + Size[where[t].o]]
                   /\ MaybeDumpProfileLocked(total')
              ELSE UNCHANGED <<table, total, mark>>
  /\ UNCHANGED <<Program, heap_lock, hooks, is_on, starts>>

\* What was not recorded is not removed.
RecordFree(t) ==
  /\ In(t, "remove") /\ Unlocked /\ Go(t, "free")
  /\ IF is_on THEN /\ table' = table \ {where[t].o}
                   /\ total' = IF where[t].o \in table THEN [total EXCEPT !.free = @ + Size[where[t].o]] ELSE total
                   /\ MaybeDumpProfileLocked(total')
              ELSE UNCHANGED <<table, total, mark>>
  /\ UNCHANGED <<Program, heap_lock, hooks, is_on, starts>>

------------------------------------------------------------------------------
(* HeapProfilerStart and Stop keep the lock while they change the lists of    *)
(* hooks, which the threads that allocate read without it.                   *)

Takes(t, pc) == /\ In(t, "idle") /\ Unlocked /\ heap_lock' = t /\ Go(t, pc)

HeapProfilerStart(t) ==
  /\ Takes(t, "add_new") /\ ~is_on /\ starts < MaxStarts
  /\ is_on' = TRUE /\ table' = {} /\ total' = Zero
  /\ mark' = [alloc |-> 0, free |-> 0, high |-> 0] /\ starts' = starts + 1
  /\ UNCHANGED <<Program, hooks>>
AddNewHook(t) == /\ In(t, "add_new") /\ hooks' = hooks \cup {"new"} /\ Go(t, "add_delete")
                 /\ UNCHANGED <<Program, heap_lock, Profile>>
AddDeleteHook(t) == /\ In(t, "add_delete") /\ hooks' = hooks \cup {"delete"} /\ heap_lock' = Nobody /\ Go(t, "idle")
                    /\ UNCHANGED <<Program, Profile>>

HeapProfilerStop(t) == /\ Takes(t, "drop_new") /\ is_on /\ UNCHANGED <<Program, hooks, Profile>>
RemoveNewHook(t) == /\ In(t, "drop_new") /\ hooks' = hooks \ {"new"} /\ Go(t, "drop_delete")
                    /\ UNCHANGED <<Program, heap_lock, Profile>>
RemoveDeleteHook(t) == /\ In(t, "drop_delete") /\ hooks' = hooks \ {"delete"} /\ Go(t, "drop_table")
                       /\ UNCHANGED <<Program, heap_lock, Profile>>
DropTable(t) == /\ In(t, "drop_table") /\ table' = NULL /\ is_on' = FALSE /\ heap_lock' = Nobody /\ Go(t, "idle")
                /\ UNCHANGED <<Program, hooks, total, mark, starts>>

\* The end of the program: the table is read without the lock, for the message. A stop
\* at the same time may have freed it.
EndWriter(t) == /\ In(t, "idle") /\ \A u \in Actors : where[u].pc \notin {"end", "exited", "crashed"}
                /\ Go(t, IF table = NULL THEN "exited" ELSE "end") /\ UNCHANGED <<Program, heap_lock, hooks, Profile>>
ReadTotal(t) == /\ In(t, "end") /\ Go(t, IF table = NULL THEN "crashed" ELSE "exited")
                /\ UNCHANGED <<Program, heap_lock, hooks, Profile>>

ProfilerNext == /\ \A t \in Actors : where[t].pc # "crashed"
                /\ \E t \in Actors : \/ Malloc(t) \/ CallNewHook(t) \/ RecordAlloc(t)
                                 \/ CallDeleteHook(t) \/ RecordFree(t) \/ RealFree(t)
                                 \/ HeapProfilerStart(t) \/ AddNewHook(t) \/ AddDeleteHook(t)
                                 \/ HeapProfilerStop(t) \/ RemoveNewHook(t) \/ RemoveDeleteHook(t) \/ DropTable(t)
                                 \/ EndWriter(t) \/ ReadTotal(t)
\* Where it may stop: after a crash, or when all objects have been allocated that the bound allows.
Over == \/ \E t \in Actors : where[t].pc = "crashed"
        \/ \A t \in Actors : where[t].pc \in {"idle", "exited"}
ProfilerSpec == ProfilerInit /\ [][ProfilerNext]_profilerVars

------------------------------------------------------------------------------
ProfilerPcs == {"idle", "made", "record", "remove", "free", "add_new", "add_delete",
                "drop_new", "drop_delete", "drop_table", "end", "exited", "crashed"}
ProfilerTypeOK ==
  /\ heap \subseteq Blocks /\ born \in [Blocks -> Nat] /\ heap_lock \in Actors \cup {Nobody} /\ is_on \in BOOLEAN
  /\ hooks \subseteq {"new", "delete"} /\ table \subseteq Blocks \cup NULL /\ starts \in Nat
  /\ total \in [alloc : Nat, free : Nat] /\ mark \in [alloc : Nat, free : Nat, high : Nat]
  /\ where \in [Actors -> [pc : ProfilerPcs, o : Blocks \cup {Nobody}]]

\* A profile shows only objects in use, and all of them that were made since the
\* start and are in no thread's hands; and its sum is the size of what it shows.
BytesOf(S) == UNION {{o} \X (1..Size[o]) : o \in S}
ProfileTrue ==
  is_on /\ Unlocked => /\ table \subseteq heap
                       /\ {o \in heap : born[o] = starts /\ Hands(o) = {}} \subseteq table
                       /\ inuse(total) = Cardinality(BytesOf(table))

\* No interval passes without a dump (or an attempt), and none is counted from a mark
\* of the last start.
DumpsInTime ==
  is_on => /\ AllocationInterval > 0 => total.alloc < mark.alloc + AllocationInterval
           /\ DeallocationInterval > 0 => total.free < mark.free + DeallocationInterval
           /\ InuseInterval > 0 => inuse(total) <= mark.high + InuseInterval
           /\ mark.alloc <= total.alloc /\ mark.free <= total.free /\ mark.high <= total.alloc

\* A hook that is called when the profiler is off, or on again, finds it whole: the
\* table is there whenever it is on, the hooks are gone when it is off.
HooksMatch == Unlocked => /\ is_on <=> table # NULL
                          /\ hooks = IF is_on THEN {"new", "delete"} ELSE {}

\* What the hooks record is what is in use, and dumps come when due, whoever starts
\* and stops the profiler while others are in its hooks.
ProfileKept == ProfilerTypeOK /\ ProfileTrue /\ DumpsInTime /\ HooksMatch
==============================================================================
