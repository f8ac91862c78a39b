--------------------------- MODULE DebugAllocation ---------------------------
(***************************************************************************)
(* The debugging allocator (debugallocation.cc): every object carries a      *)
(* header and a trailer, a map remembers how each address was allocated, and *)
(* freed blocks are filled with a magic byte and held back in a queue, to    *)
(* find programs that free twice, free with the wrong call, or write outside *)
(* of their objects.  With page fences, an object is mapped by itself in     *)
(* front of a page that cannot be accessed.                                 *)
(*   mode     the flags malloc_page_fence and malloc_reclaim_memory          *)
(*   heap     the blocks that the allocator below has given                 *)
(*   memory   what stands in a block: its header's alloc_type_ and size1_,   *)
(*            whether its trailer is overwritten, and whether it was written *)
(*            to after it was filled                                        *)
(*   held     the objects the program has and did not free; fault: what it   *)
(*            did wrong; died: the message the process ended with           *)
(***************************************************************************)
EXTENDS Naturals, FiniteSets, SequencesExt

CONSTANTS
  Threads, Blocks, Nobody,
  Types,                \* kMallocType, kNewType, kArrayNewType; the first is malloc's
  Sizes,
  kFreeQueueSize,       \* slots of the ring; one stays empty
  Entries,              \* of the array that entries are popped into (4)
  max_free_queue_size,
  EntrySize             \* sizeof(MallocBlockQueueEntry)

VARIABLES mode, heap, memory, alloc_map, free_queue, free_queue_size, th, held, fault, died
vars == <<mode, heap, memory, alloc_map, free_queue, free_queue_size, th, held, fault, died>>

Idle == [op |-> "idle", b |-> Nobody, type |-> "malloc", size |-> 0, old |-> Nobody, entries |-> <<>>, again |-> FALSE, limit |-> 0]
Init ==
  /\ mode \in [fence : BOOLEAN, reclaim : BOOLEAN]
  /\ heap = {} /\ held = {} /\ fault = "none" /\ died = ""
  /\ memory = [b \in Blocks |-> [type |-> "garbage", size |-> 0, stomped |-> FALSE, dirty |-> FALSE]]
  /\ alloc_map = [b \in Blocks |-> [type |-> "none", live |-> FALSE]]
  /\ free_queue = <<>> /\ free_queue_size = 0
  /\ th = [t \in Threads |-> Idle]

At(t, op) == died = "" /\ th[t].op = op
Go(t, r) == th' = [th EXCEPT ![t] = r @@ @]
Dies(message) == died' = message /\ UNCHANGED <<mode, heap, memory, alloc_map, free_queue, free_queue_size, th, held, fault>>
QueueVars == <<free_queue, free_queue_size>>

------------------------------------------------------------------------------
(* Allocation: the block below, then its header and its entry in the map.    *)

Allocate(t, type, n, b, old) ==
  /\ b \notin heap /\ heap' = heap \cup {b}
  /\ Go(t, [op |-> "initialize", b |-> b, type |-> type, size |-> n, old |-> old])
  /\ UNCHANGED <<mode, memory, alloc_map, QueueVars, held, fault, died>>

\* malloc, calloc, memalign, new and new[], which differ in the type they give.
DebugAllocate(t) == \E type \in Types, n \in Sizes, b \in Blocks : At(t, "idle") /\ Allocate(t, type, n, b, Nobody)

Initialize(t) ==
  LET x == th[t] IN
  /\ At(t, "initialize")
  /\ memory' = [memory EXCEPT ![x.b] = [type |-> x.type, size |-> x.size, stomped |-> FALSE, dirty |-> FALSE]]
  /\ alloc_map' = [alloc_map EXCEPT ![x.b] = [type |-> x.type, live |-> TRUE]]
  /\ held' = held \cup {x.b}
  /\ IF x.old = Nobody THEN Go(t, Idle)
     ELSE Go(t, [op |-> "from", b |-> x.old, size |-> 0, old |-> Nobody])  \* realloc frees the old object
  /\ UNCHANGED <<mode, heap, QueueVars, fault, died>>

------------------------------------------------------------------------------
(* Checks.                                                                  *)

\* What CheckLocked says of a block that is freed, or to be checked, as type.
CheckLocked(b, type) ==
  IF alloc_map[b].type = "none" THEN "has never been allocated"
  ELSE IF ~alloc_map[b].live THEN "has been already deallocated"
  ELSE IF memory[b].type \notin Types THEN "a word before object has been corrupted"
  ELSE IF memory[b].stomped /\ ~mode.fence THEN "a word after object has been corrupted"
  ELSE IF memory[b].type # type THEN "allocation/deallocation mismatch"
  ELSE IF memory[b].type # alloc_map[b].type THEN "our memory map has been corrupted"
  ELSE ""

\* VerifyNewMemory and its like, for an object the program has.
Check(t) == \E b \in held : At(t, "idle") /\ CheckLocked(b, alloc_map[b].type) # "" /\ Dies(CheckLocked(b, alloc_map[b].type))

\* VerifyAllMemory and MallocMemoryStats look at every object in the map.
CheckEverything(t) ==
  \E b \in Blocks : /\ At(t, "idle") /\ alloc_map[b].live /\ CheckLocked(b, alloc_map[b].type) # ""
                    /\ Dies(CheckLocked(b, alloc_map[b].type))

------------------------------------------------------------------------------
(* Deallocation.                                                            *)

\* size: what a sized delete was given, or 0.
Free(t, b, type, size) ==
  /\ At(t, "idle") /\ memory[b].type # "garbage"
  /\ Go(t, [op |-> "from", b |-> b, type |-> type, size |-> size])
  /\ held' = held \ {b}
  /\ UNCHANGED <<mode, heap, memory, alloc_map, QueueVars, died>>

DebugDeallocate(t) == \E b \in held : \E size \in {0, memory[b].size} : Free(t, b, alloc_map[b].type, size) /\ UNCHANGED fault
FreeWrongly(t) ==
  /\ fault = "none"
  /\ \E b \in Blocks, type \in Types, size \in Sizes \cup {0} :
       /\ Free(t, b, type, size)
       /\ \/ b \notin held /\ fault' = "freed twice"
          \/ b \in held /\ type # alloc_map[b].type /\ fault' = "mismatch"
          \/ b \in held /\ size \notin {0, memory[b].size} /\ fault' = "wrong size"

\* The header is read without a lock; of a block that is mapped no more, at the cost of a trap.
FromRawPointer(t) ==
  /\ At(t, "from")
  /\ CASE memory[th[t].b].type = "deleted" -> Dies("has been already deallocated")
       [] memory[th[t].b].type = "unmapped" -> Dies("segmentation fault")
       [] OTHER -> Go(t, [op |-> "clear"]) /\ UNCHANGED <<mode, heap, memory, alloc_map, QueueVars, held, fault, died>>

CheckAndClear(t) ==
  /\ At(t, "clear")
  /\ LET says == CheckLocked(th[t].b, th[t].type) IN
     IF says # "" THEN Dies(says)
     ELSE /\ alloc_map' = [alloc_map EXCEPT ![th[t].b].live = FALSE]
          /\ Go(t, [op |-> "memset"])
          /\ UNCHANGED <<mode, heap, memory, QueueVars, held, fault, died>>

\* The block is filled with kMagicDeletedByte, without the lock of the map.
FillDeleted(t) ==
  LET b == th[t].b IN
  /\ At(t, "memset")
  /\ IF th[t].size \notin {0, memory[b].size} THEN Dies("right size must be passed to sized delete")
     ELSE /\ memory' = [memory EXCEPT ![b].type = "deleted", ![b].dirty = FALSE]
          /\ CASE mode.fence -> Go(t, [op |-> "unmap"])
               [] ~mode.fence /\ mode.reclaim -> Go(t, [op |-> "queue", size |-> memory[b].size, limit |-> max_free_queue_size])
               [] OTHER -> Go(t, Idle)
          /\ UNCHANGED <<mode, heap, alloc_map, QueueVars, held, fault, died>>

\* With fences the pages are unmapped, or only protected if nothing is to be reclaimed.
Unmap(t) ==
  /\ At(t, "unmap")
  /\ memory' = [memory EXCEPT ![th[t].b].type = "unmapped"]
  /\ heap' = IF mode.reclaim THEN heap \ {th[t].b} ELSE heap
  /\ Go(t, Idle) /\ UNCHANGED <<mode, alloc_map, QueueVars, held, fault, died>>

------------------------------------------------------------------------------
(* The queue of freed blocks.  Its lock is held while entries are popped and *)
(* dropped while the popped ones are checked and given back.                *)

Full(q) == Len(q) = kFreeQueueSize - 1
Total(q) == FoldSeq(LAMBDA e, n : e.size + EntrySize + n, 0, q)
\* How many are popped before the array is full or the queue is small enough.
Popped(q, size, limit) ==
  CHOOSE k \in 0..Entries :
    /\ k = Entries \/ ~(size - Total(SubSeq(q, 1, k)) > limit \/ Full(SubSeq(q, k + 1, Len(q))))
    /\ \A j \in 0..(k - 1) : size - Total(SubSeq(q, 1, j)) > limit \/ Full(SubSeq(q, j + 1, Len(q)))

Pop(t, q, size) ==
  LET k == Popped(q, size, th[t].limit) IN
  /\ free_queue' = SubSeq(q, k + 1, Len(q))
  /\ free_queue_size' = size - Total(SubSeq(q, 1, k))
  /\ Go(t, [op |-> "check", b |-> Nobody, entries |-> SubSeq(q, 1, k), again |-> k = Entries])
  /\ UNCHANGED <<mode, heap, memory, alloc_map, held, fault, died>>

\* Mutant: an entry that is pushed is counted without its own size.
ProcessFreeQueueUncounted(t) ==
  /\ At(t, "queue")
  /\ IF Full(free_queue) THEN Dies("Free queue mustn't be full!")
     ELSE Pop(t, Append(free_queue, [block |-> th[t].b, size |-> th[t].size]), free_queue_size + th[t].size)

ProcessFreeQueue(t) ==
  /\ At(t, "queue")
  /\ IF Full(free_queue) THEN Dies("Free queue mustn't be full!")
     ELSE Pop(t, Append(free_queue, [block |-> th[t].b, size |-> th[t].size]), free_queue_size + th[t].size + EntrySize)
PopAgain(t) == At(t, "again") /\ Pop(t, free_queue, free_queue_size)

\* At exit, or when the program asks for it, the queue is emptied.
DanglingWriteChecker(t) ==
  /\ At(t, "idle") /\ free_queue # <<>>
  /\ Go(t, [op |-> "again", limit |-> 0])
  /\ UNCHANGED <<mode, heap, memory, alloc_map, QueueVars, held, fault, died>>

\* One popped block is looked at and given back to the allocator.
CheckForDanglingWrites(t) ==
  /\ At(t, "check") /\ th[t].entries # <<>>
  /\ IF memory[Head(th[t].entries).block].dirty THEN Dies("Memory was written to after being freed")
     ELSE /\ heap' = heap \ {Head(th[t].entries).block} /\ Go(t, [entries |-> Tail(th[t].entries)])
          /\ UNCHANGED <<mode, memory, alloc_map, QueueVars, held, fault, died>>
Checked(t) ==
  /\ At(t, "check") /\ th[t].entries = <<>>
  /\ IF th[t].again THEN Go(t, [op |-> "again"]) ELSE Go(t, Idle)
  /\ UNCHANGED <<mode, heap, memory, alloc_map, QueueVars, held, fault, died>>

------------------------------------------------------------------------------
\* realloc: the old object is checked, a new one is made, the old one is freed.
ReallocCheck(t) ==
  \E b \in held :
    /\ At(t, "idle") /\ alloc_map[b].type = "malloc"
    /\ IF CheckLocked(b, "malloc") # "" THEN Dies(CheckLocked(b, "malloc"))
       ELSE /\ Go(t, [op |-> "realloc", old |-> b]) /\ held' = held \ {b}
            /\ UNCHANGED <<mode, heap, memory, alloc_map, QueueVars, fault, died>>
ReallocMove(t) == \E n \in Sizes, b \in Blocks : At(t, "realloc") /\ Allocate(t, "malloc", n, b, th[t].old)
ReallocFails(t) == /\ At(t, "realloc") /\ Go(t, Idle) /\ held' = held \cup {th[t].old}
                   /\ UNCHANGED <<mode, heap, memory, alloc_map, QueueVars, fault, died>>

\* The program writes behind an object it has (a fence would trap), or to one it has freed.
Stomp == /\ died = "" /\ fault = "none" /\ ~mode.fence /\ fault' = "overrun"
         /\ \E b \in held : memory' = [memory EXCEPT ![b].stomped = TRUE]
         /\ UNCHANGED <<mode, heap, alloc_map, QueueVars, th, held, died>>
DanglingWrite == /\ died = "" /\ fault = "none" /\ ~mode.fence /\ fault' = "written after free"
                 /\ \E b \in heap : memory[b].type = "deleted" /\ ~alloc_map[b].live 
                                    /\ memory' = [memory EXCEPT ![b].dirty = TRUE]
                 /\ UNCHANGED <<mode, heap, alloc_map, QueueVars, th, held, died>>

Step(t) ==
  \/ DebugAllocate(t) \/ Initialize(t) \/ Check(t) \/ CheckEverything(t)
  \/ DebugDeallocate(t) \/ FreeWrongly(t) \/ FromRawPointer(t) \/ CheckAndClear(t) \/ FillDeleted(t) \/ Unmap(t)
  \/ ProcessFreeQueue(t) \/ PopAgain(t) \/ DanglingWriteChecker(t) \/ CheckForDanglingWrites(t) \/ Checked(t)
  \/ ReallocCheck(t) \/ ReallocMove(t) \/ ReallocFails(t)
Next == (\E t \in Threads : Step(t)) \/ Stomp \/ DanglingWrite
Spec == Init /\ [][Next]_vars

------------------------------------------------------------------------------
\* A correct program is never accused, whatever its threads do at once.
NoFalseAlarm == died # "" => fault # "none"

\* A block the allocator gave is in one place: in use, on its way through a call,
\* or in the queue (with nothing reclaimed, also nowhere); also when the program
\* frees it twice.
Places(b) ==
  Cardinality({t \in Threads : th[t].b = b /\ th[t].op \in {"initialize", "memset", "unmap", "queue"}})
  + Cardinality({<<t, i>> \in Threads \X (1..Entries) : i <= Len(th[t].entries) /\ th[t].entries[i].block = b})
  + Cardinality({i \in DOMAIN free_queue : free_queue[i].block = b})
  + (IF alloc_map[b].live THEN 1 ELSE 0)
EveryBlockOnce ==
  \A b \in Blocks : IF b \in heap THEN Places(b) <= 1 /\ (mode.reclaim => Places(b) = 1) ELSE Places(b) = 0

\* The queue's size is that of its entries and a slot of the ring is free.
QueueTrue == free_queue_size = Total(free_queue) /\ ~Full(free_queue)

\* Memory that was overwritten behind its object, or after it was freed, does not
\* go on to be used again.
OverwritesCaught == \A b \in Blocks : /\ ~alloc_map[b].live => ~memory[b].stomped
                                      /\ b \notin heap => ~memory[b].dirty
=============================================================================
