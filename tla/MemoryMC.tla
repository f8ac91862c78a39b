------------------------------ MODULE MemoryMC -------------------------------
(***************************************************************************)
(* Model-checking instances of the map of memory regions and of what it is   *)
(* built on: its recursive lock, the low-level allocator; and the map of     *)
(* addresses.  They share no variable, so one part moves at a time.         *)
(***************************************************************************)
EXTENDS RegionMapLock, AddressMap, TLC

CONSTANTS t1, t2
VARIABLES part,
          clients, asked, m, unseen, pend, crash,  \* MemoryRegionMap
          a, mapped, request                       \* LowLevelAlloc

\* Two call stacks, one of which shares its slot of the table with the empty one.
\* The map's own arena grows while threads race; buckets, mremap and Shutdown.
Map == INSTANCE MemoryRegionMap WITH Threads <- {t1, t2}, Pages <- 5, Stacks <- {"a"}, HashIndex <- [a |-> 1, empty |-> 1],
  Sizes <- {1, 2, 3}, UseBuckets <- {FALSE}, ArenaGrows <- TRUE, Mremaps <- FALSE, Shuts <- FALSE, MaxClients <- 1, MaxSize <- 5
Buckets == INSTANCE MemoryRegionMap WITH Threads <- {t1}, Pages <- 4, Stacks <- {"a", "b"}, HashIndex <- [a |-> 1, b |-> 2, empty |-> 1],
  Sizes <- {1, 3}, UseBuckets <- {TRUE}, ArenaGrows <- FALSE, Mremaps <- TRUE, Shuts <- TRUE, MaxClients <- 2, MaxSize <- 5
Arena == INSTANCE LowLevelAlloc WITH Threads <- {t1, t2}, Region <- 7, Regions <- 2, Requests <- {2, 3}, Top <- 3,
  MaxRandom <- 2, asked <- request

RegionVars == <<clients, asked, m, unseen, pend, crash>>
ArenaVars == <<a, mapped, request>>
PartsInit == /\ part \in {"Lock", "Map", "Buckets", "Table", "Arena"}
             /\ Init /\ MapInit /\ Arena!Init
             /\ IF part = "Buckets" THEN Buckets!Init ELSE Map!Init
PartsNext ==
  /\ UNCHANGED part
  /\ \/ part = "Lock" /\ Next /\ UNCHANGED <<RegionVars, mapVars, ArenaVars>>
     \/ part = "Map" /\ Map!Next /\ UNCHANGED <<vars, mapVars, ArenaVars>>
     \/ part = "Buckets" /\ Buckets!Next /\ UNCHANGED <<vars, mapVars, ArenaVars>>
     \/ part \in {"Map", "Buckets"} /\ UNCHANGED <<vars, RegionVars, mapVars, ArenaVars>>  \* the bound, or a failed check
     \/ part = "Table" /\ MapNext /\ UNCHANGED <<vars, RegionVars, ArenaVars>>
     \/ part = "Arena" /\ Arena!Next /\ UNCHANGED <<vars, RegionVars, mapVars>>
PartsSpec == PartsInit /\ [][PartsNext]_<<part, vars, RegionVars, mapVars, ArenaVars>>

\* What stands in a block of the arena that is no block any more does not matter.
View == <<part, vars, RegionVars, mapVars, IF part = "Arena" THEN Arena!Seen ELSE 0>>
Symmetry == Permutations({t1, t2})

------------------------------------------------------------------------------
\* MemoryRegionMap: the regions do not overlap and are what is mapped, those
\* saved by a recursive call included; the buckets sum up to them.
RegionsSound ==
  CASE part = "Map" -> Map!TypeOK /\ Map!NoOverlap /\ Map!RegionsTrue
    [] part = "Buckets" -> Buckets!TypeOK /\ Buckets!NoOverlap /\ Buckets!RegionsTrueAtRest /\ Buckets!BucketsTrue
    [] OTHER -> TRUE

\* AddressMap: FindInside finds the range a key is in, whatever blocks and
\* clusters they lie in; entries taken from the free list are given back.
\* LowLevelAlloc: the blocks tile the mapped memory, free neighbours are merged,
\* every level of the skip list links the blocks it should, no check fails.
StoresSound ==
  CASE part = "Table" -> Placed /\ EntriesConserved /\ InsideFound
    [] part = "Arena" -> /\ Arena!TypeOK /\ Arena!ChecksHold /\ Arena!Tiled /\ Arena!Coalesced
                         /\ Arena!SkipList /\ Arena!EmptyIsWhole
    [] OTHER -> TRUE
=============================================================================
