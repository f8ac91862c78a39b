----------------------------- MODULE MemoryProofs -----------------------------
(***************************************************************************)
(* The recursive lock of the region map, for any set of threads and any      *)
(* depth: the comment above Lock is true, and the lock implements Mutex.      *)
(* The address map, for any addresses, sizes of blocks and clusters: entries *)
(* are where they are looked for, none is lost to the free list, and the map *)
(* implements PartialMap.                                                    *)
(***************************************************************************)
EXTENDS RegionMapLock, AddressMap, FiniteSetTheorems, SequenceTheorems, TLAPS

\* What the comment leaves out: there is one thread before main(), lock_ is held
\* exactly by the one thread past Acquire, and the depth is 0 until it owns.
OneHolder == /\ \A t, u \in holder : t = u
             /\ lock <=> holder # {}
             /\ \A t \in Threads : (pc[t] = "own" => count = 0) /\ (pc[t] = "in" => count > 0)
             /\ ~threads => \A t \in Threads \ {Main} : pc[t] = "out"
LockIInv == TypeOK /\ OwnerIffHeld /\ OneHolder

LEMMA LockInit == Init => LockIInv
  <1> SUFFICES ASSUME Init PROVE LockIInv  OBVIOUS
  <1>1. TypeOK  BY DEF Init, TypeOK
  <1>2. OwnerIffHeld
    <2>1. ~threads /\ count = 0 /\ \A t \in Threads : depth[t] = 0  BY DEF Init
    <2> QED  BY <2>1 DEF OwnerIffHeld
  <1>3. OneHolder
    <2>1. \A t \in Threads : pc[t] = "out"  BY DEF Init
    <2>2. holder = {}  BY <2>1 DEF holder
    <2> QED  BY <2>1, <2>2 DEF Init, OneHolder
  <1> QED  BY <1>1, <1>2, <1>3 DEF LockIInv

\* Each step of a thread keeps the invariant.
LEMMA LockStep == ASSUME LockIInv, NEW t \in Threads, Runs(t), Step(t) PROVE LockIInv'
  <1> USE LockAssumption DEF LockIInv, TypeOK, OwnerIffHeld, OneHolder, holder, Runs, CurrentThreadIs
  <1>1. CASE LockAgain(t)  BY <1>1 DEF LockAgain
  <1>2. CASE LockNotMine(t)  BY <1>2 DEF LockNotMine
  <1>3. CASE Acquire(t)
    <2>1. TypeOK' /\ OwnerIffHeld'  BY <1>3 DEF Acquire
    <2>2. holder = {} /\ holder' = {t}  BY <1>3 DEF Acquire
    <2>3. OneHolder'  BY <1>3, <2>2 DEF Acquire
    <2> QED  BY <2>1, <2>3
  <1>4. CASE TakeOwnership(t)
    <2>1. TypeOK' /\ OneHolder'  BY <1>4 DEF TakeOwnership
    <2>2. \A u \in Threads : u # t => pc[u] \in {"out", "wait"} /\ depth[u] = 0  BY <1>4 DEF TakeOwnership
    <2>3. OwnerIffHeld'  BY <1>4, <2>2 DEF TakeOwnership
    <2> QED  BY <2>1, <2>3
  <1>5. CASE Unlock(t)
    <2>0. \A u \in Threads : u # t => pc[u] \in {"out", "wait"} /\ depth[u] = 0  BY <1>5 DEF Unlock
    <2>1. CASE count = 1  BY <1>5, <2>0, <2>1 DEF Unlock
    <2>2. CASE count # 1  BY <1>5, <2>0, <2>2 DEF Unlock
    <2> QED  BY <2>1, <2>2
  <1>6. CASE LockIsHeld(t)  BY <1>6 DEF LockIsHeld
  <1> QED  BY <1>1, <1>2, <1>3, <1>4, <1>5, <1>6 DEF Step

\* The inductive invariant holds in every state.
THEOREM LockInvariant == Spec => []LockIInv
  <1>1. LockIInv /\ [Next]_vars => LockIInv'
    <2>1. ASSUME LockIInv, InitThreads PROVE LockIInv'
      BY <2>1, LockAssumption DEF InitThreads, LockIInv, TypeOK, OwnerIffHeld, OneHolder, holder
    <2>2. ASSUME LockIInv, UNCHANGED vars PROVE LockIInv'
      BY <2>2 DEF vars, LockIInv, TypeOK, OwnerIffHeld, OneHolder, holder
    <2> QED  BY <2>1, <2>2, LockStep DEF Next
  <1> QED  BY <1>1, LockInit, PTL DEF Spec

\* The comment above Lock holds: the owner and the depth say who holds the lock.
THEOREM OwnerTruth == Spec => []OwnerIffHeld
  BY LockInvariant, PTL DEF LockIInv

\* A thread never waits for a lock it holds.
THEOREM NoSelfDeadlock == Spec => []WaitsForOther
  <1>1. LockIInv => WaitsForOther  BY DEF LockIInv, OwnerIffHeld, WaitsForOther, TypeOK
  <1> QED  BY <1>1, LockInvariant, PTL

\* Winning lock_ is Mutex's Lock, the last Unlock is Mutex's Unlock, and every
\* other step leaves the holder alone.
THEOREM Refinement == Spec => IsMutex
  <1>1. Init => Mutex!Init  BY DEF Init, Mutex!Init, holder
  <1>2. ASSUME LockIInv, NEW t \in Threads, Step(t) PROVE [Mutex!Next]_holder
    <2> USE <1>2 DEF LockIInv, TypeOK, OneHolder, holder
    <2>1. CASE LockAgain(t)  BY <2>1 DEF LockAgain
    <2>2. CASE LockNotMine(t)
      <3>1. pc[t] # "in"  BY <2>2 DEF LockNotMine, OwnerIffHeld, CurrentThreadIs
      <3>2. UNCHANGED holder  BY <2>2, <3>1 DEF LockNotMine
      <3> QED  BY <3>2
    <2>3. CASE Acquire(t)
      <3>1. holder = {} /\ holder' = {t}  BY <2>3 DEF Acquire
      <3> QED  BY <3>1 DEF Mutex!Next, Mutex!Lock
    <2>4. CASE TakeOwnership(t)  BY <2>4 DEF TakeOwnership
    <2>5. CASE Unlock(t)
      <3>1. CASE count = 1
        <4>1. holder = {t} /\ holder' = {}  BY <2>5, <3>1 DEF Unlock
        <4> QED  BY <4>1 DEF Mutex!Next, Mutex!Unlock
      <3>2. CASE count # 1  BY <2>5, <3>2 DEF Unlock
      <3> QED  BY <3>1, <3>2
    <2>6. CASE LockIsHeld(t)  BY <2>6 DEF LockIsHeld
    <2> QED  BY <2>1, <2>2, <2>3, <2>4, <2>5, <2>6 DEF Step
  <1>3. LockIInv /\ [Next]_vars => [Mutex!Next]_holder
    <2>1. ASSUME InitThreads PROVE UNCHANGED holder  BY <2>1 DEF InitThreads, holder
    <2>2. ASSUME UNCHANGED vars PROVE UNCHANGED holder  BY <2>2 DEF vars, holder
    <2> QED  BY <1>2, <2>1, <2>2 DEF Next
  <1> QED  BY <1>1, <1>3, LockInvariant, PTL DEF Spec, IsMutex, Mutex!Spec

------------------------------------------------------------------------------
(* The address map.                                                         *)

Entry == [key : Keys, value : Sizes]
Blocks == 0..ClusterBlocks - 1

ClusterTypes == clusters \in [DOMAIN clusters -> [Blocks -> Seq(Entry)]]
Types == ClusterTypes /\ free \in Nat /\ arrays \in Nat

------------------------------------------------------------------------------
(* Blocks and lists.                                                        *)

\* Every address has a block (addressmap-inl.h:235).
LEMMA HasBlock == ASSUME NEW k \in Keys PROVE BlockID(k) \in Blocks
<1>1. k \in Nat /\ BlockSize \in Nat \ {0} /\ ClusterBlocks \in Nat \ {0}
  BY MapAssumption
<1>2. k \div BlockSize \in Nat
  BY <1>1
<1>3. \A x \in Nat : x % ClusterBlocks \in 0..ClusterBlocks - 1
  BY <1>1
<1> QED
  BY <1>2, <1>3 DEF BlockID, Blocks

LEMMA BlockIsList == ASSUME ClusterTypes, NEW k \in Keys PROVE Block(k) \in Seq(Entry)
  BY HasBlock DEF ClusterTypes, Block

\* In a block an address has one entry, and every entry is of this block.
LEMMA OneEntry ==
  ASSUME ClusterTypes, Placed, NEW k \in Keys
  PROVE  \A i \in DOMAIN Block(k) :
           /\ ClusterId(Block(k)[i].key) = ClusterId(k) /\ BlockID(Block(k)[i].key) = BlockID(k)
           /\ \A j \in DOMAIN Block(k) : Block(k)[i].key = Block(k)[j].key => i = j
<1>1. CASE ClusterId(k) \in DOMAIN clusters
  BY <1>1, HasBlock DEF Placed, Fits, Block, Blocks
<1>2. CASE ClusterId(k) \notin DOMAIN clusters
  BY <1>2 DEF Block
<1> QED
  BY <1>1, <1>2

\* An entry is found in the block of its address and nowhere else.
InBlock(e) == e \in Entry /\ \E i \in DOMAIN Block(e.key) : Block(e.key)[i] = e
EntriesInBlocks == \A e : e \in Entries <=> InBlock(e)
LEMMA EntryInBlock == ClusterTypes /\ Placed => EntriesInBlocks
<1> SUFFICES ASSUME ClusterTypes, Placed, NEW e PROVE e \in Entries <=> InBlock(e)
  BY DEF EntriesInBlocks
<1> USE DEF InBlock
<1>1. ASSUME e \in Entries PROVE InBlock(e)
  <2>1. PICK c \in DOMAIN clusters, b \in Blocks : \E i \in DOMAIN clusters[c][b] : clusters[c][b][i] = e
    BY <1>1 DEF Entries, EntriesOf, Blocks
  <2>2. clusters[c][b] \in Seq(Entry)
    BY DEF ClusterTypes
  <2>3. e \in Entry
    BY <2>1, <2>2
  <2>4. ClusterId(e.key) = c /\ BlockID(e.key) = b
    BY <2>1 DEF Placed, Fits, Blocks
  <2> QED
    BY <2>1, <2>3, <2>4 DEF Block
<1>2. ASSUME e \in Entry, NEW i \in DOMAIN Block(e.key), Block(e.key)[i] = e PROVE e \in Entries
  <2>1. e.key \in Keys
    BY <1>2 DEF Entry
  <2>2. BlockID(e.key) \in Blocks
    BY <2>1, HasBlock
  <2>3. ClusterId(e.key) \in DOMAIN clusters
    BY <1>2 DEF Block
  <2>4. Block(e.key) = clusters[ClusterId(e.key)][BlockID(e.key)]
    BY <2>3 DEF Block
  <2>5. e \in EntriesOf(ClusterId(e.key))
    BY <1>2, <2>2, <2>4 DEF EntriesOf, Blocks
  <2> QED
    BY <2>3, <2>5 DEF Entries
<1> QED
  BY <1>1, <1>2

\* FindMutable returns what the entry of the address says (addressmap-inl.h:297-305).
Found(k) == /\ \A e \in Entries : e.key = k => FindMutable(k) = {e.value} /\ Positions(k) # {}
            /\ Positions(k) # {} => \E e \in Entries : e.key = k
LEMMA FoundIsEntry == ClusterTypes /\ Placed => \A k \in Keys : Found(k)
<1> SUFFICES ASSUME ClusterTypes, Placed, NEW k \in Keys PROVE Found(k)
  OBVIOUS
<1>1. ASSUME NEW e \in Entries, e.key = k PROVE FindMutable(k) = {e.value} /\ Positions(k) # {}
  <2>1. PICK i \in DOMAIN Block(k) : Block(k)[i] = e
    BY <1>1, EntryInBlock DEF EntriesInBlocks, InBlock
  <2>2. Positions(k) = {i}
    BY <1>1, <2>1, OneEntry DEF Positions
  <2>3. (CHOOSE j \in Positions(k) : TRUE) = i
    BY <2>2
  <2> QED
    BY <2>1, <2>2, <2>3 DEF FindMutable
<1>2. ASSUME NEW i \in Positions(k) PROVE \E e \in Entries : e.key = k
  <2>1. i \in DOMAIN Block(k) /\ Block(k)[i].key = k
    BY DEF Positions
  <2>2. Block(k)[i] \in Entry
    BY <2>1, BlockIsList
  <2> QED
    BY <2>1, <2>2, EntryInBlock DEF EntriesInBlocks, InBlock
<1> QED
  BY <1>1, <1>2 DEF Found

------------------------------------------------------------------------------
(* A block gets another list.                                               *)

Together(x, k) == ClusterId(x) = ClusterId(k) /\ BlockID(x) = BlockID(k)

LEMMA NoneFits == \A c, b : Fits(<<>>, c, b)
  BY DEF Fits

\* All that changes are the entries of that block.
LEMMA NewList ==
  ASSUME ClusterTypes, Placed, NEW k \in Keys, NEW list \in Seq(Entry), Fits(list, ClusterId(k), BlockID(k)),
         clusters' = SetBlock(FindCluster(k, TRUE), k, list)
  PROVE  /\ ClusterTypes' /\ Placed'
         /\ \A x \in Keys : Block(x)' = IF Together(x, k) THEN list ELSE Block(x)
<1> DEFINE c == ClusterId(k)
           D == DOMAIN clusters \cup {c}
           old(d) == IF d \in DOMAIN clusters THEN clusters[d] ELSE EmptyCluster
<1>1. BlockID(k) \in Blocks
  BY HasBlock
<1>2. EmptyCluster \in [Blocks -> Seq(Entry)]
  BY DEF EmptyCluster, Blocks
<1>3. \A d \in D : old(d) \in [Blocks -> Seq(Entry)]
  BY <1>2 DEF ClusterTypes
<1>4. FindCluster(k, TRUE) = [d \in D |-> old(d)]
  BY DEF FindCluster
<1>5. clusters' = [d \in D |-> IF d = c THEN [old(c) EXCEPT ![BlockID(k)] = list] ELSE old(d)]
  BY <1>4 DEF SetBlock
<1>6. ClusterTypes'
  <2>1. [old(c) EXCEPT ![BlockID(k)] = list] \in [Blocks -> Seq(Entry)]
    BY <1>1, <1>3
  <2>2. \A d \in D : clusters'[d] \in [Blocks -> Seq(Entry)]
    BY <1>3, <1>5, <2>1
  <2> QED
    BY <1>5, <2>2 DEF ClusterTypes
<1>7. ASSUME NEW d \in DOMAIN clusters', NEW b \in Blocks
      PROVE  clusters'[d][b] = IF d = c /\ b = BlockID(k) THEN list ELSE old(d)[b]
  BY <1>3, <1>5, ZenonT(60)
<1>8. Placed'
  <2> SUFFICES ASSUME NEW d \in DOMAIN clusters', NEW b \in Blocks PROVE Fits(clusters'[d][b], d, b)
    BY DEF Placed, Blocks, Fits, ClusterId, BlockID, kClusterSize
  <2>1. CASE d = c /\ b = BlockID(k)
    BY <1>7, <2>1
  <2>2. CASE ~(d = c /\ b = BlockID(k)) /\ d \in DOMAIN clusters
    BY <1>7, <2>2 DEF Placed, Blocks
  <2>3. CASE ~(d = c /\ b = BlockID(k)) /\ d \notin DOMAIN clusters
    <3>1. clusters'[d][b] = <<>>
      BY <1>5, <1>7, <2>3 DEF EmptyCluster, Blocks
    <3> QED
      BY <3>1, NoneFits
  <2> QED
    BY <2>1, <2>2, <2>3
<1>9. ASSUME NEW x \in Keys PROVE Block(x)' = IF Together(x, k) THEN list ELSE Block(x)
  <2>1. BlockID(x) \in Blocks
    BY HasBlock
  <2>2. CASE ClusterId(x) \in D
    BY <1>5, <1>7, <2>1, <2>2 DEF Block, Together, EmptyCluster, Blocks, ClusterId, BlockID
  <2>3. CASE ClusterId(x) \notin D
    BY <1>5, <2>3 DEF Block, Together, ClusterId, BlockID
  <2> QED
    BY <2>2, <2>3
<1> QED
  BY <1>6, <1>8, <1>9

\* What is in the map then.
LEMMA NewEntries ==
  ASSUME ClusterTypes, Placed, NEW k \in Keys, NEW list \in Seq(Entry), Fits(list, ClusterId(k), BlockID(k)),
         clusters' = SetBlock(FindCluster(k, TRUE), k, list), NEW e
  PROVE  e \in Entries' <=> e \in Entry /\ IF Together(e.key, k) THEN e \in Range(list) ELSE e \in Entries
<1>1. (\A x : x \in Entries <=> InBlock(x))'
  <2>1. (ClusterTypes /\ Placed)'
    BY NewList
  <2>2. (ClusterTypes /\ Placed => EntriesInBlocks)'
    BY EntryInBlock, PTL
  <2> QED
    BY <2>1, <2>2 DEF EntriesInBlocks
<1>2. e \in Entries <=> InBlock(e)
  BY EntryInBlock DEF EntriesInBlocks
<1>3. e \in Entry => e.key \in Keys
  BY DEF Entry
<1>4. e \in Entries' <=> InBlock(e)'
  BY <1>1
<1>5. InBlock(e)' <=> e \in Entry /\ \E i \in DOMAIN Block(e.key)' : Block(e.key)'[i] = e
  BY DEF InBlock
<1>6. e \in Entry => Block(e.key)' = IF Together(e.key, k) THEN list ELSE Block(e.key)
  BY <1>3, NewList
<1>7. e \in Range(list) <=> \E i \in DOMAIN list : list[i] = e
  BY DEF Range
<1> QED
  BY <1>2, <1>4, <1>5, <1>6, <1>7 DEF InBlock

\* The entries of a block are those of all its addresses.
LEMMA SameBlock ==
  ASSUME ClusterTypes, Placed, NEW k \in Keys, NEW e \in Entry, Together(e.key, k)
  PROVE  e \in Entries <=> e \in Range(Block(k))
<1>1. Block(e.key) = Block(k)
  BY DEF Block, Together
<1>2. e \in Entries <=> \E i \in DOMAIN Block(k) : Block(k)[i] = e
  BY <1>1, EntryInBlock DEF EntriesInBlocks, InBlock
<1> QED
  BY <1>2 DEF Range

LEMMA BlockFits == ASSUME ClusterTypes, Placed, NEW k \in Keys PROVE Fits(Block(k), ClusterId(k), BlockID(k))
  BY OneEntry DEF Fits

\* Of the entries of an address the first is found (addressmap-inl.h:299-301).
LEMMA Spot ==
  ASSUME ClusterTypes, Placed, NEW k \in Keys, Positions(k) # {}
  PROVE  \E i \in DOMAIN Block(k) : i = (CHOOSE j \in Positions(k) : TRUE) /\ Block(k)[i].key = k
  BY DEF Positions

\* An entry in a list gets another value (addressmap-inl.h:316).
LEMMA Revalued ==
  ASSUME NEW list \in Seq(Entry), NEW c, NEW b, Fits(list, c, b), NEW i \in DOMAIN list, NEW n \in Sizes
  PROVE  LET e == [key |-> list[i].key, value |-> n]
             new == [list EXCEPT ![i].value = n]
         IN /\ new \in Seq(Entry) /\ Fits(new, c, b) /\ e \in Entry
            /\ \A x : x \in Range(new) <=> x = e \/ (x \in Range(list) /\ x # list[i])
<1> DEFINE e == [key |-> list[i].key, value |-> n]
           new == [list EXCEPT ![i].value = n]
<1>1. list[i] \in Entry /\ list \in [1..Len(list) -> Entry] /\ DOMAIN list = 1..Len(list) /\ Len(list) \in Nat
  OBVIOUS
<1>2. e \in Entry /\ [list[i] EXCEPT !.value = n] = e
  BY <1>1 DEF Entry
<1>3. new = [list EXCEPT ![i] = e]
  BY <1>2
<1>4. new \in [1..Len(list) -> Entry]
  BY <1>1, <1>2, <1>3
<1>5. new \in Seq(Entry) /\ DOMAIN new = DOMAIN list
  BY <1>1, <1>4, SeqDef
<1>6. \A j \in DOMAIN list : new[j] = IF j = i THEN e ELSE list[j]
  BY <1>1, <1>3
<1>7. \A j \in DOMAIN list : new[j].key = list[j].key
  BY <1>6
<1>8. Fits(new, c, b)
  BY <1>5, <1>7 DEF Fits
<1>9. ASSUME NEW x PROVE x \in Range(new) <=> x = e \/ (x \in Range(list) /\ x # list[i])
  <2>1. \A j \in DOMAIN list : list[j] = list[i] => j = i
    BY DEF Fits
  <2> QED
    BY <1>5, <1>6, <2>1 DEF Range
<1> QED
  BY <1>2, <1>5, <1>8, <1>9

\* A new entry is put in front of a list (addressmap-inl.h:332-337).
LEMMA Prepended ==
  ASSUME NEW list \in Seq(Entry), NEW c, NEW b, Fits(list, c, b), NEW e \in Entry,
         ClusterId(e.key) = c, BlockID(e.key) = b, \A i \in DOMAIN list : list[i].key # e.key
  PROVE  /\ <<e>> \o list \in Seq(Entry) /\ Fits(<<e>> \o list, c, b)
         /\ \A x : x \in Range(<<e>> \o list) <=> x = e \/ x \in Range(list)
<1> DEFINE new == <<e>> \o list
<1>1. new \in Seq(Entry) /\ Len(new) = Len(list) + 1 /\ Len(list) \in Nat
      /\ \A j \in 1..Len(new) : new[j] = IF j = 1 THEN e ELSE list[j - 1]
  OBVIOUS
<1>2. DOMAIN new = 1..(Len(list) + 1) /\ DOMAIN list = 1..Len(list)
  BY <1>1
<1>3. \A j \in DOMAIN new : (j = 1 /\ new[j] = e) \/ (j - 1 \in DOMAIN list /\ new[j] = list[j - 1])
  BY <1>1, <1>2
<1>4. new[1] = e /\ 1 \in DOMAIN new /\ \A j \in DOMAIN list : j + 1 \in DOMAIN new /\ new[j + 1] = list[j]
  BY <1>1, <1>2
<1>5. Fits(new, c, b)
  <2> SUFFICES ASSUME NEW i \in DOMAIN new, NEW j \in DOMAIN new
               PROVE  /\ ClusterId(new[i].key) = c /\ BlockID(new[i].key) = b
                      /\ (new[i].key = new[j].key => i = j)
    BY DEF Fits
  <2>1. i \in Nat /\ j \in Nat
    BY <1>2
  <2> QED
    BY <1>3, <2>1 DEF Fits
<1>6. ASSUME NEW x PROVE x \in Range(new) <=> x = e \/ x \in Range(list)
  <2>1. x \in Range(new) <=> \E j \in DOMAIN new : new[j] = x
    BY DEF Range
  <2>2. x \in Range(list) <=> \E j \in DOMAIN list : list[j] = x
    BY DEF Range
  <2>3. x \in Range(new) => x = e \/ x \in Range(list)
    BY <1>3, <2>1, <2>2
  <2>4. x = e \/ x \in Range(list) => x \in Range(new)
    BY <1>4, <2>1, <2>2
  <2> QED
    BY <2>3, <2>4
<1> QED
  BY <1>1, <1>5, <1>6

\* An entry is taken out of a list (addressmap-inl.h:351).
LEMMA Removed ==
  ASSUME NEW list \in Seq(Entry), NEW c, NEW b, Fits(list, c, b), NEW i \in DOMAIN list
  PROVE  /\ Delete(list, i) \in Seq(Entry) /\ Fits(Delete(list, i), c, b)
         /\ \A x : x \in Range(Delete(list, i)) <=> x \in Range(list) /\ x # list[i]
<1> DEFINE new == Delete(list, i)
<1>1. Len(list) \in Nat /\ DOMAIN list = 1..Len(list) /\ i \in 1..Len(list)
  OBVIOUS
<1>2. /\ SubSeq(list, 1, i - 1) \in Seq(Entry) /\ Len(SubSeq(list, 1, i - 1)) = i - 1
      /\ \A j \in 1..(i - 1) : SubSeq(list, 1, i - 1)[j] = list[j]
  BY <1>1
<1>3. /\ SubSeq(list, i + 1, Len(list)) \in Seq(Entry) /\ Len(SubSeq(list, i + 1, Len(list))) = Len(list) - i
      /\ \A j \in 1..(Len(list) - i) : SubSeq(list, i + 1, Len(list))[j] = list[i + j]
  BY <1>1
<1>4. /\ new \in Seq(Entry) /\ Len(new) = Len(list) - 1
      /\ \A j \in 1..(Len(list) - 1) : new[j] = IF j < i THEN list[j] ELSE list[j + 1]
  <2> DEFINE f == SubSeq(list, 1, i - 1)
             g == SubSeq(list, i + 1, Len(list))
  <2>1. new = f \o g
    BY DEF Delete
  <2>2. f \in Seq(Entry) /\ g \in Seq(Entry) /\ Len(f) = i - 1 /\ Len(g) = Len(list) - i /\ i \in Int
    BY <1>1, <1>2, <1>3
  <2>3. /\ f \o g \in Seq(Entry) /\ Len(f \o g) = Len(list) - 1
        /\ \A j \in 1..(Len(list) - 1) : (f \o g)[j] = IF j <= i - 1 THEN f[j] ELSE g[j - (i - 1)]
    <3> HIDE DEF f, g
    <3>1. Len(f) + Len(g) = Len(list) - 1
      BY <1>1, <2>2
    <3>2. /\ f \o g \in Seq(Entry) /\ Len(f \o g) = Len(f) + Len(g)
          /\ \A j \in 1..Len(f) + Len(g) : (f \o g)[j] = IF j <= Len(f) THEN f[j] ELSE g[j - Len(f)]
      BY <2>2, ConcatProperties
    <3> QED
      BY <2>2, <3>1, <3>2
  <2>4. ASSUME NEW j \in 1..(Len(list) - 1) PROVE (f \o g)[j] = IF j < i THEN list[j] ELSE list[j + 1]
    <3>1. CASE j < i
      <4>1. j \in 1..(i - 1) /\ j <= i - 1
        BY <1>1, <3>1
      <4> QED
        BY <1>2, <2>3, <3>1, <4>1
    <3>2. CASE ~(j < i)
      <4>1. j - (i - 1) \in 1..(Len(list) - i) /\ i + (j - (i - 1)) = j + 1 /\ ~(j <= i - 1)
        BY <1>1, <3>2
      <4>2. g[j - (i - 1)] = list[j + 1]
        BY <1>3, <4>1
      <4> QED
        BY <2>3, <3>2, <4>1, <4>2
    <3> QED
      BY <3>1, <3>2
  <2> QED
    BY <2>1, <2>3, <2>4
<1>5. DOMAIN new = 1..(Len(list) - 1)
  BY <1>1, <1>4
<1>6. ASSUME NEW j \in DOMAIN new
      PROVE  \E m \in DOMAIN list : m # i /\ m = (IF j < i THEN j ELSE j + 1) /\ new[j] = list[m]
  <2>1. new[j] = IF j < i THEN list[j] ELSE list[j + 1]
    BY <1>4, <1>5
  <2>2. j \in 1..(Len(list) - 1)
    BY <1>5
  <2> HIDE DEF new
  <2>3. CASE j < i
    BY <1>1, <2>1, <2>2, <2>3
  <2>4. CASE ~(j < i)
    <3>1. j + 1 \in 1..Len(list) /\ j + 1 # i
      BY <1>1, <2>2, <2>4
    <3> QED
      BY <1>1, <2>1, <2>4, <3>1
  <2> QED
    BY <2>3, <2>4
<1>7. ASSUME NEW j \in DOMAIN list, j # i PROVE list[j] \in Range(new)
  <2>0. j \in 1..Len(list) /\ j \in Int /\ i \in Int /\ Len(list) \in Nat
    BY <1>1
  <2> HIDE DEF new
  <2>1. CASE j < i
    <3>1. j \in 1..(Len(list) - 1)
      BY <1>1, <2>0, <2>1
    <3>2. new[j] = list[j]
      BY <1>4, <2>1, <3>1
    <3> QED
      BY <1>5, <3>1, <3>2 DEF Range
  <2>2. CASE j > i
    <3>1. j - 1 \in 1..(Len(list) - 1) /\ ~(j - 1 < i) /\ (j - 1) + 1 = j
      BY <1>1, <2>0, <2>2
    <3>2. new[j - 1] = list[j]
      BY <1>4, <3>1
    <3> QED
      BY <1>5, <3>1, <3>2 DEF Range
  <2> QED
    BY <1>7, <2>0, <2>1, <2>2
<1>8. Fits(new, c, b)
  <2> SUFFICES ASSUME NEW k \in DOMAIN new, NEW j \in DOMAIN new
               PROVE  /\ ClusterId(new[k].key) = c /\ BlockID(new[k].key) = b
                      /\ (new[k].key = new[j].key => k = j)
    BY DEF Fits
  <2>1. k \in Int /\ j \in Int /\ i \in Int
    BY <1>1, <1>5
  <2>2. PICK k1 \in DOMAIN list : k1 # i /\ k1 = (IF k < i THEN k ELSE k + 1) /\ new[k] = list[k1]
    BY <1>6
  <2>3. PICK j1 \in DOMAIN list : j1 # i /\ j1 = (IF j < i THEN j ELSE j + 1) /\ new[j] = list[j1]
    BY <1>6
  <2>4. k1 = j1 => k = j
    BY <2>1, <2>2, <2>3
  <2> HIDE DEF new
  <2> QED
    BY <2>2, <2>3, <2>4 DEF Fits
<1>9. ASSUME NEW x PROVE x \in Range(new) <=> x \in Range(list) /\ x # list[i]
  <2>1. \A j \in DOMAIN list : list[j] = list[i] => j = i
    BY DEF Fits
  <2>3. x \in Range(new) <=> \E j \in DOMAIN new : new[j] = x
    BY DEF Range
  <2>4. x \in Range(list) <=> \E j \in DOMAIN list : list[j] = x
    BY DEF Range
  <2> HIDE DEF new
  <2>5. x \in Range(new) => x \in Range(list) /\ x # list[i]
    <3>1. SUFFICES ASSUME NEW j \in DOMAIN new PROVE new[j] \in Range(list) /\ new[j] # list[i]
      BY <2>3
    <3>2. PICK m \in DOMAIN list : m # i /\ new[j] = list[m]
      BY <1>6
    <3> QED
      BY <2>1, <3>2 DEF Range
  <2>6. x \in Range(list) /\ x # list[i] => x \in Range(new)
    <3>1. SUFFICES ASSUME NEW j \in DOMAIN list, list[j] # list[i] PROVE list[j] \in Range(new)
      BY <2>4
    <3> QED
      BY <1>7, <3>1
  <2> QED
    BY <2>5, <2>6
<1> QED
  BY <1>4, <1>8, <1>9

------------------------------------------------------------------------------
(* What the operations do to the entries.                                   *)

EntryOf(k, n) == [key |-> k, value |-> n]

\* A new entry is the first of its address (addressmap-inl.h:310, 320-337).
LEMMA InsertNew ==
  ASSUME ClusterTypes, Placed, NEW k \in Keys, NEW n \in Sizes, Positions(k) = {},
         clusters' = SetBlock(FindCluster(k, TRUE), k, <<EntryOf(k, n)>> \o Block(k))
  PROVE  /\ ClusterTypes' /\ Placed' /\ Entries' = Entries \cup {EntryOf(k, n)}
         /\ \A e \in Entries : e.key # k
<1> DEFINE e0 == EntryOf(k, n)
           list == <<e0>> \o Block(k)
<1>1. e0 \in Entry /\ e0.key = k
  BY DEF EntryOf, Entry
<1>2. Block(k) \in Seq(Entry) /\ Fits(Block(k), ClusterId(k), BlockID(k))
  BY BlockIsList, BlockFits
<1>3. \A i \in DOMAIN Block(k) : Block(k)[i].key # e0.key
  BY <1>1 DEF Positions
<1>4. /\ list \in Seq(Entry) /\ Fits(list, ClusterId(k), BlockID(k))
      /\ \A x : x \in Range(list) <=> x = e0 \/ x \in Range(Block(k))
  <2> HIDE DEF e0
  <2> QED
    BY <1>1, <1>2, <1>3, Prepended
<1>5. clusters' = SetBlock(FindCluster(k, TRUE), k, list)
  OBVIOUS
<1> HIDE DEF list, e0
<1>6. ClusterTypes' /\ Placed'
  BY <1>4, <1>5, NewList
<1>7. ASSUME NEW x PROVE x \in Entries' <=> x \in Entries \/ x = e0
  <2>1. x \in Entries' <=> x \in Entry /\ IF Together(x.key, k) THEN x \in Range(list) ELSE x \in Entries
    BY <1>4, <1>5, NewEntries
  <2>2. x \in Entries => x \in Entry
    BY EntryInBlock DEF EntriesInBlocks, InBlock
  <2>3. x \in Entry /\ Together(x.key, k) => (x \in Entries <=> x \in Range(Block(k)))
    BY SameBlock
  <2>4. Together(e0.key, k)
    BY <1>1 DEF Together
  <2> QED
    BY <1>1, <1>4, <2>1, <2>2, <2>3, <2>4
<1>8. \A e \in Entries : e.key # k
  BY FoundIsEntry DEF Found
<1> QED
  BY <1>6, <1>7, <1>8 DEF e0

\* An address that is there gets another value (addressmap-inl.h:314-319).
LEMMA InsertOld ==
  ASSUME ClusterTypes, Placed, NEW k \in Keys, NEW n \in Sizes, Positions(k) # {},
         clusters' = SetBlock(clusters, k, [Block(k) EXCEPT ![CHOOSE i \in Positions(k) : TRUE].value = n])
  PROVE  /\ ClusterTypes' /\ Placed'
         /\ \E old \in Entries : old.key = k /\ Entries' = (Entries \ {old}) \cup {EntryOf(k, n)}
<1>1. PICK i \in DOMAIN Block(k) : i = (CHOOSE j \in Positions(k) : TRUE) /\ Block(k)[i].key = k
  BY Spot
<1> DEFINE e0 == EntryOf(k, n)
           list == [Block(k) EXCEPT ![i].value = n]
           old == Block(k)[i]
<1>2. Block(k) \in Seq(Entry) /\ Fits(Block(k), ClusterId(k), BlockID(k)) /\ old \in Entry /\ old.key = k
  BY <1>1, BlockIsList, BlockFits
<1>3. /\ list \in Seq(Entry) /\ Fits(list, ClusterId(k), BlockID(k)) /\ e0 \in Entry
      /\ \A x : x \in Range(list) <=> x = e0 \/ (x \in Range(Block(k)) /\ x # old)
  <2>1. e0 = [key |-> Block(k)[i].key, value |-> n]
    BY <1>1 DEF EntryOf
  <2> HIDE DEF e0
  <2> QED
    BY <1>2, <2>1, Revalued
<1>4. ClusterId(k) \in DOMAIN clusters
  BY <1>1 DEF Block
<1>5. FindCluster(k, TRUE) = clusters
  BY <1>4 DEF FindCluster, ClusterTypes
<1>6. clusters' = SetBlock(FindCluster(k, TRUE), k, list)
  BY <1>1, <1>5
<1>7. e0.key = k
  BY DEF EntryOf
<1>8. old \in Range(Block(k))
  BY <1>1 DEF Range
<1> HIDE DEF list, e0, old
<1>9. ClusterTypes' /\ Placed'
  BY <1>3, <1>6, NewList
<1>10. ASSUME NEW x PROVE x \in Entries' <=> x = e0 \/ (x \in Entries /\ x # old)
  <2>1. x \in Entries' <=> x \in Entry /\ IF Together(x.key, k) THEN x \in Range(list) ELSE x \in Entries
    BY <1>3, <1>6, NewEntries
  <2>2. x \in Entries => x \in Entry
    BY EntryInBlock DEF EntriesInBlocks, InBlock
  <2>3. x \in Entry /\ Together(x.key, k) => (x \in Entries <=> x \in Range(Block(k)))
    BY SameBlock
  <2>4. Together(k, k)
    BY DEF Together
  <2> QED
    BY <1>2, <1>3, <1>7, <2>1, <2>2, <2>3, <2>4
<1>11. old \in Entries
  BY <1>2, <1>8, SameBlock DEF Together
<1> QED
  BY <1>2, <1>9, <1>10, <1>11 DEF e0

\* The entry of the address is taken out (addressmap-inl.h:344-355).
LEMMA RemoveOld ==
  ASSUME ClusterTypes, Placed, NEW k \in Keys, Positions(k) # {},
         clusters' = SetBlock(clusters, k, Delete(Block(k), CHOOSE i \in Positions(k) : TRUE))
  PROVE  /\ ClusterTypes' /\ Placed'
         /\ \E old \in Entries : old.key = k /\ Entries' = Entries \ {old}
<1>1. PICK i \in DOMAIN Block(k) : i = (CHOOSE j \in Positions(k) : TRUE) /\ Block(k)[i].key = k
  BY Spot
<1> DEFINE list == Delete(Block(k), i)
           old == Block(k)[i]
<1>2. Block(k) \in Seq(Entry) /\ Fits(Block(k), ClusterId(k), BlockID(k)) /\ old \in Entry /\ old.key = k
  BY <1>1, BlockIsList, BlockFits
<1>3. /\ list \in Seq(Entry) /\ Fits(list, ClusterId(k), BlockID(k))
      /\ \A x : x \in Range(list) <=> x \in Range(Block(k)) /\ x # old
  BY <1>1, <1>2, Removed
<1>4. ClusterId(k) \in DOMAIN clusters
  BY <1>1 DEF Block
<1>5. FindCluster(k, TRUE) = clusters
  BY <1>4 DEF FindCluster, ClusterTypes
<1>6. clusters' = SetBlock(FindCluster(k, TRUE), k, list)
  BY <1>1, <1>5
<1>8. old \in Range(Block(k))
  BY <1>1 DEF Range
<1> HIDE DEF list, old
<1>9. ClusterTypes' /\ Placed'
  BY <1>3, <1>6, NewList
<1>10. ASSUME NEW x PROVE x \in Entries' <=> x \in Entries /\ x # old
  <2>1. x \in Entries' <=> x \in Entry /\ IF Together(x.key, k) THEN x \in Range(list) ELSE x \in Entries
    BY <1>3, <1>6, NewEntries
  <2>2. x \in Entries => x \in Entry
    BY EntryInBlock DEF EntriesInBlocks, InBlock
  <2>3. x \in Entry /\ Together(x.key, k) => (x \in Entries <=> x \in Range(Block(k)))
    BY SameBlock
  <2>4. Together(k, k)
    BY DEF Together
  <2> QED
    BY <1>2, <1>3, <2>1, <2>2, <2>3, <2>4
<1>11. old \in Entries
  BY <1>2, <1>8, SameBlock DEF Together
<1> QED
  BY <1>2, <1>9, <1>10, <1>11

------------------------------------------------------------------------------
(* The invariant.                                                           *)

\* Insert and FindAndRemove in terms of the entries.
InsertsNew(k, n) == /\ \A e \in Entries : e.key # k
                    /\ Entries' = Entries \cup {EntryOf(k, n)}
                    /\ free + arrays' * AllocCount = free' + 1 + arrays * AllocCount
InsertsOld(k, n) == /\ \E old \in Entries : old.key = k /\ Entries' = (Entries \ {old}) \cup {EntryOf(k, n)}
                    /\ UNCHANGED <<free, arrays>>
Removes(k) == /\ \E old \in Entries : old.key = k /\ Entries' = Entries \ {old}
              /\ free' = free + 1 /\ UNCHANGED arrays

LEMMA InsertDoes ==
  ASSUME Types, Placed, NEW k \in Keys, NEW n \in Sizes, Insert(k, n)
  PROVE  Types' /\ Placed' /\ (InsertsNew(k, n) \/ InsertsOld(k, n))
<1> USE DEF Types
<1>1. CASE Positions(k) = {}
  <2>1. clusters' = SetBlock(FindCluster(k, TRUE), k, <<EntryOf(k, n)>> \o Block(k))
    BY <1>1 DEF Insert, EntryOf
  <2>2. /\ ClusterTypes' /\ Placed' /\ Entries' = Entries \cup {EntryOf(k, n)}
        /\ \A e \in Entries : e.key # k
    BY <1>1, <2>1, InsertNew
  <2>3. /\ free' \in Nat /\ arrays' \in Nat
        /\ free + arrays' * AllocCount = free' + 1 + arrays * AllocCount
    <3>0. AllocCount \in Nat \ {0}
      BY MapAssumption
    <3>1. CASE free = 0
      <4>1. free' = AllocCount - 1 /\ arrays' = arrays + 1
        BY <1>1, <3>1 DEF Insert
      <4>2. (arrays + 1) * AllocCount = arrays * AllocCount + AllocCount
        BY <3>0
      <4> QED
        BY <3>0, <3>1, <4>1, <4>2
    <3>2. CASE free # 0
      <4>1. free' = free - 1 /\ arrays' = arrays
        BY <1>1, <3>2 DEF Insert
      <4> QED
        BY <3>0, <3>2, <4>1
    <3> QED
      BY <3>1, <3>2
  <2> QED
    BY <2>2, <2>3 DEF InsertsNew
<1>2. CASE Positions(k) # {}
  <2>1. /\ clusters' = SetBlock(clusters, k, [Block(k) EXCEPT ![CHOOSE i \in Positions(k) : TRUE].value = n])
        /\ UNCHANGED <<free, arrays>>
    BY <1>2 DEF Insert
  <2>2. /\ ClusterTypes' /\ Placed'
        /\ \E old \in Entries : old.key = k /\ Entries' = (Entries \ {old}) \cup {EntryOf(k, n)}
    BY <1>2, <2>1, InsertOld
  <2> QED
    BY <2>1, <2>2 DEF InsertsOld
<1> QED
  BY <1>1, <1>2

LEMMA FindAndRemoveDoes ==
  ASSUME Types, Placed, NEW k \in Keys, FindAndRemove(k)
  PROVE  Types' /\ Placed' /\ Removes(k)
<1> USE DEF Types
<1>1. /\ Positions(k) # {} /\ free' = free + 1 /\ UNCHANGED arrays
      /\ clusters' = SetBlock(clusters, k, Delete(Block(k), CHOOSE i \in Positions(k) : TRUE))
  BY DEF FindAndRemove
<1>2. /\ ClusterTypes' /\ Placed'
      /\ \E old \in Entries : old.key = k /\ Entries' = Entries \ {old}
  BY <1>1, RemoveOld
<1> QED
  BY <1>1, <1>2 DEF Removes

LEMMA OnlyOne ==
  ASSUME ClusterTypes, Placed, NEW e \in Entries, NEW f \in Entries, e.key = f.key PROVE e = f
<1>1. e.key \in Keys /\ InBlock(e) /\ InBlock(f)
  BY EntryInBlock DEF EntriesInBlocks, InBlock, Entry
<1> QED
  BY <1>1, OneEntry DEF InBlock

\* No entry is lost: what insertions take, removals give back.
Counted == IsFiniteSet(Entries) /\ EntriesConserved

LEMMA InsertCounts ==
  ASSUME Types, Placed, Types', Counted, NEW k \in Keys, NEW n \in Sizes, InsertsNew(k, n) \/ InsertsOld(k, n)
  PROVE  Counted'
<1>1. Cardinality(Entries) \in Nat /\ AllocCount \in Nat
  BY FS_CardinalityType, MapAssumption DEF Counted
<1>2. CASE InsertsNew(k, n)
  <2>1. EntryOf(k, n) \notin Entries
    BY <1>2 DEF InsertsNew, EntryOf
  <2>2. IsFiniteSet(Entries') /\ Cardinality(Entries') = Cardinality(Entries) + 1
    BY <1>2, <2>1, FS_AddElement DEF InsertsNew, Counted
  <2>3. free + arrays' * AllocCount = free' + 1 + arrays * AllocCount
    BY <1>2 DEF InsertsNew
  <2>4. free + Cardinality(Entries) = arrays * AllocCount
    BY DEF Counted, EntriesConserved
  <2>5. free' + Cardinality(Entries') = arrays' * AllocCount
    <3>0. arrays \in Nat /\ arrays' \in Nat /\ free \in Nat /\ free' \in Nat
      BY DEF Types
    <3>1. \A a, c \in Nat : a * c \in Nat
      OBVIOUS
    <3>2. /\ arrays * AllocCount \in Nat /\ arrays' * AllocCount \in Nat
      BY ONLY <1>1, <3>0, <3>1, Zenon
    <3>3. /\ Cardinality(Entries') = Cardinality(Entries) + 1 /\ Cardinality(Entries) \in Nat
      BY <1>1, <2>2
    <3> QED
      BY <2>3, <2>4, <3>0, <3>2, <3>3
  <2> QED
    BY <2>2, <2>5 DEF Counted, EntriesConserved
<1>3. CASE InsertsOld(k, n)
  <2>1. PICK old \in Entries : old.key = k /\ Entries' = (Entries \ {old}) \cup {EntryOf(k, n)}
    BY <1>3 DEF InsertsOld
  <2>2. IsFiniteSet(Entries \ {old}) /\ Cardinality(Entries \ {old}) = Cardinality(Entries) - 1
    BY FS_RemoveElement DEF Counted
  <2>3. EntryOf(k, n) \notin Entries \ {old}
    BY <2>1, OnlyOne DEF EntryOf, Types
  <2>4. IsFiniteSet(Entries') /\ Cardinality(Entries') = Cardinality(Entries)
    BY <1>1, <2>1, <2>2, <2>3, FS_AddElement
  <2> QED
    BY <1>3, <2>4 DEF Counted, EntriesConserved, InsertsOld
<1> QED
  BY <1>2, <1>3

LEMMA RemoveCounts ==
  ASSUME Types, Counted, NEW k \in Keys, Removes(k) PROVE Counted'
<1>1. PICK old \in Entries : old.key = k /\ Entries' = Entries \ {old}
  BY DEF Removes
<1>2. IsFiniteSet(Entries') /\ Cardinality(Entries') = Cardinality(Entries) - 1 /\ Cardinality(Entries) \in Nat
  BY <1>1, FS_RemoveElement, FS_CardinalityType DEF Counted
<1>3. free' + Cardinality(Entries') = free + Cardinality(Entries)
  BY <1>2 DEF Removes, Types
<1> QED
  BY <1>2, <1>3 DEF Counted, EntriesConserved, Removes

MapIInv == Types /\ Placed /\ Counted

\* A new map is empty (addressmap-inl.h:270-277).
LEMMA MapInitIInv == MapInit => MapIInv /\ Entries = {}
<1> SUFFICES ASSUME MapInit PROVE MapIInv /\ Entries = {}
  OBVIOUS
<1>1. DOMAIN clusters = {} /\ free = 0 /\ arrays = 0
  BY DEF MapInit
<1>2. ClusterTypes
  BY <1>1 DEF ClusterTypes, MapInit
<1>3. Entries = {}
  BY <1>1 DEF Entries
<1>4. Placed
  BY <1>1 DEF Placed
<1>5. Counted
  <2>1. AllocCount \in Nat
    BY MapAssumption
  <2> QED
    BY <1>1, <1>3, <2>1, FS_EmptySet DEF Counted, EntriesConserved
<1> QED
  BY <1>1, <1>2, <1>3, <1>4, <1>5 DEF MapIInv, Types

LEMMA MapStepIInv == MapIInv /\ [MapNext]_mapVars => MapIInv'
<1> SUFFICES ASSUME MapIInv, [MapNext]_mapVars PROVE MapIInv'
  OBVIOUS
<1>1. CASE MapNext
  <2>1. PICK k \in Keys : FindAndRemove(k) \/ \E n \in Sizes : Insert(k, n)
    BY <1>1 DEF MapNext
  <2>2. CASE FindAndRemove(k)
    BY <2>2, FindAndRemoveDoes, RemoveCounts DEF MapIInv
  <2>3. ASSUME NEW n \in Sizes, Insert(k, n) PROVE MapIInv'
    BY <2>3, InsertDoes, InsertCounts DEF MapIInv
  <2> QED
    BY <2>1, <2>2, <2>3
<1>2. CASE UNCHANGED mapVars
  <2> USE <1>2 DEF mapVars
  <2>1. Entries' = Entries
    BY DEF Entries, EntriesOf
  <2>2. Types'
    BY DEF MapIInv, Types, ClusterTypes
  <2>3. Placed'
    BY DEF MapIInv, Placed, Fits, ClusterId, BlockID
  <2>4. Counted'
    BY <2>1 DEF MapIInv, Counted, EntriesConserved
  <2> QED
    BY <2>2, <2>3, <2>4 DEF MapIInv
<1> QED
  BY <1>1, <1>2

\* Entries are where they are looked for, and none is lost.
THEOREM EntriesPlaced == MapSpec => []MapIInv
<1>1. MapInit => MapIInv
  BY MapInitIInv
<1> QED
  BY <1>1, MapStepIInv, PTL DEF MapSpec

\* Every entry of every array is in the map or in the free list
\* (addressmap-inl.h:321-334, 351-354).
THEOREM NoEntryLost == MapSpec => []EntriesConserved
  BY EntriesPlaced, PTL DEF MapIInv, Counted

------------------------------------------------------------------------------
(* The map implements PartialMap.                                           *)

ContentsTrue == /\ \A x : x \in DOMAIN contents <=> \E e \in Entries : e.key = x
                /\ \A e \in Entries : contents[e.key] = e.value
                /\ contents = [x \in DOMAIN contents |-> contents[x]]

\* What Find returns is the value of the one entry of the address.
LEMMA ContentsAreEntries == ClusterTypes /\ Placed => ContentsTrue
<1> SUFFICES ASSUME ClusterTypes, Placed PROVE ContentsTrue
  OBVIOUS
<1>1. \A x : x \in DOMAIN contents <=> \E e \in Entries : e.key = x
  BY DEF contents
<1>2. ASSUME NEW e \in Entries PROVE contents[e.key] = e.value
  <2>1. e.key \in Keys
    BY EntryInBlock DEF EntriesInBlocks, InBlock, Entry
  <2>2. FindMutable(e.key) = {e.value}
    BY <2>1, FoundIsEntry DEF Found
  <2>3. (CHOOSE n \in FindMutable(e.key) : TRUE) = e.value
    BY <2>2
  <2> QED
    BY <2>3 DEF contents
<1>3. contents = [x \in DOMAIN contents |-> contents[x]]
  BY DEF contents
<1> QED
  BY <1>1, <1>2, <1>3 DEF ContentsTrue

LEMMA InitMaps == MapInit => Abstract!Init
<1> SUFFICES ASSUME MapInit PROVE contents = <<>>
  BY DEF Abstract!Init
<1>1. Entries = {}
  BY MapInitIInv
<1> QED
  BY <1>1 DEF contents

\* Insert puts, FindAndRemove drops.
LEMMA StepMaps ==
  ASSUME MapIInv, [MapNext]_mapVars PROVE [Abstract!Next]_contents
<1>0. ContentsTrue /\ ContentsTrue'
  <2>1. (ClusterTypes /\ Placed)'
    BY MapStepIInv DEF MapIInv, Types
  <2>2. (ClusterTypes /\ Placed => ContentsTrue)'
    BY ContentsAreEntries, PTL
  <2> QED
    BY <2>1, <2>2, ContentsAreEntries DEF MapIInv, Types
<1>1. ASSUME NEW k \in Keys, FindAndRemove(k) PROVE Abstract!Drop(k)
  <2>1. PICK old \in Entries : old.key = k /\ Entries' = Entries \ {old}
    BY <1>1, FindAndRemoveDoes DEF MapIInv, Removes
  <2>2. \A e \in Entries : e.key = k => e = old
    BY <2>1, OnlyOne DEF MapIInv, Types
  <2>3. k \in DOMAIN contents
    BY <1>0, <2>1 DEF ContentsTrue
  <2>4. ASSUME NEW x PROVE x \in DOMAIN contents' <=> x \in DOMAIN contents \ {k}
    BY <1>0, <2>1, <2>2 DEF ContentsTrue
  <2>5. ASSUME NEW x \in DOMAIN contents' PROVE contents'[x] = contents[x]
    <3>1. PICK e \in Entries' : e.key = x
      BY <1>0 DEF ContentsTrue
    <3> QED
      BY <1>0, <2>1, <3>1 DEF ContentsTrue
  <2>6. contents' = [x \in DOMAIN contents \ {k} |-> contents[x]]
    BY <1>0, <2>4, <2>5 DEF ContentsTrue
  <2> QED
    BY <2>3, <2>6 DEF Abstract!Drop
<1>2. ASSUME NEW k \in Keys, NEW n \in Sizes, Insert(k, n) PROVE Abstract!Put(k, n)
  <2>1. \A e : e \in Entries' <=> e = EntryOf(k, n) \/ (e \in Entries /\ e.key # k)
    <3>1. CASE InsertsNew(k, n)
      BY <3>1 DEF InsertsNew
    <3>2. CASE InsertsOld(k, n)
      <4>1. PICK old \in Entries : old.key = k /\ Entries' = (Entries \ {old}) \cup {EntryOf(k, n)}
        BY <3>2 DEF InsertsOld
      <4>2. \A e \in Entries : e.key = k <=> e = old
        BY <4>1, OnlyOne DEF MapIInv, Types
      <4> QED
        BY <4>1, <4>2
    <3> QED
      BY <1>2, <3>1, <3>2, InsertDoes DEF MapIInv
  <2>2. EntryOf(k, n).key = k /\ EntryOf(k, n).value = n
    BY DEF EntryOf
  <2>3. ASSUME NEW x PROVE x \in DOMAIN contents' <=> x \in DOMAIN contents \cup {k}
    BY <1>0, <2>1, <2>2 DEF ContentsTrue
  <2>4. ASSUME NEW x \in DOMAIN contents' PROVE contents'[x] = IF x = k THEN n ELSE contents[x]
    <3>1. PICK e \in Entries' : e.key = x
      BY <1>0 DEF ContentsTrue
    <3> QED
      BY <1>0, <2>1, <2>2, <3>1 DEF ContentsTrue
  <2>5. contents' = [x \in DOMAIN contents \cup {k} |-> IF x = k THEN n ELSE contents[x]]
    BY <1>0, <2>3, <2>4 DEF ContentsTrue
  <2> QED
    BY <2>5 DEF Abstract!Put
<1>3. CASE UNCHANGED mapVars
  BY <1>3 DEF mapVars, contents, Entries, EntriesOf, FindMutable, Positions, Block, ClusterId, BlockID
<1> QED
  BY <1>1, <1>2, <1>3 DEF MapNext, Abstract!Next

\* The address map is a map: an address has the value it was given last, until it
\* is removed, wherever its block and its entry lie.
THEOREM AddressMapIsMap == MapSpec => IsMap
<1>1. MapInit => Abstract!Init
  BY InitMaps
<1>2. MapIInv /\ [MapNext]_mapVars => [Abstract!Next]_contents
  BY StepMaps
<1> QED
  BY <1>1, <1>2, EntriesPlaced, PTL DEF MapSpec, IsMap, Abstract!Spec
=============================================================================
