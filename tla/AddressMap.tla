----------------------------- MODULE AddressMap -----------------------------
(***************************************************************************)
(* The map from addresses to what the heap profile knows of them: clusters   *)
(* of blocks, one list of entries for each block, and entries that are       *)
(* allocated in arrays and kept in a free list. The hash only chooses the    *)
(* chain a cluster is found in, so clusters are found by their id.           *)
(***************************************************************************)
EXTENDS Naturals, Sequences, FiniteSets

CONSTANTS BlockSize, ClusterBlocks, AllocCount,  \* kBlockSize, kClusterBlocks, ALLOC_COUNT
          Keys, Sizes,                           \* addresses, and the sizes of what is there
          MaxEntries                             \* bound of the exploration
VARIABLES clusters,  \* id -> the lists of its blocks
          free,      \* how many entries are in free_
          arrays     \* how many arrays of entries were allocated
mapVars == <<clusters, free, arrays>>

ASSUME MapAssumption == /\ {BlockSize, ClusterBlocks, AllocCount} \subseteq Nat \ {0}
                        /\ Keys \subseteq Nat /\ Sizes \subseteq Nat /\ MaxEntries \in Nat

kClusterSize == BlockSize * ClusterBlocks
ClusterId(a) == a \div kClusterSize
BlockID(a) == (a \div BlockSize) % ClusterBlocks
EmptyCluster == [b \in 0..ClusterBlocks - 1 |-> <<>>]
FindCluster(a, create) ==
  IF create THEN [c \in DOMAIN clusters \cup {ClusterId(a)} |-> IF c \in DOMAIN clusters THEN clusters[c] ELSE EmptyCluster]
  ELSE clusters
Block(a) == IF ClusterId(a) \in DOMAIN clusters THEN clusters[ClusterId(a)][BlockID(a)] ELSE <<>>

MapInit == clusters = <<>> /\ free = 0 /\ arrays = 0

Positions(k) == {i \in DOMAIN Block(k) : Block(k)[i].key = k}
FindMutable(k) == IF Positions(k) = {} THEN {} ELSE {Block(k)[CHOOSE i \in Positions(k) : TRUE].value}
EntriesOf(c) == UNION {{clusters[c][b][i] : i \in DOMAIN clusters[c][b]} : b \in 0..ClusterBlocks - 1}
Entries == UNION {EntriesOf(c) : c \in DOMAIN clusters}

SetBlock(cs, k, list) == [cs EXCEPT ![ClusterId(k)][BlockID(k)] = list]
Delete(list, i) == SubSeq(list, 1, i - 1) \o SubSeq(list, i + 1, Len(list))

\* The ranges in the map do not overlap: FindInside assumes it, malloc provides it.
Overlaps(k, n) == \E e \in Entries : e.key # k /\ k < e.key + e.value /\ e.key < k + n
\* Mutated forms: what follows in the list is lost; only one block is searched.
FindAndRemoveCutsList(k) ==
  /\ Positions(k) # {} /\ clusters' = SetBlock(clusters, k, SubSeq(Block(k), 1, (CHOOSE i \in Positions(k) : TRUE) - 1))
  /\ free' = free + 1 /\ UNCHANGED arrays
FindInsideOneBlock(k, max) ==
  LET hit == {i \in DOMAIN Block(k) : Block(k)[i].key <= k /\ (Block(k)[i].key = k \/ k < Block(k)[i].key + Block(k)[i].value)}
  IN {Block(k)[i].key : i \in hit}

Insert(k, n) ==
  /\ ~Overlaps(k, n) /\ Cardinality(Entries) < MaxEntries
  /\ IF Positions(k) # {}
     THEN /\ clusters' = SetBlock(clusters, k, [Block(k) EXCEPT ![CHOOSE i \in Positions(k) : TRUE].value = n])
          /\ UNCHANGED <<free, arrays>>
     ELSE /\ clusters' = SetBlock(FindCluster(k, TRUE), k, <<[key |-> k, value |-> n]>> \o Block(k))
          /\ IF free = 0 THEN free' = AllocCount - 1 /\ arrays' = arrays + 1
             ELSE free' = free - 1 /\ UNCHANGED arrays

FindAndRemove(k) ==
  /\ Positions(k) # {}
  /\ clusters' = SetBlock(clusters, k, Delete(Block(k), CHOOSE i \in Positions(k) : TRUE))
  /\ free' = free + 1 /\ UNCHANGED arrays

MapNext == \E k \in Keys : FindAndRemove(k) \/ \E n \in Sizes : Insert(k, n)
MapSpec == MapInit /\ [][MapNext]_mapVars

\* Where k points into: from its own block back to the first block with a smaller
\* key, giving up when that would be more than max before k. {} for NULL.
Contains(e, k) == e.key = k \/ (e.key < k /\ k < e.key + e.value)
FindInside(k, max) ==
  LET Back[n \in 0..k] ==
        LET list == Block(n)
            hits == {list[i].key : i \in {i \in DOMAIN list : Contains(list[i], k)}}
            lastOfBlock == (n \div BlockSize) * BlockSize - 1
            lastOfCluster == (n \div kClusterSize) * kClusterSize - 1
            known == ClusterId(n) \in DOMAIN clusters
        IN CASE hits # {} -> hits
             [] hits = {} /\ \E i \in DOMAIN list : list[i].key <= k -> {}
             [] known /\ BlockID(n) # 0 /\ hits = {} /\ ~(\E i \in DOMAIN list : list[i].key <= k) ->
                  IF k - lastOfBlock > max THEN {} ELSE Back[lastOfBlock]
             [] OTHER ->
                  IF n < kClusterSize \/ k - lastOfCluster > max THEN {} ELSE Back[lastOfCluster]
  IN Back[k]

------------------------------------------------------------------------------
\* Entries are in the block of their address, once for each address.
Fits(list, c, b) == \A i \in DOMAIN list :
  /\ ClusterId(list[i].key) = c /\ BlockID(list[i].key) = b
  /\ \A j \in DOMAIN list : list[i].key = list[j].key => i = j
Placed == \A c \in DOMAIN clusters : \A b \in 0..ClusterBlocks - 1 : Fits(clusters[c][b], c, b)

\* Every entry of every array is in use or in the free list: removals give back
\* what insertions take, however they alternate.
EntriesConserved == free + Cardinality(Entries) = arrays * AllocCount

\* FindInside finds the range a key is in whenever the key is at most max into it,
\* in whatever blocks and clusters range and key are, and never one it is not in.
InsideFound == \A k \in Keys, max \in Sizes :
  LET found == FindInside(k, max) IN
  /\ \A e \in Entries : Contains(e, k) /\ k - e.key <= max => found = {e.key}
  /\ found # {} => \E e \in Entries : found = {e.key} /\ Contains(e, k)

\* The map is a map: what it holds is what Find returns for every address.
contents == [k \in {e.key : e \in Entries} |-> CHOOSE n \in FindMutable(k) : TRUE]
Abstract == INSTANCE PartialMap WITH Values <- Sizes, map <- contents
IsMap == Abstract!Spec
=============================================================================
