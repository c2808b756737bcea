------------------------------ MODULE FatTable ------------------------------
(***************************************************************************)
(* The allocation table of libfat (fat/file_allocation_table.c): chains of *)
(* clusters, one link a cluster, and the two numbers the partition keeps   *)
(* beside it, where the next search starts and how many clusters are free. *)
(* Loops over a chain (clearing it, walking to its end) are taken one link *)
(* a step by the modules that use this one; the partition's lock keeps     *)
(* other operations out in between.                                        *)
(***************************************************************************)
EXTENDS Integers, FiniteSets

CONSTANTS
  Last,      \* fat.lastCluster
  Overhead   \* what numberOfSectors / sectorsPerCluster counts beyond the clusters

ASSUME LastAssumption == Last \in Nat /\ Last > 2
ASSUME OverheadAssumption == Overhead \in Nat

VARIABLES
  fat,           \* the entry of each cluster: Free, Eof or its link
  firstFree,     \* where the search for a free cluster starts
  numberFree,    \* numberFreeCluster
  tail,          \* what the entry behind the last cluster's reads as
  miscounted,    \* history: numberFree was set to what is not a count
  place          \* history: for whom each cluster was taken, and as which of its clusters

table == <<fat, firstFree, numberFree, tail, miscounted, place>>

First == 2
Free == 0
Beyond == Last + 1     \* lastCluster + 1 has bytes in the table but no cluster
Eof == Last + 3
Error == Last + 4
Cluster == First .. Last
Link == {Free, Eof, Beyond} \cup Cluster

\* _FAT_fat_nextCluster, within the table and one entry behind it.
NextOf(c) ==
  CASE c \in Cluster -> fat[c]
    [] c = Beyond -> tail
    [] OTHER -> Free

IsValid(c) == c \in Cluster
Ends(l) == l \in {Free, Eof}
FreeClusters == {c \in Cluster : fat[c] = Free}

(***************************************************************************)
(* The search of _FAT_fat_linkFreeCluster: upwards from firstFree, then    *)
(* once around.  A search that starts behind lastCluster, where the last   *)
(* failure left firstFree, looks at the entry there first.                 *)
(***************************************************************************)
Start == IF firstFree < First THEN First ELSE firstFree
Upwards == {c \in FreeClusters : c >= Start}

Found(c) ==
  IF Start = Beyond /\ tail = Free THEN c = Beyond
  ELSE /\ c \in FreeClusters
       /\ Upwards # {} => c >= Start
       /\ \A d \in FreeClusters : (Upwards # {} => d >= Start) => c <= d
NothingFound == FreeClusters = {} /\ ~(Start = Beyond /\ tail = Free)

LessNever(n) == n    \* (faulty: an allocation is not counted)
LessBelow(n) == n - 1    \* (faulty: below 0 on a disc that is full)
Less(n) == IF n > 0 THEN n - 1 ELSE n

\* The table once got is the new end of the chain that ended with c.
Linked(c, got) ==
  [d \in Cluster |-> IF d = got THEN Eof ELSE IF d = c THEN got ELSE fat[d]]

NoPlace == [of |-> "none", rank |-> 0]
Taken(c, got, n) ==
  [d \in Cluster |->
     IF d = got THEN [of |-> n, rank |-> IF c \in Cluster THEN place[c].rank + 1 ELSE 0]
     ELSE place[d]]

\* _FAT_fat_linkFreeCluster(c), for the file n, returns got.
LinkFree(c, n, got) ==
  \/ (c > Last /\ got = Error /\ UNCHANGED table)
  \/ (c <= Last /\ NextOf(c) \in Cluster /\ got = NextOf(c) /\ UNCHANGED table)
  \/ /\ c <= Last /\ NextOf(c) \notin Cluster
     /\ Found(got)
     /\ fat' = Linked(c, got)
     /\ firstFree' = got
     /\ numberFree' = Less(numberFree)
     /\ miscounted' = (miscounted \/ got = Beyond)
     /\ place' = Taken(c, got, n)
     /\ UNCHANGED tail
  \/ /\ c <= Last /\ NextOf(c) \notin Cluster
     /\ NothingFound
     /\ got = Error
     /\ firstFree' = Beyond
     /\ UNCHANGED <<fat, numberFree, tail, miscounted, place>>

\* What the callers make of the result.
Results == Cluster \cup {Beyond, Error}

(***************************************************************************)
(* _FAT_fat_clearLinks: the start of the call moves firstFree back, and    *)
(* each turn of its loop frees one cluster.                                *)
(***************************************************************************)
StartClear(c) == firstFree' = IF IsValid(c) /\ c < firstFree THEN c ELSE firstFree

More(n) == IF n < Last - 1 + Overhead THEN n + 1 ELSE n

Cleared(c) == [d \in Cluster |-> IF d = c THEN Free ELSE fat[d]]

ClearLink(c) ==
  /\ fat' = Cleared(c)
  /\ numberFree' = More(numberFree)
  /\ miscounted' = (miscounted \/ c \notin Cluster \/ NextOf(c) = Free)
  /\ place' = [d \in Cluster |-> IF d = c THEN NoPlace ELSE place[d]]
  /\ UNCHANGED <<firstFree, tail>>

\* The entry that _FAT_fat_trimChain leaves as the last one.
MarkEnd(c) == [d \in Cluster |-> IF d = c THEN Eof ELSE fat[d]]

\* A partition that is mounted: nothing has been searched yet, and the number
\* of free clusters is the one of the FS information sector.
TableInit ==
  /\ fat = [c \in Cluster |-> Free]
  /\ firstFree = First
  /\ numberFree = Cardinality(Cluster)
  /\ tail \in {Free, Eof}
  /\ miscounted = FALSE
  /\ place = [c \in Cluster |-> NoPlace]

TableType ==
  /\ fat \in [Cluster -> Link]
  /\ firstFree \in First .. Beyond
  /\ numberFree \in 0 .. Last - 1 + Overhead
  /\ tail \in {Free, Eof}
  /\ miscounted \in BOOLEAN
=============================================================================
