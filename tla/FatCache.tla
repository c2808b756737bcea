------------------------------ MODULE FatCache ------------------------------
(***************************************************************************)
(* The sector cache of libfat (fat/cache.c).  Every loop of readSectors    *)
(* and writeSectors asks for a page and copies within it; the model's      *)
(* operations are one turn of these loops, for one sector.  A call on      *)
(* several sectors is a sequence of them that ends at the first failure.   *)
(* The partition's lock makes each call atomic.                            *)
(***************************************************************************)
EXTENDS Integers, FiniteSets

CONSTANTS
  Entries,         \* numberOfPages
  SectorsPerPage,
  End,             \* endOfPartition
  Value            \* contents of a sector

ASSUME EntriesAssumption == Entries \in Nat \ {0, 1}
ASSUME SizesAssumption == SectorsPerPage \in Nat \ {0} /\ End \in Nat
ASSUME ValueAssumption == Value # {}

VARIABLES
  disc,      \* the medium
  sector,    \* of each entry: the first sector of its page, or CacheFree
  cache,     \* of each entry: the contents of its page
  dirty,
  ok,        \* result of the last call
  got,       \* what the last successful read returned
  spoiled    \* history: the entries whose page a failed read overwrote

vars == <<disc, sector, cache, dirty, ok, got, spoiled>>

Entry == 1 .. Entries
Sector == 0 .. End - 1
CacheFree == -1

\* The page of a sector starts at a multiple of its length, and the last page
\* ends with the partition.
Align(s) == (s \div SectorsPerPage) * SectorsPerPage
SectorsFrom(a) ==
  a .. (IF a + SectorsPerPage > End THEN End ELSE a + SectorsPerPage) - 1

Held(e) == IF sector[e] = CacheFree THEN {} ELSE SectorsFrom(sector[e])
Hit(e, s) == s \in Held(e)
Miss(s) == \A e \in Entry : ~Hit(e, s)

(***************************************************************************)
(* _FAT_cache_getPage.                                                     *)
(***************************************************************************)

\* A free entry, or else the one that last_access makes the oldest: with a
\* counter that wraps, any.
Victim(e) == sector[e] = CacheFree \/ \A f \in Entry : sector[f] # CacheFree

Stored(e) == [s \in Sector |-> IF Hit(e, s) THEN cache[e][s] ELSE disc[s]]

\* The disc after the entry's page has been written back.
EvictedNever(e) == disc   \* (faulty: a dirty page is not written back)
Evicted(e) == IF dirty[e] THEN Stored(e) ELSE disc

\* Entry e comes to hold the page of s: it has it, or the page is read from the
\* disc once the entry's own page is back there.
DiscAfter(e, s) == IF Hit(e, s) THEN disc ELSE Evicted(e)
Page(e, s) ==
  IF Hit(e, s) THEN cache[e] ELSE [t \in SectorsFrom(Align(s)) |-> DiscAfter(e, s)[t]]
GetPage(e, s) ==
  /\ Hit(e, s) \/ (Miss(s) /\ Victim(e))
  /\ disc' = DiscAfter(e, s)
  /\ sector' = [sector EXCEPT ![e] = Align(s)]

StillDirtyForgotten(e, s) == FALSE   \* (faulty: any read clears the flag)
StillDirty(e, s) == dirty[e] /\ Hit(e, s)

ReadSector(s) ==
  \E e \in Entry :
    /\ GetPage(e, s)
    /\ cache' = [cache EXCEPT ![e] = Page(e, s)]
    /\ dirty' = [dirty EXCEPT ![e] = StillDirty(e, s)]
    /\ spoiled' = IF Hit(e, s) THEN spoiled ELSE spoiled \ {e}
    /\ ok' = TRUE /\ got' = Page(e, s)[s]

\* The page is loaded first, for the sectors around s.
WriteSector(s, v) ==
  \E e \in Entry :
    /\ GetPage(e, s)
    /\ cache' = [cache EXCEPT ![e] = [Page(e, s) EXCEPT ![s] = v]]
    /\ dirty' = [dirty EXCEPT ![e] = TRUE]
    /\ spoiled' = spoiled \ {e}
    /\ ok' = TRUE /\ UNCHANGED got

\* Some of the sectors of a page, when writing it fails on the way.
PartlyStored(e) ==
  {d \in [Sector -> Value] : \A s \in Sector : d[s] \in {disc[s], Stored(e)[s]}}

\* A call beyond the sector's end, or the victim could not be written back: it
\* keeps its page and its flag.
Refuse == ok' = FALSE /\ UNCHANGED <<disc, sector, cache, dirty, got, spoiled>>
EvictFails(s) ==
  \E e \in Entry :
    /\ Miss(s) /\ Victim(e) /\ dirty[e]
    /\ disc' \in PartlyStored(e)
    /\ ok' = FALSE /\ UNCHANGED <<sector, cache, dirty, got, spoiled>>

\* The page could not be read: the victim still claims the one it had, whose
\* bytes have been overwritten.
LoadFails(s) ==
  \E e \in Entry :
    /\ Miss(s) /\ Victim(e)
    /\ disc' = Evicted(e)
    /\ dirty' = [dirty EXCEPT ![e] = FALSE]
    /\ \E junk \in [Held(e) -> Value] : cache' = [cache EXCEPT ![e] = junk]
    /\ spoiled' = IF sector[e] = CacheFree THEN spoiled ELSE spoiled \cup {e}
    /\ ok' = FALSE /\ UNCHANGED <<sector, got>>

(***************************************************************************)
(* _FAT_cache_flush, _FAT_cache_destructor.                                *)
(***************************************************************************)

\* The entries before e are written, in order.
StoredBefore(e) ==
  [s \in Sector |->
    IF \E f \in Entry : f < e /\ dirty[f] /\ Hit(f, s)
    THEN cache[CHOOSE f \in Entry : f < e /\ dirty[f] /\ Hit(f, s)][s]
    ELSE disc[s]]
CleanBefore(e) == [f \in Entry |-> dirty[f] /\ f >= e]

Flush ==
  /\ disc' = StoredBefore(Entries + 1)
  /\ dirty' = CleanBefore(Entries + 1)
  /\ ok' = TRUE /\ UNCHANGED <<sector, cache, got, spoiled>>

\* The first entry that fails ends it: the dirty ones behind it stay so.
StoppedAt(e) ==
  {d \in [Sector -> Value] : \A s \in Sector :
    d[s] \in {StoredBefore(e)[s], IF Hit(e, s) THEN cache[e][s] ELSE StoredBefore(e)[s]}}
FlushFails ==
  \E e \in Entry :
    /\ dirty[e] /\ disc' \in StoppedAt(e)
    /\ dirty' = CleanBefore(e)
    /\ ok' = FALSE /\ UNCHANGED <<sector, cache, got, spoiled>>

NoPage == [e \in Entry |-> CacheFree]
Empty ==
  /\ sector' = NoPage /\ cache' = [e \in Entry |-> <<>>]
  /\ dirty' = [e \in Entry |-> FALSE] /\ spoiled' = {}
  /\ UNCHANGED <<ok, got>>

\* The destructor does not read the result of the flush. The volume is then
\* mounted again.
Destroy ==
  /\ disc' = StoredBefore(Entries + 1) \/ \E e \in Entry : dirty[e] /\ disc' \in StoppedAt(e)
  /\ Empty

\* The power goes off.
Crash == Empty /\ UNCHANGED disc

Init ==
  /\ disc \in [Sector -> Value]
  /\ sector = NoPage /\ cache = [e \in Entry |-> <<>>]
  /\ dirty = [e \in Entry |-> FALSE] /\ spoiled = {}
  /\ ok = TRUE /\ got \in Value

Next ==
  \/ \E s \in Sector :
       ReadSector(s) \/ EvictFails(s) \/ LoadFails(s) \/ \E v \in Value : WriteSector(s, v)
  \/ Refuse \/ Flush \/ FlushFails \/ Destroy \/ Crash

Spec == Init /\ [][Next]_vars

(***************************************************************************)
(* Properties.                                                             *)
(***************************************************************************)

\* Each entry is free and clean, or holds the contents of a whole page.
TypeOK ==
  /\ disc \in [Sector -> Value]
  /\ sector \in [Entry -> Sector \cup {CacheFree}]
  /\ dirty \in [Entry -> BOOLEAN] /\ spoiled \subseteq Entry
  /\ ok \in BOOLEAN /\ got \in Value
  /\ DOMAIN cache = Entry
  /\ \A e \in Entry :
       /\ cache[e] \in [Held(e) -> Value]
       /\ sector[e] = CacheFree => ~dirty[e] /\ e \notin spoiled

\* No sector is held by two entries, whose contents would part
\* (_FAT_cache_getPage searches all of them and loads aligned pages).
HeldOnce == \A e, f \in Entry : e # f => Held(e) \cap Held(f) = {}

\* What is cached and not marked dirty is what the disc has, so that giving it
\* up loses nothing; only a page that a failed read overwrote is not.
CleanIsStored ==
  \A e \in Entry : \A s \in Held(e) :
    ~dirty[e] /\ e \notin spoiled => cache[e][s] = disc[s]

\* The cache behaves as one array of sectors (see FatDisc): a read returns what
\* was last written, whatever was evicted, flushed or failed in between, but for
\* the page of a failed read.
Disc == INSTANCE FatDisc WITH
  Pages <- {SectorsFrom(Align(s)) : s \in Sector},
  content <- [s \in Sector |->
    IF Miss(s) THEN disc[s] ELSE cache[CHOOSE e \in Entry : Hit(e, s)][s]],
  stable <- disc,
  doubt <- UNION {Held(e) : e \in spoiled}
ImplementsDisc == Disc!Spec

=============================================================================
