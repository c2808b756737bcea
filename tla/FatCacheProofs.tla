--------------------------- MODULE FatCacheProofs ---------------------------
(***************************************************************************)
(* Theorems about FatCache: its invariants, and that it implements         *)
(* FatDisc, for any number of entries and sectors.                         *)
(***************************************************************************)
EXTENDS FatCache, TLAPS

-----------------------------------------------------------------------------
(***************************************************************************)
(* Pages are aligned: two of them are the same or have no sector in common. *)
(***************************************************************************)

\* A page starts at a multiple of its length and contains the sector asked for.
LEMMA AlignBounds ==
  ASSUME NEW s \in Sector
  PROVE  /\ Align(s) \in Sector
         /\ s \in SectorsFrom(Align(s))
         /\ SectorsFrom(Align(s)) \subseteq Sector
<1> DEFINE q == s \div SectorsPerPage
<1>1. q \in Nat /\ q * SectorsPerPage <= s /\ s < q * SectorsPerPage + SectorsPerPage
  BY SizesAssumption DEF Sector
<1>2. q * SectorsPerPage \in Nat
  BY <1>1, SizesAssumption
<1> HIDE DEF q
<1> DEFINE a == q * SectorsPerPage
<1>3. Align(s) = a
  BY DEF Align, q
<1>4. a \in Nat /\ a <= s /\ s < a + SectorsPerPage
  BY <1>1, <1>2
<1> HIDE DEF a
<1> QED
  BY <1>3, <1>4, SizesAssumption DEF Sector, SectorsFrom

\* Every sector of a page has that page.
LEMMA SamePage ==
  ASSUME NEW s \in Sector, NEW t \in SectorsFrom(Align(s))
  PROVE  Align(t) = Align(s)
<1> DEFINE q == s \div SectorsPerPage
           p == t \div SectorsPerPage
<1>1. t \in Sector
  BY AlignBounds
<1>2. q \in Nat /\ p \in Nat
  BY <1>1, SizesAssumption DEF Sector
<1>3. q * SectorsPerPage <= t /\ t < q * SectorsPerPage + SectorsPerPage
  BY <1>2, SizesAssumption DEF SectorsFrom, Align, Sector
<1>4. p * SectorsPerPage <= t /\ t < p * SectorsPerPage + SectorsPerPage
  BY <1>1, SizesAssumption DEF Sector
<1>5. p = q
  <2> HIDE DEF p, q
  <2>1. ASSUME NEW m \in Nat, NEW n \in Nat, m < n
        PROVE  m * SectorsPerPage + SectorsPerPage <= n * SectorsPerPage
    BY <2>1, SizesAssumption, SMTT(30)
  <2>2. t \in Int /\ p * SectorsPerPage \in Int /\ q * SectorsPerPage \in Int
    BY <1>1, <1>2, SizesAssumption DEF Sector
  <2>3. ~(p < q) 
    BY <2>1, <2>2, <1>2, <1>3, <1>4, SizesAssumption
  <2>4. ~(q < p) 
    BY <2>1, <2>2, <1>2, <1>3, <1>4, SizesAssumption
  <2> QED
    BY <2>3, <2>4, <1>2
<1> QED
  BY <1>5 DEF Align

LEMMA AlignLaws ==
  /\ \A s \in Sector :
       /\ Align(s) \in Sector /\ Align(s) # CacheFree
       /\ s \in SectorsFrom(Align(s))
       /\ SectorsFrom(Align(s)) \subseteq Sector
  /\ \A s \in Sector : \A t \in SectorsFrom(Align(s)) : Align(t) = Align(s)
<1>1. \A s \in Sector : Align(s) # CacheFree
  BY AlignBounds DEF Sector, CacheFree
<1> QED
  BY <1>1, AlignBounds, SamePage

-----------------------------------------------------------------------------
(***************************************************************************)
(* The inductive invariant: an entry that is not free holds an aligned     *)
(* page, from which it follows that no sector is held twice.               *)
(***************************************************************************)

Aligned ==
  \A e \in Entry : sector[e] # CacheFree =>
    \E s \in Sector : sector[e] = Align(s)

Inv == TypeOK /\ Aligned /\ HeldOnce /\ CleanIsStored

\* What an entry holds lies on the disc, and a free one holds nothing.
LEMMA HeldSectors ==
  ASSUME TypeOK, Aligned, NEW e \in Entry
  PROVE  /\ Held(e) \subseteq Sector
         /\ sector[e] = CacheFree => Held(e) = {}
         /\ \A s \in Held(e) : Held(e) = SectorsFrom(Align(s)) /\ sector[e] = Align(s)
<1>1. CASE sector[e] = CacheFree
  BY <1>1 DEF Held
<1>2. CASE sector[e] # CacheFree
  <2>1. PICK s \in Sector : sector[e] = Align(s)
    BY <1>2 DEF Aligned
  <2>2. Held(e) = SectorsFrom(Align(s))
    BY <1>2, <2>1 DEF Held
  <2> QED
    BY <1>2, <2>1, <2>2, AlignLaws
<1> QED
  BY <1>1, <1>2

\* A page that nobody has for one of its sectors nobody has for another.
LEMMA MissedPage ==
  ASSUME TypeOK, Aligned, NEW s \in Sector, Miss(s)
  PROVE  \A e \in Entry : Held(e) \cap SectorsFrom(Align(s)) = {}
<1>1. SUFFICES ASSUME NEW e \in Entry, NEW t \in Held(e), t \in SectorsFrom(Align(s))
               PROVE  FALSE
  OBVIOUS
<1>2. Held(e) = SectorsFrom(Align(t)) /\ Align(t) = Align(s)
  BY <1>1, HeldSectors, AlignLaws
<1> QED
  BY <1>2, AlignLaws DEF Miss, Hit

\* What the disc may have after a write, whole or in part, of any page.
LEMMA DiscTypes ==
  ASSUME TypeOK, Aligned, NEW e \in Entry
  PROVE  /\ Stored(e) \in [Sector -> Value]
         /\ Evicted(e) \in [Sector -> Value]
<1>1. \A s \in Held(e) : cache[e][s] \in Value
  BY DEF TypeOK
<1>2. Stored(e) \in [Sector -> Value]
  BY <1>1 DEF TypeOK, Stored, Hit
<1> QED
  BY <1>2 DEF TypeOK, Evicted

LEMMA FlushedDisc ==
  ASSUME TypeOK, Aligned, HeldOnce, NEW e
  PROVE  /\ StoredBefore(e) \in [Sector -> Value]
         /\ \A s \in Sector : \A f \in Entry :
              f < e /\ dirty[f] /\ Hit(f, s) => StoredBefore(e)[s] = cache[f][s]
         /\ \A s \in Sector :
              (\A f \in Entry : ~(f < e /\ dirty[f] /\ Hit(f, s)))
                => StoredBefore(e)[s] = disc[s]
<1>1. ASSUME NEW s \in Sector, NEW f \in Entry, f < e, dirty[f], Hit(f, s)
      PROVE  StoredBefore(e)[s] = cache[f][s] /\ cache[f][s] \in Value
  <2>1. \A g \in Entry : Hit(g, s) => g = f
    BY <1>1 DEF HeldOnce, Hit
  <2>2. (CHOOSE g \in Entry : g < e /\ dirty[g] /\ Hit(g, s)) = f
    BY <1>1, <2>1
  <2>3. StoredBefore(e)[s] = cache[f][s]
    BY <1>1, <2>2 DEF StoredBefore
  <2> QED
    BY <1>1, <2>3 DEF TypeOK, Hit
<1>2. ASSUME NEW s \in Sector, \A f \in Entry : ~(f < e /\ dirty[f] /\ Hit(f, s))
      PROVE  StoredBefore(e)[s] = disc[s]
  BY <1>2 DEF StoredBefore
<1>3. \A s \in Sector : StoredBefore(e)[s] \in Value
  BY <1>1, <1>2 DEF TypeOK
<1>4. StoredBefore(e) = [s \in Sector |-> StoredBefore(e)[s]]
  BY DEF StoredBefore
<1>5. StoredBefore(e) \in [Sector -> Value]
  BY <1>3, <1>4
<1> QED
  BY <1>1, <1>2, <1>5

-----------------------------------------------------------------------------
(***************************************************************************)
(* The contents that the cache and the disc stand for together.            *)
(***************************************************************************)

Content ==
  [s \in Sector |->
    IF Miss(s) THEN disc[s] ELSE cache[CHOOSE e \in Entry : Hit(e, s)][s]]

LEMMA ContentIs ==
  ASSUME TypeOK, Aligned, HeldOnce
  PROVE  /\ Content \in [Sector -> Value]
         /\ \A e \in Entry : \A s \in Held(e) : s \in Sector /\ Content[s] = cache[e][s]
         /\ \A s \in Sector : Miss(s) => Content[s] = disc[s]
<1>1. ASSUME NEW e \in Entry, NEW s \in Held(e)
      PROVE  s \in Sector /\ Content[s] = cache[e][s] /\ cache[e][s] \in Value
  <2>1. s \in Sector
    BY <1>1, HeldSectors
  <2>2. \A g \in Entry : Hit(g, s) => g = e
    BY <1>1 DEF HeldOnce, Hit
  <2>3. Hit(e, s) /\ ~Miss(s)
    BY <1>1 DEF Miss, Hit
  <2>4. (CHOOSE g \in Entry : Hit(g, s)) = e
    BY <2>2, <2>3
  <2>5. Content[s] = cache[e][s]
    BY <2>1, <2>3, <2>4 DEF Content
  <2> QED
    BY <1>1, <2>1, <2>5 DEF TypeOK
<1>2. \A s \in Sector : Miss(s) => Content[s] = disc[s]
  BY DEF Content
<1>3. ASSUME NEW s \in Sector
      PROVE  Content[s] \in Value
  <2>1. CASE Miss(s)
    BY <2>1, <1>2, <1>3 DEF TypeOK
  <2>2. CASE ~Miss(s)
    BY <2>2, <1>1 DEF Miss, Hit
  <2> QED
    BY <2>1, <2>2
<1>4. Content = [s \in Sector |-> Content[s]]
  BY DEF Content
<1>5. Content \in [Sector -> Value]
  BY <1>3, <1>4
<1> QED
  BY <1>1, <1>2, <1>5

\* Writing an entry's page back moves its contents to the disc, no others.
LEMMA EvictedIs ==
  ASSUME TypeOK, Aligned, HeldOnce, NEW e \in Entry
  PROVE  /\ \A t \in Sector : Evicted(e)[t] \in {disc[t], Content[t]}
         /\ \A t \in Sector : t \notin Held(e) => Evicted(e)[t] = disc[t]
         /\ \A t \in Held(e) : dirty[e] => Evicted(e)[t] = Content[t]
         /\ ~dirty[e] => Evicted(e) = disc
<1>1. CASE dirty[e]
  <2>1. Evicted(e) = Stored(e)
    BY <1>1 DEF Evicted
  <2>2. \A t \in Sector : t \notin Held(e) => Stored(e)[t] = disc[t]
    BY DEF Stored, Hit
  <2>3. \A t \in Held(e) : Stored(e)[t] = Content[t]
    BY ContentIs DEF Stored, Hit
  <2> QED
    BY <1>1, <2>1, <2>2, <2>3
<1>2. CASE ~dirty[e]
  BY <1>2 DEF Evicted
<1> QED
  BY <1>1, <1>2

-----------------------------------------------------------------------------
(***************************************************************************)
(* _FAT_cache_getPage.                                                     *)
(***************************************************************************)

\* The entry's page is then the one of s, and the others keep theirs.
LEMMA PageMoves ==
  ASSUME TypeOK, Aligned, HeldOnce, NEW s \in Sector, NEW e \in Entry, GetPage(e, s)
  PROVE  /\ sector' \in [Entry -> Sector \cup {CacheFree}]
         /\ sector'[e] = Align(s) /\ Held(e)' = SectorsFrom(Align(s)) /\ s \in Held(e)'
         /\ \A f \in Entry : f # e => sector'[f] = sector[f] /\ Held(f)' = Held(f)
         /\ Hit(e, s) => Held(e)' = Held(e)
         /\ ~Hit(e, s) => Miss(s)
         /\ Aligned' /\ HeldOnce'
<1>1. sector' = [sector EXCEPT ![e] = Align(s)]
  BY DEF GetPage
<1>2. sector' \in [Entry -> Sector \cup {CacheFree}] /\ sector'[e] = Align(s)
  BY <1>1, AlignLaws DEF TypeOK
<1>3. \A f \in Entry : f # e => sector'[f] = sector[f] /\ Held(f)' = Held(f)
  BY <1>1 DEF TypeOK, Held
<1>4. Held(e)' = SectorsFrom(Align(s)) /\ s \in Held(e)'
  BY <1>2, AlignLaws DEF Held
<1>5. Hit(e, s) => Held(e)' = Held(e)
  BY <1>4, HeldSectors DEF Hit
<1>6. ~Hit(e, s) => Miss(s)
  BY DEF GetPage
<1>7. Aligned'
  BY <1>2, <1>3 DEF Aligned
<1>8. HeldOnce'
  <2>1. \A f \in Entry : f # e => Held(e)' \cap Held(f) = {}
    BY <1>4, <1>5, <1>6, MissedPage DEF HeldOnce
  <2> QED
    BY <2>1, <1>3 DEF HeldOnce
<1> QED
  BY <1>2, <1>3, <1>4, <1>5, <1>6, <1>7, <1>8

\* It has the contents that its sectors had, and the disc may have received
\* those of the page that was there.
LEMMA PageLoaded ==
  ASSUME TypeOK, Aligned, HeldOnce, NEW s \in Sector, NEW e \in Entry, GetPage(e, s)
  PROVE  /\ disc' \in [Sector -> Value]
         /\ Page(e, s) \in [SectorsFrom(Align(s)) -> Value]
         /\ \A t \in SectorsFrom(Align(s)) : Page(e, s)[t] = Content[t]
         /\ \A t \in Sector : disc'[t] \in {disc[t], Content[t]}
         /\ \A f \in Entry : \A t \in Held(f) : f # e => disc'[t] = disc[t]
         /\ \A t \in Sector : Miss(t) => disc'[t] = disc[t]
         /\ Hit(e, s) => disc' = disc /\ Page(e, s) = cache[e]
         /\ ~Hit(e, s) => /\ disc' = Evicted(e)
                          /\ \A t \in SectorsFrom(Align(s)) : Page(e, s)[t] = disc'[t]
<1>1. CASE Hit(e, s)
  <2>1. disc' = disc /\ Page(e, s) = cache[e]
    BY <1>1 DEF GetPage, DiscAfter, Page
  <2>2. Held(e) = SectorsFrom(Align(s))
    BY <1>1, HeldSectors DEF Hit
  <2>3. cache[e] \in [Held(e) -> Value] /\ disc \in [Sector -> Value]
    BY DEF TypeOK
  <2>4. \A t \in Held(e) : cache[e][t] = Content[t]
    BY ContentIs
  <2> QED
    BY <1>1, <2>1, <2>2, <2>3, <2>4
<1>2. CASE ~Hit(e, s)
  <2>1. Miss(s) /\ disc' = Evicted(e) /\ DiscAfter(e, s) = disc'
    BY <1>2 DEF GetPage, DiscAfter
  <2>2. Page(e, s) = [t \in SectorsFrom(Align(s)) |-> disc'[t]]
    BY <1>2, <2>1 DEF Page
  <2>3. disc' \in [Sector -> Value]
    BY <2>1, DiscTypes
  <2>4. SectorsFrom(Align(s)) \subseteq Sector
    BY AlignLaws
  <2>5. Page(e, s) \in [SectorsFrom(Align(s)) -> Value]
    BY <2>2, <2>3, <2>4
  <2>6. \A f \in Entry : \A t \in Held(f) : f # e => t \in Sector /\ disc'[t] = disc[t]
    BY <2>1, EvictedIs, HeldSectors DEF HeldOnce
  <2>7. \A t \in Sector : Miss(t) => disc'[t] = disc[t]
    BY <2>1, EvictedIs DEF Miss, Hit
  <2>8. \A t \in SectorsFrom(Align(s)) : Miss(t)
    BY <2>1, MissedPage DEF Miss, Hit
  <2>9. \A t \in SectorsFrom(Align(s)) : Page(e, s)[t] = Content[t]
    BY <2>2, <2>4, <2>7, <2>8, ContentIs
  <2>10. \A t \in Sector : disc'[t] \in {disc[t], Content[t]}
    BY <2>1, EvictedIs
  <2>11. \A t \in SectorsFrom(Align(s)) : Page(e, s)[t] = disc'[t]
    BY <2>2
  <2> QED
    BY <1>2, <2>1, <2>3, <2>5, <2>6, <2>7, <2>9, <2>10, <2>11
<1> QED
  BY <1>1, <1>2

-----------------------------------------------------------------------------
(***************************************************************************)
(* The invariant, action by action.                                        *)
(***************************************************************************)

LEMMA InitInv == Init => Inv
<1> SUFFICES ASSUME Init PROVE Inv
  OBVIOUS
<1>1. \A e \in Entry : sector[e] = CacheFree /\ cache[e] = <<>> /\ Held(e) = {} /\ ~dirty[e]
  BY DEF Init, NoPage, Held
<1>2. /\ sector \in [Entry -> Sector \cup {CacheFree}] /\ dirty \in [Entry -> BOOLEAN]
      /\ DOMAIN cache = Entry
  BY DEF Init, NoPage
<1>3. <<>> \in [{} -> Value]
  OBVIOUS
<1>4. \A e \in Entry : cache[e] \in [Held(e) -> Value]
  BY <1>1, <1>3
<1>5. disc \in [Sector -> Value] /\ spoiled = {} /\ ok \in BOOLEAN /\ got \in Value
  BY DEF Init
<1>6. TypeOK
  BY <1>1, <1>2, <1>4, <1>5 DEF TypeOK
<1> QED
  BY <1>1, <1>6 DEF Inv, Aligned, HeldOnce, CleanIsStored

\* A step that moves no page and writes no entry.
LEMMA SamePages ==
  ASSUME Inv, UNCHANGED <<sector, cache>>
  PROVE  /\ \A e \in Entry : Held(e)' = Held(e)
         /\ \A e \in Entry : \A s : Hit(e, s)' = Hit(e, s)
         /\ Aligned' /\ HeldOnce'
<1>1. \A e \in Entry : Held(e)' = Held(e)
  BY DEF Held
<1> QED
  BY <1>1 DEF Inv, Aligned, HeldOnce, Hit

LEMMA ReadInv ==
  ASSUME Inv, NEW s \in Sector, ReadSector(s)
  PROVE  Inv'
<1>1. PICK e \in Entry :
        /\ GetPage(e, s)
        /\ cache' = [cache EXCEPT ![e] = Page(e, s)]
        /\ dirty' = [dirty EXCEPT ![e] = StillDirty(e, s)]
        /\ spoiled' = IF Hit(e, s) THEN spoiled ELSE spoiled \ {e}
        /\ ok' = TRUE /\ got' = Page(e, s)[s]
  BY DEF ReadSector
<1>2. TypeOK /\ Aligned /\ HeldOnce /\ CleanIsStored
  BY DEF Inv
<1>3. /\ sector' \in [Entry -> Sector \cup {CacheFree}]
      /\ sector'[e] = Align(s) /\ Held(e)' = SectorsFrom(Align(s)) /\ s \in Held(e)'
      /\ \A f \in Entry : f # e => sector'[f] = sector[f] /\ Held(f)' = Held(f)
      /\ Hit(e, s) => Held(e)' = Held(e)
      /\ Aligned' /\ HeldOnce'
  BY <1>1, <1>2, PageMoves
<1>4. /\ disc' \in [Sector -> Value]
      /\ Page(e, s) \in [SectorsFrom(Align(s)) -> Value]
      /\ \A f \in Entry : \A t \in Held(f) : f # e => disc'[t] = disc[t]
      /\ Hit(e, s) => disc' = disc /\ Page(e, s) = cache[e]
      /\ ~Hit(e, s) => \A t \in SectorsFrom(Align(s)) : Page(e, s)[t] = disc'[t]
  BY <1>1, <1>2, PageLoaded
<1>5. /\ DOMAIN cache' = Entry
      /\ \A f \in Entry : f # e => cache'[f] = cache[f] /\ dirty'[f] = dirty[f]
  BY <1>1, <1>2 DEF TypeOK
<1>6. cache'[e] = Page(e, s) /\ dirty'[e] = StillDirty(e, s)
  <2>1. dirty'[e] = StillDirty(e, s)
    BY <1>1, <1>2 DEF TypeOK
  <2>2. cache'[e] = Page(e, s)
    <3>1. e \in DOMAIN cache
      BY <1>2 DEF TypeOK
    <3> QED
      BY <1>1, <3>1
  <2> QED
    BY <2>1, <2>2
<1>7. TypeOK'
  <2>1. dirty' \in [Entry -> BOOLEAN] /\ spoiled' \subseteq Entry
    BY <1>1, <1>2 DEF TypeOK, StillDirty
  <2>2. ok' \in BOOLEAN /\ got' \in Value
    BY <1>1, <1>3, <1>4
  <2>3. \A f \in Entry : cache'[f] \in [Held(f)' -> Value]
    BY <1>2, <1>3, <1>4, <1>5, <1>6 DEF TypeOK
  <2>4. \A f \in Entry : sector'[f] = CacheFree => ~dirty'[f] /\ f \notin spoiled'
    BY <1>1, <1>2, <1>3, <1>5, AlignLaws DEF TypeOK
  <2> QED
    BY <1>3, <1>4, <1>5, <2>1, <2>2, <2>3, <2>4 DEF TypeOK
<1>8. CleanIsStored'
  <2> SUFFICES ASSUME NEW f \in Entry, NEW t \in Held(f)', ~dirty'[f], f \notin spoiled'
               PROVE  cache'[f][t] = disc'[t]
    BY DEF CleanIsStored
  <2>1. CASE f # e
    BY <2>1, <1>1, <1>2, <1>3, <1>4, <1>5 DEF CleanIsStored
  <2>2. CASE f = e /\ Hit(e, s)
    <3>1. spoiled' = spoiled /\ disc' = disc /\ cache'[e] = cache[e] /\ Held(e)' = Held(e)
      BY <2>2, <1>1, <1>3, <1>4, <1>6
    <3>2. ~dirty[e]
      BY <2>2, <1>6 DEF StillDirty
    <3> QED
      BY <2>2, <3>1, <3>2, <1>2 DEF CleanIsStored
  <2>3. CASE f = e /\ ~Hit(e, s)
    BY <2>3, <1>3, <1>4, <1>6
  <2> QED
    BY <2>1, <2>2, <2>3
<1> QED
  BY <1>3, <1>7, <1>8 DEF Inv

LEMMA WriteInv ==
  ASSUME Inv, NEW s \in Sector, NEW v \in Value, WriteSector(s, v)
  PROVE  Inv'
<1>1. PICK e \in Entry :
        /\ GetPage(e, s)
        /\ cache' = [cache EXCEPT ![e] = [Page(e, s) EXCEPT ![s] = v]]
        /\ dirty' = [dirty EXCEPT ![e] = TRUE]
        /\ spoiled' = spoiled \ {e}
        /\ ok' = TRUE /\ UNCHANGED got
  BY DEF WriteSector
<1>2. TypeOK /\ Aligned /\ HeldOnce /\ CleanIsStored
  BY DEF Inv
<1>3. /\ sector' \in [Entry -> Sector \cup {CacheFree}]
      /\ sector'[e] = Align(s) /\ Held(e)' = SectorsFrom(Align(s)) /\ s \in Held(e)'
      /\ \A f \in Entry : f # e => sector'[f] = sector[f] /\ Held(f)' = Held(f)
      /\ Aligned' /\ HeldOnce'
  BY <1>1, <1>2, PageMoves
<1>4. /\ disc' \in [Sector -> Value]
      /\ Page(e, s) \in [SectorsFrom(Align(s)) -> Value]
      /\ \A f \in Entry : \A t \in Held(f) : f # e => disc'[t] = disc[t]
  BY <1>1, <1>2, PageLoaded
<1>5. /\ DOMAIN cache' = Entry
      /\ \A f \in Entry : f # e => cache'[f] = cache[f] /\ dirty'[f] = dirty[f]
  BY <1>1, <1>2 DEF TypeOK
<1>6. cache'[e] = [Page(e, s) EXCEPT ![s] = v] /\ dirty'[e] = TRUE
  <2>1. dirty'[e] = TRUE
    BY <1>1, <1>2 DEF TypeOK
  <2>2. e \in DOMAIN cache
    BY <1>2 DEF TypeOK
  <2> QED
    BY <1>1, <2>1, <2>2
<1>7. TypeOK'
  <2>1. dirty' \in [Entry -> BOOLEAN] /\ spoiled' \subseteq Entry
    BY <1>1, <1>2 DEF TypeOK
  <2>2. ok' \in BOOLEAN /\ got' \in Value
    BY <1>1, <1>2 DEF TypeOK
  <2>3. cache'[e] \in [Held(e)' -> Value]
    BY <1>3, <1>4, <1>6
  <2>4. \A f \in Entry : cache'[f] \in [Held(f)' -> Value]
    BY <1>2, <1>3, <1>5, <2>3 DEF TypeOK
  <2>5. \A f \in Entry : sector'[f] = CacheFree => ~dirty'[f] /\ f \notin spoiled'
    BY <1>1, <1>2, <1>3, <1>5, AlignLaws DEF TypeOK
  <2> QED
    BY <1>3, <1>4, <1>5, <2>1, <2>2, <2>4, <2>5 DEF TypeOK
<1>8. CleanIsStored'
  <2> SUFFICES ASSUME NEW f \in Entry, NEW t \in Held(f)', ~dirty'[f], f \notin spoiled'
               PROVE  cache'[f][t] = disc'[t]
    BY DEF CleanIsStored
  <2>1. f # e
    BY <1>6
  <2> QED
    BY <2>1, <1>1, <1>2, <1>3, <1>4, <1>5 DEF CleanIsStored
<1> QED
  BY <1>3, <1>7, <1>8 DEF Inv

\* What may be on the disc after an eviction that fails on the way.
LEMMA PartlyIs ==
  ASSUME TypeOK, Aligned, HeldOnce, NEW e \in Entry, NEW d \in PartlyStored(e)
  PROVE  /\ d \in [Sector -> Value]
         /\ \A t \in Sector : d[t] \in {disc[t], Content[t]}
         /\ \A f \in Entry : \A t \in Held(f) : f # e => d[t] = disc[t]
         /\ \A t \in Sector : Miss(t) => d[t] = disc[t]
<1>1. /\ d \in [Sector -> Value]
      /\ \A t \in Sector : d[t] \in {disc[t], Stored(e)[t]}
  BY DEF PartlyStored
<1>2. /\ \A t \in Sector : t \notin Held(e) => Stored(e)[t] = disc[t]
      /\ \A t \in Held(e) : Stored(e)[t] = Content[t]
  BY ContentIs DEF Stored, Hit
<1>3. \A t \in Sector : d[t] \in {disc[t], Content[t]}
  BY <1>1, <1>2
<1>4. \A f \in Entry : \A t \in Held(f) : f # e => d[t] = disc[t]
  BY <1>1, <1>2, HeldSectors DEF HeldOnce
<1>5. \A t \in Sector : Miss(t) => d[t] = disc[t]
  BY <1>1, <1>2 DEF Miss, Hit
<1> QED
  BY <1>1, <1>3, <1>4, <1>5

LEMMA EvictFailsInv ==
  ASSUME Inv, NEW s \in Sector, EvictFails(s)
  PROVE  Inv'
<1>1. PICK e \in Entry : dirty[e] /\ disc' \in PartlyStored(e)
  BY DEF EvictFails
<1>2. TypeOK /\ Aligned /\ HeldOnce /\ CleanIsStored
  BY DEF Inv
<1>3. UNCHANGED <<sector, cache, dirty, got, spoiled>> /\ ok' = FALSE
  BY DEF EvictFails
<1>4. /\ disc' \in [Sector -> Value]
      /\ \A f \in Entry : \A t \in Held(f) : f # e => disc'[t] = disc[t]
  BY <1>1, <1>2, PartlyIs
<1>5. (\A f \in Entry : Held(f)' = Held(f)) /\ Aligned' /\ HeldOnce'
  BY <1>3, SamePages
<1>6. TypeOK'
  BY <1>2, <1>3, <1>4, <1>5 DEF TypeOK
<1>7. CleanIsStored'
  BY <1>1, <1>2, <1>3, <1>4, <1>5 DEF CleanIsStored
<1> QED
  BY <1>5, <1>6, <1>7 DEF Inv

LEMMA LoadFailsInv ==
  ASSUME Inv, NEW s \in Sector, LoadFails(s)
  PROVE  Inv'
<1>1. PICK e \in Entry :
        /\ disc' = Evicted(e)
        /\ dirty' = [dirty EXCEPT ![e] = FALSE]
        /\ \E junk \in [Held(e) -> Value] : cache' = [cache EXCEPT ![e] = junk]
        /\ spoiled' = IF sector[e] = CacheFree THEN spoiled ELSE spoiled \cup {e}
        /\ ok' = FALSE /\ UNCHANGED <<sector, got>>
  BY DEF LoadFails
<1>2. PICK junk \in [Held(e) -> Value] : cache' = [cache EXCEPT ![e] = junk]
  BY <1>1
<1>3. TypeOK /\ Aligned /\ HeldOnce /\ CleanIsStored
  BY DEF Inv
<1>4. (\A f \in Entry : Held(f)' = Held(f)) /\ Aligned' /\ HeldOnce'
  BY <1>1, <1>3 DEF Held, Aligned, HeldOnce
<1>5. /\ DOMAIN cache' = Entry /\ cache'[e] = junk /\ dirty'[e] = FALSE
      /\ \A f \in Entry : f # e => cache'[f] = cache[f] /\ dirty'[f] = dirty[f]
  BY <1>1, <1>2, <1>3 DEF TypeOK
<1>6. /\ disc' \in [Sector -> Value]
      /\ \A f \in Entry : \A t \in Held(f) : f # e => disc'[t] = disc[t]
  BY <1>1, <1>3, DiscTypes, EvictedIs, HeldSectors DEF HeldOnce
<1>7. spoiled \subseteq spoiled' /\ spoiled' \subseteq spoiled \cup {e}
      /\ (sector[e] # CacheFree => e \in spoiled')
      /\ (sector[e] = CacheFree => spoiled' = spoiled)
  BY <1>1
<1>8. TypeOK'
  <2>1. dirty' \in [Entry -> BOOLEAN] /\ spoiled' \subseteq Entry
    BY <1>1, <1>3, <1>7 DEF TypeOK
  <2>2. \A f \in Entry : cache'[f] \in [Held(f)' -> Value]
    BY <1>3, <1>4, <1>5 DEF TypeOK
  <2>3. \A f \in Entry : sector'[f] = CacheFree => ~dirty'[f] /\ f \notin spoiled'
    BY <1>1, <1>3, <1>5, <1>7 DEF TypeOK
  <2>4. sector' \in [Entry -> Sector \cup {CacheFree}] /\ ok' \in BOOLEAN /\ got' \in Value
    BY <1>1, <1>3 DEF TypeOK
  <2> QED
    BY <1>5, <1>6, <2>1, <2>2, <2>3, <2>4 DEF TypeOK
<1>9. CleanIsStored'
  <2> SUFFICES ASSUME NEW f \in Entry, NEW t \in Held(f)', ~dirty'[f], f \notin spoiled'
               PROVE  cache'[f][t] = disc'[t]
    BY DEF CleanIsStored
  <2>1. CASE f # e
    BY <2>1, <1>3, <1>4, <1>5, <1>6, <1>7 DEF CleanIsStored
  <2>2. CASE f = e
    <3>1. sector[e] = CacheFree
      BY <2>2, <1>7
    <3> QED
      BY <2>2, <3>1, <1>4 DEF Held
  <2> QED
    BY <2>1, <2>2
<1> QED
  BY <1>4, <1>8, <1>9 DEF Inv

\* A flush writes the dirty pages and no others.
LEMMA FlushedIs ==
  ASSUME Inv, NEW e
  PROVE  /\ StoredBefore(e) \in [Sector -> Value]
         /\ \A f \in Entry : \A t \in Held(f) :
              f < e /\ dirty[f] => StoredBefore(e)[t] = cache[f][t]
         /\ \A f \in Entry : \A t \in Held(f) :
              ~(f < e /\ dirty[f]) => StoredBefore(e)[t] = disc[t]
         /\ \A t \in Sector : Miss(t) => StoredBefore(e)[t] = disc[t]
         /\ \A t \in Sector : StoredBefore(e)[t] \in {disc[t], Content[t]}
<1>1. TypeOK /\ Aligned /\ HeldOnce
  BY DEF Inv
<1>2. /\ StoredBefore(e) \in [Sector -> Value]
      /\ \A s \in Sector : \A f \in Entry :
           f < e /\ dirty[f] /\ Hit(f, s) => StoredBefore(e)[s] = cache[f][s]
      /\ \A s \in Sector :
           (\A f \in Entry : ~(f < e /\ dirty[f] /\ Hit(f, s))) => StoredBefore(e)[s] = disc[s]
  BY <1>1, FlushedDisc
<1>3. \A f \in Entry : \A t \in Held(f) :
        /\ t \in Sector /\ Hit(f, t)
        /\ \A g \in Entry : Hit(g, t) => g = f
  BY <1>1, HeldSectors DEF HeldOnce, Hit
<1>4. \A f \in Entry : \A t \in Held(f) :
        f < e /\ dirty[f] => StoredBefore(e)[t] = cache[f][t]
  BY <1>2, <1>3
<1>5. \A f \in Entry : \A t \in Held(f) :
        ~(f < e /\ dirty[f]) => StoredBefore(e)[t] = disc[t]
  BY <1>2, <1>3
<1>6. \A t \in Sector : Miss(t) => StoredBefore(e)[t] = disc[t]
  BY <1>2 DEF Miss
<1>7. \A t \in Sector : StoredBefore(e)[t] \in {disc[t], Content[t]}
  <2> SUFFICES ASSUME NEW t \in Sector
               PROVE  StoredBefore(e)[t] \in {disc[t], Content[t]}
    OBVIOUS
  <2>1. CASE Miss(t)
    BY <2>1, <1>6
  <2>2. CASE ~Miss(t)
    <3>1. PICK f \in Entry : t \in Held(f)
      BY <2>2 DEF Miss, Hit
    <3>2. Content[t] = cache[f][t]
      BY <1>1, <3>1, ContentIs
    <3> QED
      BY <3>1, <3>2, <1>4, <1>5
  <2> QED
    BY <2>1, <2>2
<1> QED
  BY <1>2, <1>4, <1>5, <1>6, <1>7

LEMMA StoppedIs ==
  ASSUME Inv, NEW e \in Entry, dirty[e], NEW d \in StoppedAt(e)
  PROVE  /\ d \in [Sector -> Value]
         /\ \A f \in Entry : \A t \in Held(f) :
              f < e /\ dirty[f] => d[t] = cache[f][t]
         /\ \A f \in Entry : \A t \in Held(f) : ~dirty[f] => d[t] = disc[t]
         /\ \A t \in Sector : Miss(t) => d[t] = disc[t]
         /\ \A t \in Sector : d[t] \in {disc[t], Content[t]}
<1>1. TypeOK /\ Aligned /\ HeldOnce
  BY DEF Inv
<1>2. /\ d \in [Sector -> Value]
      /\ \A t \in Sector : t \notin Held(e) => d[t] = StoredBefore(e)[t]
      /\ \A t \in Sector : t \in Held(e) => d[t] \in {StoredBefore(e)[t], cache[e][t]}
  BY DEF StoppedAt, Hit
<1>3. \A t \in Held(e) : cache[e][t] = Content[t] /\ t \in Sector
  BY <1>1, ContentIs
<1>4. \A t \in Sector : d[t] \in {disc[t], Content[t]}
  BY <1>2, <1>3, FlushedIs
<1>5. \A t \in Sector : Miss(t) => d[t] = disc[t]
  BY <1>2, FlushedIs DEF Miss, Hit
<1>6. \A f \in Entry : \A t \in Held(f) : f # e => t \in Sector /\ t \notin Held(e)
  BY <1>1, HeldSectors DEF HeldOnce
<1>7. \A f \in Entry : \A t \in Held(f) : ~dirty[f] => d[t] = disc[t]
  BY <1>2, <1>6, FlushedIs
<1>8. \A f \in Entry : f < e => f # e
  BY DEF Entry
<1>9. \A f \in Entry : \A t \in Held(f) : f < e /\ dirty[f] => d[t] = cache[f][t]
  BY <1>2, <1>6, <1>8, FlushedIs
<1> QED
  BY <1>2, <1>4, <1>5, <1>7, <1>9

LEMMA FlushInv ==
  ASSUME Inv, Flush
  PROVE  Inv'
<1>1. /\ disc' = StoredBefore(Entries + 1) /\ dirty' = CleanBefore(Entries + 1)
      /\ ok' = TRUE /\ UNCHANGED <<sector, cache, got, spoiled>>
  BY DEF Flush
<1>2. TypeOK /\ CleanIsStored
  BY DEF Inv
<1>3. (\A f \in Entry : Held(f)' = Held(f)) /\ Aligned' /\ HeldOnce'
  BY <1>1, SamePages
<1>4. \A f \in Entry : f < Entries + 1
  BY EntriesAssumption DEF Entry
<1>5. dirty' \in [Entry -> BOOLEAN] /\ \A f \in Entry : ~dirty'[f]
  <2>1. \A f \in Entry : ~(f >= Entries + 1)
    BY EntriesAssumption DEF Entry
  <2>2. dirty' = [f \in Entry |-> dirty[f] /\ f >= Entries + 1]
    BY <1>1 DEF CleanBefore
  <2> QED
    BY <2>1, <2>2
<1>6. /\ disc' \in [Sector -> Value]
      /\ \A f \in Entry : \A t \in Held(f) : dirty[f] => disc'[t] = cache[f][t]
      /\ \A f \in Entry : \A t \in Held(f) : ~dirty[f] => disc'[t] = disc[t]
  BY <1>1, <1>4, FlushedIs
<1>7. TypeOK'
  BY <1>1, <1>2, <1>3, <1>5, <1>6 DEF TypeOK
<1>8. CleanIsStored'
  <2> SUFFICES ASSUME NEW f \in Entry, NEW t \in Held(f), f \notin spoiled
               PROVE  cache[f][t] = disc'[t]
    BY <1>1, <1>3 DEF CleanIsStored
  <2> QED
    BY <1>2, <1>6 DEF CleanIsStored
<1> QED
  BY <1>3, <1>7, <1>8 DEF Inv

LEMMA FlushFailsInv ==
  ASSUME Inv, FlushFails
  PROVE  Inv'
<1>1. PICK e \in Entry : dirty[e] /\ disc' \in StoppedAt(e) /\ dirty' = CleanBefore(e)
  BY DEF FlushFails
<1>2. ok' = FALSE /\ UNCHANGED <<sector, cache, got, spoiled>>
  BY DEF FlushFails
<1>3. TypeOK /\ CleanIsStored
  BY DEF Inv
<1>4. (\A f \in Entry : Held(f)' = Held(f)) /\ Aligned' /\ HeldOnce'
  BY <1>2, SamePages
<1>5. /\ disc' \in [Sector -> Value]
      /\ \A f \in Entry : \A t \in Held(f) : f < e /\ dirty[f] => disc'[t] = cache[f][t]
      /\ \A f \in Entry : \A t \in Held(f) : ~dirty[f] => disc'[t] = disc[t]
  BY <1>1, StoppedIs
<1>6. /\ dirty' \in [Entry -> BOOLEAN]
      /\ \A f \in Entry : ~dirty'[f] => ~dirty[f] \/ f < e
      /\ \A f \in Entry : ~dirty[f] => ~dirty'[f]
  <2>1. \A f \in Entry : f \in Int /\ e \in Int /\ (~(f >= e) <=> f < e)
    BY <1>1 DEF Entry
  <2>2. dirty' = [f \in Entry |-> dirty[f] /\ f >= e]
    BY <1>1 DEF CleanBefore
  <2> QED
    BY <2>1, <2>2
<1>7. TypeOK'
  BY <1>2, <1>3, <1>4, <1>5, <1>6 DEF TypeOK
<1>8. CleanIsStored'
  <2> SUFFICES ASSUME NEW f \in Entry, NEW t \in Held(f), f \notin spoiled, ~dirty'[f]
               PROVE  cache[f][t] = disc'[t]
    BY <1>2, <1>4 DEF CleanIsStored
  <2>1. CASE ~dirty[f]
    BY <2>1, <1>3, <1>5 DEF CleanIsStored
  <2>2. CASE dirty[f]
    BY <2>2, <1>5, <1>6
  <2> QED
    BY <2>1, <2>2
<1> QED
  BY <1>4, <1>7, <1>8 DEF Inv

LEMMA EmptyInv ==
  ASSUME Inv, Empty, disc' \in [Sector -> Value]
  PROVE  Inv'
<1>1. /\ \A e \in Entry : sector'[e] = CacheFree /\ cache'[e] = <<>>
      /\ \A e \in Entry : ~dirty'[e]
  BY DEF Empty, NoPage
<1>2. /\ sector' \in [Entry -> Sector \cup {CacheFree}] /\ dirty' \in [Entry -> BOOLEAN]
      /\ DOMAIN cache' = Entry /\ spoiled' = {}
  BY DEF Empty, NoPage
<1>3. \A e \in Entry : Held(e)' = {}
  BY <1>1 DEF Held
<1>4. <<>> \in [{} -> Value]
  OBVIOUS
<1>5. \A e \in Entry : cache'[e] \in [Held(e)' -> Value]
  BY <1>1, <1>3, <1>4
<1>6. ok' \in BOOLEAN /\ got' \in Value
  BY DEF Empty, Inv, TypeOK
<1>7. TypeOK'
  BY <1>1, <1>2, <1>5, <1>6 DEF TypeOK
<1> QED
  BY <1>1, <1>3, <1>7 DEF Inv, Aligned, HeldOnce, CleanIsStored

\* What the destructor leaves on the disc.
LEMMA DestroyedDisc ==
  ASSUME Inv, Destroy
  PROVE  /\ disc' \in [Sector -> Value]
         /\ \A t \in Sector : disc'[t] \in {disc[t], Content[t]}
<1>1. disc' = StoredBefore(Entries + 1) \/ \E e \in Entry : dirty[e] /\ disc' \in StoppedAt(e)
  BY DEF Destroy
<1>2. CASE disc' = StoredBefore(Entries + 1)
  BY <1>2, FlushedIs
<1>3. CASE \E e \in Entry : dirty[e] /\ disc' \in StoppedAt(e)
  BY <1>3, StoppedIs
<1> QED
  BY <1>1, <1>2, <1>3

LEMMA StepInv ==
  ASSUME Inv, [Next]_vars
  PROVE  Inv'
<1>1. CASE \E s \in Sector : ReadSector(s)
  BY <1>1, ReadInv
<1>2. CASE \E s \in Sector : EvictFails(s)
  BY <1>2, EvictFailsInv
<1>3. CASE \E s \in Sector : LoadFails(s)
  BY <1>3, LoadFailsInv
<1>4. CASE \E s \in Sector : \E v \in Value : WriteSector(s, v)
  BY <1>4, WriteInv
<1>5. CASE Flush
  BY <1>5, FlushInv
<1>6. CASE FlushFails
  BY <1>6, FlushFailsInv
<1>7. CASE Destroy
  BY <1>7, DestroyedDisc, EmptyInv DEF Destroy
<1>8. CASE Crash
  <2>1. disc' \in [Sector -> Value] /\ Empty
    BY <1>8 DEF Crash, Inv, TypeOK
  <2> QED
    BY <2>1, EmptyInv
<1>9. ASSUME UNCHANGED <<disc, sector, cache, dirty, got, spoiled>>, ok' \in BOOLEAN
      PROVE  Inv'
  <2>1. (\A f \in Entry : Held(f)' = Held(f)) /\ Aligned' /\ HeldOnce'
    BY <1>9, SamePages
  <2>2. TypeOK' /\ CleanIsStored'
    BY <1>9, <2>1 DEF Inv, TypeOK, CleanIsStored
  <2> QED
    BY <2>1, <2>2 DEF Inv
<1>10. CASE Refuse
  BY <1>9, <1>10 DEF Refuse
<1>11. CASE UNCHANGED vars
  <2>1. ok' \in BOOLEAN
    BY <1>11 DEF vars, Inv, TypeOK
  <2> QED
    BY <1>9, <1>11, <2>1 DEF vars
<1> QED
  BY <1>1, <1>2, <1>3, <1>4, <1>5, <1>6, <1>7, <1>8, <1>10, <1>11 DEF Next

-----------------------------------------------------------------------------
(***************************************************************************)
(* Theorems.                                                               *)
(***************************************************************************)

\* Pages stay aligned, each is cached once, and a clean one is what the disc
\* has, through every function of cache.c.
THEOREM Invariance == Spec => []Inv
<1>1. Inv /\ [Next]_vars => Inv'
  BY StepInv
<1> QED
  BY <1>1, InitInv, PTL DEF Spec

\* The entries of the cache are always free, or whole pages of the right type
\* (_FAT_cache_getPage, _FAT_cache_invalidate).
THEOREM TypeCorrect == Spec => []TypeOK
BY Invariance, PTL DEF Inv

\* No sector is cached twice, however many entries there are.
THEOREM NoSectorTwice == Spec => []HeldOnce
BY Invariance, PTL DEF Inv

\* What is cached and clean is what the disc has: giving it up loses nothing.
THEOREM CleanMayGo == Spec => []CleanIsStored
BY Invariance, PTL DEF Inv

-----------------------------------------------------------------------------
(***************************************************************************)
(* The refinement of FatDisc, action by action.                            *)
(***************************************************************************)

Doubt == UNION {Held(e) : e \in spoiled}

ContentLaws ==
  /\ Content \in [Sector -> Value]
  /\ \A e \in Entry : \A s \in Held(e) : s \in Sector /\ Content[s] = cache[e][s]
  /\ \A s \in Sector : Miss(s) => Content[s] = disc[s]

LEMMA ContentNow == Inv => ContentLaws
BY ContentIs DEF Inv, ContentLaws

LEMMA ContentThen == Inv' => ContentLaws'
BY ContentNow, PTL

\* Contents are equal when they are so sector by sector.
LEMMA SameContent ==
  ASSUME ContentLaws, ContentLaws', \A t \in Sector : Content'[t] = Content[t]
  PROVE  Content' = Content
BY DEF ContentLaws

\* A step that moves no page and writes no entry, nor what nobody holds.
LEMMA NothingMoves ==
  ASSUME Inv, Inv', UNCHANGED <<sector, cache, spoiled>>,
         \A t \in Sector : Miss(t) => disc'[t] = disc[t]
  PROVE  Content' = Content /\ Doubt' = Doubt
<1>1. ContentLaws /\ ContentLaws'
  BY ContentNow, ContentThen
<1>2. /\ \A e \in Entry : Held(e)' = Held(e)
      /\ \A e \in Entry : \A s : Hit(e, s)' = Hit(e, s)
  BY SamePages
<1>3. Doubt' = Doubt
  BY <1>2 DEF Doubt, Inv, TypeOK
<1>4. \A t \in Sector : Content'[t] = Content[t]
  <2> SUFFICES ASSUME NEW t \in Sector
               PROVE  Content'[t] = Content[t]
    OBVIOUS
  <2>1. CASE Miss(t)
    <3>1. Miss(t)'
      BY <2>1, <1>2 DEF Miss
    <3> QED
      BY <2>1, <3>1, <1>1 DEF ContentLaws
  <2>2. CASE ~Miss(t)
    <3>1. PICK f \in Entry : t \in Held(f)
      BY <2>2 DEF Miss, Hit
    <3>2. t \in Held(f)'
      BY <3>1, <1>2
    <3> QED
      BY <3>1, <3>2, <1>1 DEF ContentLaws
  <2> QED
    BY <2>1, <2>2
<1> QED
  BY <1>1, <1>3, <1>4, SameContent

\* Another page comes in: outside it the contents stay, but that a page in doubt
\* that is given up reads as the disc again.
LEMMA PageComes ==
  ASSUME Inv, Inv', NEW s \in Sector, NEW e \in Entry, NEW p, GetPage(e, s),
         cache' = [cache EXCEPT ![e] = p], spoiled' \subseteq spoiled,
         ~Hit(e, s) => e \notin spoiled'
  PROVE  /\ \A t \in Held(e)' : Content'[t] = p[t]
         /\ \A t \in Sector \ Held(e)' :
              Content'[t] = Content[t] \/ (t \in Doubt /\ Content'[t] = disc'[t])
         /\ Doubt' \subseteq Doubt
<1>1. ContentLaws /\ ContentLaws'
  BY ContentNow, ContentThen
<1>2. TypeOK /\ Aligned /\ HeldOnce /\ CleanIsStored
  BY DEF Inv
<1>3. /\ \A f \in Entry : f # e => Held(f)' = Held(f)
      /\ Hit(e, s) => Held(e)' = Held(e)
  BY <1>2, PageMoves
<1>4. /\ \A t \in Sector : Miss(t) => disc'[t] = disc[t]
      /\ ~Hit(e, s) => disc' = Evicted(e)
  BY <1>2, PageLoaded
<1>5. cache'[e] = p /\ \A f \in Entry : f # e => cache'[f] = cache[f]
  BY <1>2 DEF TypeOK
<1>6. \A t \in Held(e)' : Content'[t] = p[t]
  BY <1>1, <1>5 DEF ContentLaws
<1>7. ASSUME NEW t \in Sector \ Held(e)'
      PROVE  Content'[t] = Content[t] \/ (t \in Doubt /\ Content'[t] = disc'[t])
  <2>1. CASE \E f \in Entry : f # e /\ t \in Held(f)
    <3>1. PICK f \in Entry : f # e /\ t \in Held(f)
      BY <2>1
    <3>2. t \in Held(f)' /\ cache'[f] = cache[f]
      BY <3>1, <1>3, <1>5
    <3> QED
      BY <3>1, <3>2, <1>1 DEF ContentLaws
  <2>2. CASE ~\E f \in Entry : f # e /\ t \in Held(f)
    <3>1. \A f \in Entry : t \notin Held(f)'
      BY <2>2, <1>3, <1>7
    <3>2. Content'[t] = disc'[t]
      BY <3>1, <1>1 DEF ContentLaws, Miss, Hit
    <3>3. CASE t \notin Held(e)
      <4>1. Miss(t)
        BY <2>2, <3>3 DEF Miss, Hit
      <4> QED
        BY <4>1, <3>2, <1>1, <1>4 DEF ContentLaws
    <3>4. CASE t \in Held(e)
      <4>1. disc' = Evicted(e)
        BY <3>4, <1>3, <1>4, <1>7
      <4>2. CASE dirty[e]
        BY <4>1, <4>2, <3>2, <3>4, <1>2, EvictedIs
      <4>3. CASE ~dirty[e] /\ e \in spoiled
        BY <4>3, <3>2, <3>4 DEF Doubt
      <4>4. CASE ~dirty[e] /\ e \notin spoiled
        <5>1. disc'[t] = disc[t]
          BY <4>1, <4>4, <1>2, EvictedIs
        <5>2. cache[e][t] = disc[t] /\ Content[t] = cache[e][t]
          BY <4>4, <3>4, <1>1, <1>2 DEF CleanIsStored, ContentLaws
        <5> QED
          BY <5>1, <5>2, <3>2
      <4> QED
        BY <4>2, <4>3, <4>4
    <3> QED
      BY <3>3, <3>4
  <2> QED
    BY <2>1, <2>2
<1>8. Doubt' \subseteq Doubt
  <2> SUFFICES ASSUME NEW f \in spoiled', NEW t \in Held(f)'
               PROVE  \E g \in spoiled : t \in Held(g)
    BY DEF Doubt
  <2>1. f \in spoiled /\ f \in Entry
    BY <1>2 DEF TypeOK
  <2>2. Held(f)' = Held(f)
    BY <2>1, <1>3
  <2> QED
    BY <2>1, <2>2
<1> QED
  BY <1>6, <1>7, <1>8

LEMMA ReadRefines ==
  ASSUME Inv, Inv', NEW s \in Sector, ReadSector(s)
  PROVE  Disc!Read(s)
<1>1. PICK e \in Entry :
        /\ GetPage(e, s)
        /\ cache' = [cache EXCEPT ![e] = Page(e, s)]
        /\ spoiled' = IF Hit(e, s) THEN spoiled ELSE spoiled \ {e}
        /\ ok' = TRUE /\ got' = Page(e, s)[s]
  BY DEF ReadSector
<1>2. TypeOK /\ Aligned /\ HeldOnce /\ ContentLaws /\ ContentLaws'
  BY ContentNow, ContentThen DEF Inv
<1>3. /\ Held(e)' = SectorsFrom(Align(s)) /\ s \in Held(e)'
      /\ \A t \in Held(e)' : Page(e, s)[t] = Content[t]
      /\ disc' \in [Sector -> Value]
      /\ \A t \in Sector : disc'[t] \in {disc[t], Content[t]}
  BY <1>1, <1>2, PageMoves, PageLoaded
<1>4. spoiled' \subseteq spoiled /\ (~Hit(e, s) => e \notin spoiled')
  BY <1>1
<1>5. /\ \A t \in Held(e)' : Content'[t] = Page(e, s)[t]
      /\ \A t \in Sector \ Held(e)' :
           Content'[t] = Content[t] \/ (t \in Doubt /\ Content'[t] = disc'[t])
      /\ Doubt' \subseteq Doubt
  BY <1>1, <1>4, PageComes
<1>6. \A t \in Sector : Content'[t] = Content[t] \/ (t \in Doubt /\ Content'[t] = disc'[t])
  BY <1>3, <1>5
<1>7. ok' = TRUE /\ got' = Content'[s]
  BY <1>1, <1>3, <1>5
<1>8. Content' \in [Sector -> Value]
  BY <1>2 DEF ContentLaws
<1> QED
  BY <1>3, <1>5, <1>6, <1>7, <1>8
  DEF Disc!Read, Disc!SomeSaved, Disc!Becomes, Content, Doubt

LEMMA WriteRefines ==
  ASSUME Inv, Inv', NEW s \in Sector, NEW v \in Value, WriteSector(s, v)
  PROVE  Disc!Write(s, v)
<1>1. PICK e \in Entry :
        /\ GetPage(e, s)
        /\ cache' = [cache EXCEPT ![e] = [Page(e, s) EXCEPT ![s] = v]]
        /\ spoiled' = spoiled \ {e}
        /\ ok' = TRUE /\ UNCHANGED got
  BY DEF WriteSector
<1>2. TypeOK /\ Aligned /\ HeldOnce /\ ContentLaws /\ ContentLaws'
  BY ContentNow, ContentThen DEF Inv
<1>3. /\ Held(e)' = SectorsFrom(Align(s)) /\ s \in Held(e)'
      /\ Page(e, s) \in [SectorsFrom(Align(s)) -> Value]
      /\ \A t \in Held(e)' : Page(e, s)[t] = Content[t]
      /\ disc' \in [Sector -> Value]
      /\ \A t \in Sector : disc'[t] \in {disc[t], Content[t]}
  BY <1>1, <1>2, PageMoves, PageLoaded
<1> DEFINE p == [Page(e, s) EXCEPT ![s] = v]
           c == [Content EXCEPT ![s] = v]
<1>4. spoiled' \subseteq spoiled /\ e \notin spoiled' /\ cache' = [cache EXCEPT ![e] = p]
  BY <1>1
<1>5. p[s] = v /\ \A t \in Held(e)' : t # s => p[t] = Content[t]
  BY <1>3
<1>6. c[s] = v /\ \A t \in Sector : t # s => c[t] = Content[t]
  BY <1>2 DEF ContentLaws
<1> HIDE DEF p
<1>7. /\ \A t \in Held(e)' : Content'[t] = p[t]
      /\ \A t \in Sector \ Held(e)' :
           Content'[t] = Content[t] \/ (t \in Doubt /\ Content'[t] = disc'[t])
      /\ Doubt' \subseteq Doubt
  BY <1>1, <1>4, PageComes
<1>8. Content'[s] = v
  BY <1>3, <1>5, <1>7
<1> HIDE DEF c
<1>9. \A t \in Sector : Content'[t] = c[t] \/ (t \in Doubt /\ Content'[t] = disc'[t])
  BY <1>3, <1>5, <1>6, <1>7
<1>10. Content' \in [Sector -> Value] /\ ok' = TRUE /\ UNCHANGED got
  BY <1>1, <1>2 DEF ContentLaws
<1> QED
  BY <1>3, <1>7, <1>8, <1>9, <1>10
  DEF Disc!Write, Disc!SomeSaved, Disc!Becomes, Content, Doubt, c

\* A call that fails and moves nothing but sectors to the disc.
LEMMA QuietFailure ==
  ASSUME Inv, Inv', UNCHANGED <<sector, cache, spoiled, got>>, ok' = FALSE,
         \A t \in Sector : disc'[t] \in {disc[t], Content[t]},
         \A t \in Sector : Miss(t) => disc'[t] = disc[t]
  PROVE  Disc!Fail
<1>1. Content' = Content /\ Doubt' = Doubt
  BY NothingMoves
<1>2. Content' \in [Sector -> Value] /\ disc' \in [Sector -> Value]
  BY ContentThen DEF ContentLaws, Inv, TypeOK
<1> QED
  BY <1>1, <1>2 DEF Disc!Fail, Disc!SomeSaved, Content, Doubt

LEMMA EvictFailsRefines ==
  ASSUME Inv, Inv', NEW s \in Sector, EvictFails(s)
  PROVE  Disc!Fail
<1>1. PICK e \in Entry : disc' \in PartlyStored(e)
  BY DEF EvictFails
<1>2. /\ \A t \in Sector : disc'[t] \in {disc[t], Content[t]}
      /\ \A t \in Sector : Miss(t) => disc'[t] = disc[t]
  BY <1>1, PartlyIs DEF Inv
<1>3. UNCHANGED <<sector, cache, spoiled, got>> /\ ok' = FALSE
  BY DEF EvictFails
<1> QED
  BY <1>2, <1>3, QuietFailure

LEMMA FlushFailsRefines ==
  ASSUME Inv, Inv', FlushFails
  PROVE  Disc!Fail
<1>1. PICK e \in Entry : dirty[e] /\ disc' \in StoppedAt(e)
  BY DEF FlushFails
<1>2. /\ \A t \in Sector : disc'[t] \in {disc[t], Content[t]}
      /\ \A t \in Sector : Miss(t) => disc'[t] = disc[t]
  BY <1>1, StoppedIs
<1>3. UNCHANGED <<sector, cache, spoiled, got>> /\ ok' = FALSE
  BY DEF FlushFails
<1> QED
  BY <1>2, <1>3, QuietFailure

LEMMA LoadFailsRefines ==
  ASSUME Inv, Inv', NEW s \in Sector, LoadFails(s)
  PROVE  Disc!Fail
<1>1. PICK e \in Entry :
        /\ disc' = Evicted(e)
        /\ \E junk \in [Held(e) -> Value] : cache' = [cache EXCEPT ![e] = junk]
        /\ spoiled' = IF sector[e] = CacheFree THEN spoiled ELSE spoiled \cup {e}
        /\ ok' = FALSE /\ UNCHANGED <<sector, got>>
  BY DEF LoadFails
<1>2. TypeOK /\ Aligned /\ HeldOnce /\ ContentLaws /\ ContentLaws'
  BY ContentNow, ContentThen DEF Inv
<1>3. /\ \A f \in Entry : Held(f)' = Held(f)
      /\ \A f \in Entry : \A t : Hit(f, t)' = Hit(f, t)
  BY <1>1 DEF Held, Hit
<1>4. \A f \in Entry : f # e => cache'[f] = cache[f]
  BY <1>1, <1>2 DEF TypeOK
<1>5. /\ disc' \in [Sector -> Value]
      /\ \A t \in Sector : disc'[t] \in {disc[t], Content[t]}
      /\ \A t \in Sector : Miss(t) => disc'[t] = disc[t]
  BY <1>1, <1>2, DiscTypes, EvictedIs DEF Miss, Hit
<1>6. \A t \in Sector \ Held(e) : Content'[t] = Content[t]
  <2> SUFFICES ASSUME NEW t \in Sector \ Held(e)
               PROVE  Content'[t] = Content[t]
    OBVIOUS
  <2>1. CASE Miss(t)
    <3>1. Miss(t)'
      BY <2>1, <1>3 DEF Miss
    <3> QED
      BY <2>1, <3>1, <1>2, <1>5 DEF ContentLaws
  <2>2. CASE ~Miss(t)
    <3>1. PICK f \in Entry : f # e /\ t \in Held(f)
      BY <2>2 DEF Miss, Hit
    <3>2. t \in Held(f)' /\ cache'[f] = cache[f]
      BY <3>1, <1>3, <1>4
    <3> QED
      BY <3>1, <3>2, <1>2 DEF ContentLaws
  <2> QED
    BY <2>1, <2>2
<1>7. Content' \in [Sector -> Value]
  BY <1>2 DEF ContentLaws
<1>8. \/ Content' = Content /\ Doubt' = Doubt
      \/ \E P \in {SectorsFrom(Align(x)) : x \in Sector} :
           /\ \A t \in Sector \ P : Content'[t] = Content[t]
           /\ Doubt' = Doubt \cup P
  <2>1. CASE sector[e] = CacheFree
    <3>1. Held(e) = {} /\ spoiled' = spoiled
      BY <2>1, <1>1 DEF Held
    <3>2. Content' = Content
      BY <3>1, <1>2, <1>6, SameContent
    <3>3. Doubt' = Doubt
      BY <3>1, <1>2, <1>3 DEF Doubt, TypeOK
    <3> QED
      BY <3>2, <3>3
  <2>2. CASE sector[e] # CacheFree
    <3>1. PICK x \in Sector : sector[e] = Align(x)
      BY <2>2, <1>2 DEF Aligned
    <3>2. Held(e) = SectorsFrom(Align(x))
      BY <2>2, <3>1 DEF Held
    <3>3. spoiled' = spoiled \cup {e}
      BY <2>2, <1>1
    <3>4. \A f \in spoiled' : f \in Entry
      BY <1>2, <3>3 DEF TypeOK
    <3>5. Doubt' = UNION {Held(f) : f \in spoiled'}
      BY <1>3, <3>4 DEF Doubt
    <3>6. Doubt' = Doubt \cup Held(e)
      BY <3>3, <3>5 DEF Doubt
    <3> QED
      BY <3>2, <3>6, <1>6
  <2> QED
    BY <2>1, <2>2
<1> QED
  BY <1>1, <1>5, <1>7, <1>8 DEF Disc!Fail, Disc!SomeSaved, Content, Doubt

LEMMA FlushRefines ==
  ASSUME Inv, Inv', Flush
  PROVE  Disc!Flush
<1>1. /\ disc' = StoredBefore(Entries + 1)
      /\ ok' = TRUE /\ UNCHANGED <<sector, cache, got, spoiled>>
  BY DEF Flush
<1>2. \A f \in Entry : f < Entries + 1
  BY EntriesAssumption DEF Entry
<1>3. /\ disc' \in [Sector -> Value]
      /\ \A f \in Entry : \A t \in Held(f) : dirty[f] => disc'[t] = cache[f][t]
      /\ \A f \in Entry : \A t \in Held(f) : ~dirty[f] => disc'[t] = disc[t]
      /\ \A t \in Sector : Miss(t) => disc'[t] = disc[t]
      /\ \A t \in Sector : disc'[t] \in {disc[t], Content[t]}
  BY <1>1, <1>2, FlushedIs
<1>4. Content' = Content /\ Doubt' = Doubt
  BY <1>1, <1>3, NothingMoves
<1>5. \A t \in Sector \ Doubt : disc'[t] = Content[t]
  <2> SUFFICES ASSUME NEW t \in Sector \ Doubt
               PROVE  disc'[t] = Content[t]
    OBVIOUS
  <2>1. CASE Miss(t)
    BY <2>1, <1>3, ContentNow DEF ContentLaws
  <2>2. CASE ~Miss(t)
    <3>1. PICK f \in Entry : t \in Held(f)
      BY <2>2 DEF Miss, Hit
    <3>2. Content[t] = cache[f][t] /\ f \notin spoiled
      BY <3>1, ContentNow DEF ContentLaws, Doubt
    <3>3. CASE dirty[f]
      BY <3>1, <3>2, <3>3, <1>3
    <3>4. CASE ~dirty[f]
      BY <3>1, <3>2, <3>4, <1>3 DEF Inv, CleanIsStored
    <3> QED
      BY <3>3, <3>4
  <2> QED
    BY <2>1, <2>2
<1> QED
  BY <1>1, <1>3, <1>4, <1>5 DEF Disc!Flush, Disc!SomeSaved, Content, Doubt

LEMMA EmptyRefines ==
  ASSUME Inv, Inv', Empty, \A t \in Sector : disc'[t] \in {disc[t], Content[t]}
  PROVE  Disc!Leave
<1>1. \A e \in Entry : Held(e)' = {}
  BY DEF Empty, NoPage, Held
<1>2. \A t \in Sector : Content'[t] = disc'[t]
  BY <1>1, ContentThen DEF ContentLaws, Miss, Hit
<1>3. Content' \in [Sector -> Value] /\ disc' \in [Sector -> Value]
  BY ContentThen DEF ContentLaws, Inv, TypeOK
<1>4. Content' = disc'
  BY <1>2, <1>3
<1>5. Doubt' = {} /\ UNCHANGED <<ok, got>>
  BY DEF Doubt, Empty
<1> QED
  BY <1>3, <1>4, <1>5 DEF Disc!Leave, Disc!SomeSaved, Content, Doubt

LEMMA NextRefines ==
  ASSUME Inv, Inv', [Next]_vars
  PROVE  [Disc!Next]_(Disc!vars)
<1>1. CASE \E s \in Sector : ReadSector(s)
  BY <1>1, ReadRefines DEF Disc!Next
<1>2. CASE \E s \in Sector : EvictFails(s)
  BY <1>2, EvictFailsRefines DEF Disc!Next
<1>3. CASE \E s \in Sector : LoadFails(s)
  BY <1>3, LoadFailsRefines DEF Disc!Next
<1>4. CASE \E s \in Sector : \E v \in Value : WriteSector(s, v)
  BY <1>4, WriteRefines DEF Disc!Next
<1>5. CASE Flush
  BY <1>5, FlushRefines DEF Disc!Next
<1>6. CASE FlushFails
  BY <1>6, FlushFailsRefines DEF Disc!Next
<1>7. CASE Destroy
  <2>1. Disc!Leave
    BY <1>7, DestroyedDisc, EmptyRefines DEF Destroy
  <2> QED
    BY <2>1 DEF Disc!Next
<1>8. CASE Crash
  <2>1. Disc!Leave
    BY <1>8, EmptyRefines DEF Crash
  <2> QED
    BY <2>1 DEF Disc!Next
<1>9. CASE Refuse
  <2>1. Disc!Fail
    BY <1>9, QuietFailure DEF Refuse
  <2> QED
    BY <2>1 DEF Disc!Next
<1>10. CASE UNCHANGED vars
  <2>1. Content' = Content /\ Doubt' = Doubt
    BY <1>10, NothingMoves DEF vars
  <2> QED
    BY <1>10, <2>1 DEF vars, Disc!vars, Content, Doubt
<1> QED
  BY <1>1, <1>2, <1>3, <1>4, <1>5, <1>6, <1>7, <1>8, <1>9, <1>10 DEF Next

LEMMA InitRefines == Init => Disc!Init
<1> SUFFICES ASSUME Init PROVE Disc!Init
  OBVIOUS
<1>1. Inv /\ ContentLaws
  BY InitInv, ContentNow
<1>2. \A t \in Sector : Miss(t)
  BY DEF Init, NoPage, Miss, Hit, Held
<1>3. Content = disc
  BY <1>1, <1>2 DEF ContentLaws, Init
<1>4. Doubt = {}
  BY DEF Init, Doubt
<1> QED
  BY <1>3, <1>4 DEF Init, Disc!Init, Content, Doubt

\* For any number of entries and any length of a page the cache of libfat is an
\* array of sectors that is read and written at once, behind which the disc
\* lags: what a read returns is what was last written, whatever was evicted,
\* flushed or failed in between (cache.c, all of its operations).
THEOREM CacheImplementsDisc == Spec => ImplementsDisc
<1>1. Inv /\ Inv' /\ [Next]_vars => [Disc!Next]_(Disc!vars)
  BY NextRefines
<1> QED
  BY <1>1, InitRefines, Invariance, PTL DEF Spec, ImplementsDisc, Disc!Spec
=============================================================================
