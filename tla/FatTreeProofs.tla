---------------------------- MODULE FatTreeProofs ----------------------------
(***************************************************************************)
(* What holds of FatTree for every disc, every cluster size, every set of  *)
(* names with their aliases, and any number of calls.                      *)
(***************************************************************************)
EXTENDS FatTree, FiniteSetTheorems, WellFoundedInduction, TLAPS

-----------------------------------------------------------------------------
(***************************************************************************)
(* Constants, the least element, and sizes.                                *)
(***************************************************************************)

LEMMA MinOf ==
  ASSUME NEW S \in SUBSET Nat, S # {}
  PROVE  Min(S) \in S /\ \A x \in S : Min(S) <= x
<1>1. \E x \in S : \A y \in S : ~(<<y, x>> \in OpToRel(<, Nat))
  BY NatLessThanWellFounded, WFMin
<1>2. PICK x \in S : \A y \in S : ~(<<y, x>> \in OpToRel(<, Nat))
  BY <1>1
<1>3. ASSUME NEW y \in S  PROVE x <= y
  <2>1. x \in Nat /\ y \in Nat
    OBVIOUS
  <2>2. ~(<<y, x>> \in {p \in Nat \X Nat : p[1] < p[2]})
    BY <1>2, <1>3, Zenon DEF OpToRel
  <2> QED
    BY <2>1, <2>2
<1> QED
  BY <1>3 DEF Min

LEMMA Constants ==
  /\ Root \in Folder /\ NoFolder \notin Folder /\ "." \notin Name /\ ".." \notin Name
  /\ PerCluster \in Nat /\ PerCluster >= 2 /\ LongSlots \in Nat /\ LongSlots >= 2
BY TreeAssumption DEF DotNames

LEMMA SizeBounds ==
  ASSUME NEW n
  PROVE  /\ Size(n) \in 1 .. LongSlots
         /\ Size(n) = 1 <=> n \notin DOMAIN Alias
BY Constants DEF Size

\* A record of a slot is what its part and its entry are.
LEMMA PartsOf ==
  ASSUME NEW e, NEW k
  PROVE  Part(e, k).part = k /\ Part(e, k).of = e
BY DEF Part

LEMMA Marks ==
  /\ Last.part = 0 /\ Free.part = 0 /\ Last # Free
  /\ \A x \in Slot : x \notin {Last, Free} =>
       /\ x.part \in 1 .. LongSlots /\ x.of \in EntryRecord /\ x = Part(x.of, x.part)
<1>1. Last.part = 0 /\ Free.part = 0 /\ Last.of.name = "last" /\ Free.of.name = "free"
  BY DEF Last, Free, Part, Entry
<1> QED
  BY <1>1 DEF Slot, Part

LEMMA EntryParts ==
  ASSUME NEW e \in EntryRecord
  PROVE  /\ e.name \in Name \cup DotNames /\ e.alias \in Name \cup DotNames
         /\ e.sub \in Folder \cup {NoFolder}
         /\ e.name \notin DOMAIN Alias => e.alias = e.name
         /\ e = Entry(e.name, e.alias, e.sub)
         /\ IsDirectory(e) <=> e.sub \in Folder
BY Constants DEF EntryRecord, Entry, IsDirectory

\* An entry whose name or alias is a path's name is no dot.
LEMMA NamedIsNoDot ==
  ASSUME NEW e \in EntryRecord, NEW n \in Name, n \in {e.name, e.alias}
  PROVE  e.name \in Name /\ e.alias \in Name /\ ~IsDot(e)
<1>1. CASE e.name \in DOMAIN Alias
  <2>1. e.name \in Name /\ e.alias \in Range(Alias[e.name])
    BY <1>1, TreeAssumption DEF EntryRecord
  <2>2. Alias[e.name] \in Seq((Name \ DOMAIN Alias) \cup {e.name})
    BY <1>1, TreeAssumption
  <2>3. e.alias \in Name
    BY <2>1, <2>2 DEF Range
  <2> QED
    BY <2>1, <2>3, TreeAssumption DEF IsDot
<1>2. CASE e.name \notin DOMAIN Alias
  BY <1>2, EntryParts, TreeAssumption DEF IsDot
<1> QED
  BY <1>1, <1>2

-----------------------------------------------------------------------------
(***************************************************************************)
(* A readable directory.                                                   *)
(***************************************************************************)

LEMMA ReadableParts ==
  ASSUME NEW s, Readable(s)
  PROVE  /\ s \in Seq(Slot) /\ Len(s) \in Nat /\ Len(s) % PerCluster = 0
         /\ \A i \in 1 .. Len(s) : s[i] \in Slot
         /\ \A i, k \in 1 .. Len(s) : s[i] = Last /\ i <= k => s[k] = Last
<1>1. s \in Seq(Slot) /\ Len(s) \in Nat /\ Len(s) % PerCluster = 0
  BY DEF Readable
<1>2. \A i \in 1 .. Len(s) : s[i] \in Slot
  BY <1>1
<1>3. \A i, k \in 1 .. Len(s) : s[i] = Last /\ i <= k => s[k] = Last
  BY <1>1 DEF Readable
<1> QED
  BY <1>1, <1>2, <1>3

\* The slots of the entry that ends in slot j.
Start(s, j) == j - Size(s[j].of.name) + 1

LEMMA WholeParts ==
  ASSUME NEW s, NEW j \in Nat, Whole(s, Start(s, j), j)
  PROVE  /\ Start(s, j) \in 1 .. j /\ s[j].part = 1
         /\ \A k \in Start(s, j) .. j : s[k] = Part(s[j].of, j - k + 1)
BY SizeBounds, Constants DEF Whole, Start

\* An entry that ends in a slot is whole, and is what the slots before it are
\* of; a slot that is neither free nor an end mark is of one entry.
LEMMA EntryIsWhole ==
  ASSUME NEW s, Readable(s), NEW j \in 1 .. Len(s), s[j].part = 1
  PROVE  Whole(s, Start(s, j), j) /\ s[j] \notin {Last, Free} /\ s[j].of \in EntryRecord
<1>1. s[j] \notin {Last, Free} /\ s[j] \in Slot
  BY Marks, ReadableParts
<1>2. PICK k \in j .. Len(s) : Start(s, k) <= j /\ Whole(s, Start(s, k), k)
  BY <1>1 DEF Readable, Start
<1>3. k \in Nat /\ j \in Nat /\ j \in Start(s, k) .. k
  BY <1>2, ReadableParts, SizeBounds, Constants DEF Start
<1>4. s[j].part = k - j + 1
  BY <1>2, <1>3, WholeParts, PartsOf
<1>5. k = j
  BY <1>3, <1>4
<1> QED
  BY <1>1, <1>2, <1>5, Marks

LEMMA SlotIsOfAnEntry ==
  ASSUME NEW s, Readable(s), NEW i \in 1 .. Len(s), s[i] \notin {Last, Free}
  PROVE  \E j \in i .. Len(s) : s[j].part = 1 /\ i \in Start(s, j) .. j
<1>2. PICK k \in i .. Len(s) : Start(s, k) <= i /\ Whole(s, Start(s, k), k)
  BY DEF Readable, Start
<1>3. k \in Nat /\ i \in Start(s, k) .. k
  BY <1>2, ReadableParts, SizeBounds, Constants DEF Start
<1> QED
  BY <1>2, <1>3, WholeParts

LEMMA EntriesAre ==
  ASSUME NEW s, Readable(s)
  PROVE  Entries(s) = {j \in 1 .. Len(s) : s[j].part = 1}
<1>1. ASSUME NEW j \in 1 .. Len(s), s[j].part = 1, NEW k \in 1 .. j  PROVE s[k] # Last
  BY <1>1, ReadableParts, Marks
<1> QED
  BY <1>1 DEF Entries

LEMMA EntryFacts ==
  ASSUME NEW s, Readable(s), NEW j \in Entries(s)
  PROVE  /\ j \in 1 .. Len(s) /\ j \in Nat /\ s[j].part = 1 /\ s[j].of \in EntryRecord
         /\ s[j] = Part(s[j].of, 1) /\ Whole(s, Start(s, j), j)
         /\ Start(s, j) \in 1 .. j
         /\ \A k \in Start(s, j) .. j : s[k] = Part(s[j].of, j - k + 1)
<1>1. j \in 1 .. Len(s) /\ j \in Nat /\ s[j].part = 1
  BY EntriesAre, ReadableParts
<1>2. Whole(s, Start(s, j), j) /\ s[j] \notin {Last, Free} /\ s[j].of \in EntryRecord
  BY <1>1, EntryIsWhole
<1>3. s[j] = Part(s[j].of, 1)
  BY <1>1, <1>2, Marks, ReadableParts
<1> QED
  BY <1>1, <1>2, <1>3, WholeParts

LEMMA EntriesApart ==
  ASSUME NEW s, Readable(s), NEW j \in Entries(s), NEW k \in Entries(s),
         NEW i \in Start(s, j) .. j, i \in Start(s, k) .. k
  PROVE  j = k
<1>1. s[i].part = j - i + 1 /\ s[i].part = k - i + 1
  BY EntryFacts, PartsOf
<1>2. j \in Nat /\ k \in Nat /\ i \in Int
  BY EntryFacts
<1> QED
  BY <1>1, <1>2

\* What a name leads to.
LEMMA ShownName ==
  ASSUME NEW s, Readable(s), NEW j \in Entries(s)
  PROVE  /\ EntryStart(s, 0, j) = Start(s, j)
         /\ Shown(s, 0, j) = s[j].of.name
<1>1. Start(s, j) \in 1 .. j /\ j \in Nat /\ Whole(s, Start(s, j), j) /\ s[j].of \in EntryRecord
  BY EntryFacts
<1>2. EntryStart(s, 0, j) = Start(s, j)
  BY <1>1 DEF EntryStart, Start
<1>3. Start(s, j) = j <=> s[j].of.name \notin DOMAIN Alias
  BY <1>1, SizeBounds, Constants DEF Start
<1> QED
  BY <1>1, <1>2, <1>3, EntryParts DEF Shown

LEMMA AnswersTo ==
  ASSUME NEW s, Readable(s), NEW j \in Entries(s), NEW n
  PROVE  Answers(s, j, n) <=> n \in {s[j].of.name, s[j].of.alias}
BY ShownName DEF Answers

-----------------------------------------------------------------------------
(***************************************************************************)
(* What the operations on a directory do to its entries.                   *)
(***************************************************************************)
SameEntries(s, t) ==
  Entries(t) = Entries(s) /\ \A k \in Entries(s) : t[k] = s[k]
OneMore(s, t, j, e) ==
  /\ j \notin Entries(s) /\ Entries(t) = Entries(s) \cup {j} /\ t[j] = Part(e, 1)
  /\ \A k \in Entries(s) : t[k] = s[k]
OneLess(s, t, j) ==
  /\ j \in Entries(s) /\ Entries(t) = Entries(s) \ {j}
  /\ \A k \in Entries(t) : t[k] = s[k]

\* A sequence of slots is readable when every slot is a mark or of an entry.
LEMMA ReadableBy ==
  ASSUME NEW t, t \in Seq(Slot), Len(t) % PerCluster = 0,
         \A i, k \in 1 .. Len(t) : t[i] = Last /\ i <= k => t[k] = Last,
         \A i \in 1 .. Len(t) : t[i] \notin {Last, Free} =>
           \E j \in i .. Len(t) : i >= Start(t, j) /\ Whole(t, Start(t, j), j)
  PROVE  Readable(t)
<1>1. Len(t) \in Nat
  OBVIOUS
<1>2. \A i \in 1 .. Len(t) : t[i] = Last => \A k \in i .. Len(t) : t[k] = Last
  BY <1>1
<1> QED
  BY <1>2 DEF Readable, Start

\* An entry whose slots are the same in another directory is whole there too.
LEMMA WholeElsewhere ==
  ASSUME NEW s, Readable(s), NEW j \in Entries(s), NEW t,
         \A k \in Start(s, j) .. j : t[k] = s[k]
  PROVE  Start(t, j) = Start(s, j) /\ Whole(t, Start(t, j), j)
<1>1. Start(s, j) \in 1 .. j /\ j \in Nat /\ Whole(s, Start(s, j), j)
  BY EntryFacts
<1>2. t[j] = s[j]
  BY <1>1
<1> QED
  BY <1>1, <1>2 DEF Start, Whole

LEMMA RemovedEntry ==
  ASSUME NEW s, Readable(s), NEW j \in Entries(s)
  PROVE  /\ Readable(Removed(s, j)) /\ Len(Removed(s, j)) = Len(s)
         /\ OneLess(s, Removed(s, j), j)
<1> DEFINE t == Removed(s, j)
<1>1. /\ Start(s, j) \in 1 .. j /\ j \in 1 .. Len(s) /\ j \in Nat /\ Len(s) \in Nat
      /\ EntryStart(s, 0, j) = Start(s, j) /\ s \in Seq(Slot)
      /\ \A k \in Start(s, j) .. j : s[k] = Part(s[j].of, j - k + 1)
  BY EntryFacts, ShownName, ReadableParts
<1>2. t = [i \in 1 .. Len(s) |-> IF i \in Start(s, j) .. j THEN Free ELSE s[i]]
  BY <1>1 DEF Removed
<1> HIDE DEF t
<1>3. t \in Seq(Slot) /\ Len(t) = Len(s)
  <2>1. \A i \in 1 .. Len(s) : t[i] \in Slot
    BY <1>1, <1>2, ReadableParts DEF Slot
  <2>2. t \in [1 .. Len(s) -> Slot]
    BY <1>2, <2>1
  <2> QED
    BY <2>2, <1>1
<1>4. \A i \in 1 .. Len(s) : i \notin Start(s, j) .. j => t[i] = s[i]
  BY <1>2
<1>5. \A i \in 1 .. Len(s) : i \in Start(s, j) .. j => t[i] = Free /\ s[i] # Last
  <2> SUFFICES ASSUME NEW i \in 1 .. Len(s), i \in Start(s, j) .. j  PROVE t[i] = Free /\ s[i] # Last
    OBVIOUS
  <2>1. s[i].part = j - i + 1
    BY <1>1, PartsOf
  <2> QED
    BY <2>1, <1>1, <1>2, Marks
<1>6. ASSUME NEW i \in Entries(s), i # j
      PROVE  i \in 1 .. Len(s) /\ \A k \in Start(s, i) .. i : t[k] = s[k]
  <2>1. i \in 1 .. Len(s) /\ i \in Nat /\ Start(s, i) \in 1 .. i
    BY <1>6, EntryFacts
  <2>2. ASSUME NEW k \in Start(s, i) .. i  PROVE t[k] = s[k]
    <3>1. k \notin Start(s, j) .. j
      BY <1>6, <2>2, EntriesApart
    <3>2. k \in 1 .. Len(s)
      BY <2>1, <1>1
    <3> QED
      BY <3>1, <3>2, <1>4
  <2> QED
    BY <2>1, <2>2
<1>7. Readable(t)
  <2>1. ASSUME NEW i \in 1 .. Len(t), NEW k \in 1 .. Len(t), t[i] = Last, i <= k  PROVE t[k] = Last
    <3>1. s[i] = Last
      BY <2>1, <1>3, <1>4, <1>5, Marks
    <3>2. s[k] = Last
      BY <3>1, <2>1, <1>3, ReadableParts
    <3> QED
      BY <3>2, <1>3, <1>4, <1>5
  <2>2. ASSUME NEW i \in 1 .. Len(t), t[i] \notin {Last, Free}
        PROVE  \E k \in i .. Len(t) : i >= Start(t, k) /\ Whole(t, Start(t, k), k)
    <3>1. i \in 1 .. Len(s) /\ i \notin Start(s, j) .. j /\ t[i] = s[i]
      BY <2>2, <1>3, <1>4, <1>5
    <3>2. PICK k \in i .. Len(s) : s[k].part = 1 /\ i \in Start(s, k) .. k
      BY <2>2, <3>1, SlotIsOfAnEntry
    <3>3. k \in Entries(s) /\ k # j
      BY <3>1, <3>2, EntriesAre, <1>1
    <3>4. Start(t, k) = Start(s, k) /\ Whole(t, Start(t, k), k)
      BY <3>3, <1>6, WholeElsewhere
    <3>5. i >= Start(t, k) /\ k \in i .. Len(t)
      BY <3>2, <3>4, <1>3, <3>3, EntryFacts
    <3> QED
      BY <3>4, <3>5
  <2> QED
    BY <2>1, <2>2, <1>3, ReadableBy, ReadableParts
<1>8. Entries(t) = Entries(s) \ {j}
  <2>1. ASSUME NEW i \in 1 .. Len(s)  PROVE t[i].part = 1 <=> s[i].part = 1 /\ i # j
    <3>1. CASE i \in Start(s, j) .. j
      <4>1. t[i].part = 0 /\ s[i].part = j - i + 1
        BY <3>1, <1>5, <1>1, Marks, PartsOf
      <4> QED
        BY <4>1, <1>1
    <3>2. CASE i \notin Start(s, j) .. j
      <4>1. i # j
        BY <3>2, <1>1
      <4> QED
        BY <4>1, <3>2, <1>4
    <3> QED
      BY <3>1, <3>2
  <2> QED
    BY <2>1, <1>3, <1>7, EntriesAre
<1>9. \A k \in Entries(t) : t[k] = s[k]
  <2> TAKE k \in Entries(t)
  <2>1. k \in Entries(s) /\ k # j
    BY <1>8
  <2> QED
    BY <2>1, <1>6, EntryFacts
<1> QED
  BY <1>3, <1>7, <1>8, <1>9 DEF OneLess, t

\* A directory that has grown by some clusters, all of end marks.
Grown(s, t, k) ==
  /\ t \in Seq(Slot) /\ Len(t) = Len(s) + k * PerCluster
  /\ \A i \in 1 .. Len(t) : t[i] = IF i <= Len(s) THEN s[i] ELSE Last

LEMMA GrowingIs ==
  ASSUME NEW s, Readable(s), NEW k \in Nat
  PROVE  Grown(s, s \o Blank(k * PerCluster), k)
<1> DEFINE n == k * PerCluster
           t == s \o Blank(n)
<1>1. n \in Nat
  BY Constants
<1> HIDE DEF n
<1>2. Blank(n) \in Seq(Slot) /\ Len(Blank(n)) = n /\ \A i \in 1 .. n : Blank(n)[i] = Last
  <2>1. Last \in Slot
    BY DEF Slot
  <2>2. Blank(n) \in [1 .. n -> Slot]
    BY <2>1 DEF Blank
  <2> QED
    BY <1>1, <2>2 DEF Blank
<1>3. s \in Seq(Slot) /\ Len(s) \in Nat
  BY ReadableParts
<1>4. t \in Seq(Slot) /\ Len(t) = Len(s) + n
  BY <1>1, <1>2, <1>3
<1>5. ASSUME NEW i \in 1 .. Len(t)  PROVE t[i] = IF i <= Len(s) THEN s[i] ELSE Last
  <2>1. CASE i <= Len(s)
    BY <2>1, <1>2, <1>3, <1>4
  <2>2. CASE ~(i <= Len(s))
    <3>1. i - Len(s) \in 1 .. n
      BY <2>2, <1>1, <1>3, <1>4
    <3>2. t[i] = Blank(n)[i - Len(s)]
      BY <2>2, <1>2, <1>3, <1>4
    <3> QED
      BY <2>2, <3>1, <3>2, <1>2
  <2> QED
    BY <2>1, <2>2
<1> QED
  BY <1>4, <1>5 DEF Grown, n

LEMMA GrownDirectory ==
  ASSUME NEW s, Readable(s), NEW t, NEW k \in Nat, Grown(s, t, k)
  PROVE  Readable(t) /\ SameEntries(s, t)
<1>1. s \in Seq(Slot) /\ t \in Seq(Slot) /\ Len(s) \in Nat /\ Len(t) \in Nat /\ Len(s) <= Len(t)
  <2>1. k * PerCluster \in Nat
    BY Constants
  <2> QED
    BY <2>1, ReadableParts DEF Grown
<1>2. Len(t) % PerCluster = 0
  <2>1. Len(t) = Len(s) + k * PerCluster /\ Len(s) % PerCluster = 0
    BY ReadableParts DEF Grown
  <2>2. Len(s) = (Len(s) \div PerCluster) * PerCluster /\ Len(s) \div PerCluster \in Nat
    BY <2>1, <1>1, Constants
  <2>3. Len(t) = (Len(s) \div PerCluster + k) * PerCluster
    BY <2>1, <2>2, Constants
  <2> QED
    BY <2>2, <2>3, Constants
<1>3. /\ \A i \in 1 .. Len(s) : i \in 1 .. Len(t) /\ t[i] = s[i]
      /\ \A i \in 1 .. Len(t) : i \notin 1 .. Len(s) => t[i] = Last
  BY <1>1 DEF Grown
<1>4. ASSUME NEW i \in 1 .. Len(t), NEW j \in 1 .. Len(t), t[i] = Last, i <= j  PROVE t[j] = Last
  <2>1. CASE j \in 1 .. Len(s)
    <3>1. i \in 1 .. Len(s) /\ s[i] = Last
      BY <2>1, <1>4, <1>3, <1>1
    <3> QED
      BY <3>1, <2>1, <1>4, <1>3, ReadableParts
  <2>2. CASE j \notin 1 .. Len(s)
    BY <2>2, <1>3
  <2> QED
    BY <2>1, <2>2
<1>5. ASSUME NEW j \in Entries(s)
      PROVE  j \in 1 .. Len(s) /\ \A i \in Start(s, j) .. j : t[i] = s[i]
  <2>1. j \in 1 .. Len(s) /\ Start(s, j) \in 1 .. j
    BY EntryFacts
  <2> QED
    BY <2>1, <1>1, <1>3
<1>6. ASSUME NEW i \in 1 .. Len(t), t[i] \notin {Last, Free}
      PROVE  \E j \in i .. Len(t) : i >= Start(t, j) /\ Whole(t, Start(t, j), j)
  <2>1. i \in 1 .. Len(s) /\ s[i] = t[i]
    BY <1>3, <1>6
  <2>2. PICK j \in i .. Len(s) : s[j].part = 1 /\ i \in Start(s, j) .. j
    BY <1>6, <2>1, SlotIsOfAnEntry
  <2>3. j \in Entries(s)
    BY <2>1, <2>2, EntriesAre
  <2>4. Start(t, j) = Start(s, j) /\ Whole(t, Start(t, j), j)
    BY <2>3, <1>5, WholeElsewhere
  <2>5. i >= Start(t, j) /\ j \in i .. Len(t)
    BY <2>2, <2>3, <2>4, <1>1, EntryFacts
  <2> QED
    BY <2>4, <2>5
<1>7. Readable(t)
  BY <1>1, <1>2, <1>4, <1>6, ReadableBy
<1>8. Entries(t) = Entries(s)
  <2>1. \A i \in 1 .. Len(t) : t[i].part = 1 => i \in 1 .. Len(s)
    BY <1>3, Marks
  <2> QED
    BY <2>1, <1>3, <1>7, EntriesAre
<1> QED
  BY <1>7, <1>8, <1>3, EntriesAre DEF SameEntries

\* The gap that is found: unused slots, with no end mark before them.
Gap(t, start, n) ==
  /\ start \in Nat \ {0} /\ start + n - 1 <= Len(t)
  /\ \A i \in start .. start + n - 1 : t[i] \in {Last, Free}
  /\ \A i \in 1 .. start - 1 : t[i] # Last

LEMMA EndMarkIs ==
  ASSUME NEW s, Readable(s)
  PROVE  /\ EndMark(s) \in 1 .. Len(s) + 1
         /\ \A i \in 1 .. Len(s) : s[i] = Last <=> i >= EndMark(s)
<1> DEFINE ms == {i \in 1 .. Len(s) : s[i] = Last}
<1>1. Len(s) \in Nat
  BY ReadableParts
<1>2. CASE ms = {}
  <2>1. EndMark(s) = Len(s) + 1
    BY <1>2 DEF EndMark
  <2> QED
    BY <1>1, <1>2, <2>1
<1>3. CASE ms # {}
  <2>1. EndMark(s) = Min(ms)
    BY <1>3 DEF EndMark
  <2>2. ms \in SUBSET Nat
    BY <1>1
  <2>3. EndMark(s) \in ms /\ \A i \in ms : EndMark(s) <= i
    BY <1>3, <2>1, <2>2, MinOf
  <2>4. EndMark(s) \in 1 .. Len(s) /\ s[EndMark(s)] = Last
    BY <2>3
  <2> HIDE DEF ms
  <2>5. ASSUME NEW i \in 1 .. Len(s)  PROVE s[i] = Last <=> i >= EndMark(s)
    <3>1. s[i] = Last => i >= EndMark(s)
      <4>1. s[i] = Last => i \in ms
        BY DEF ms
      <4> QED
        BY <4>1, <2>3, <2>4
    <3>2. i >= EndMark(s) => s[i] = Last
      BY <2>4, ReadableParts
    <3> QED
      BY <3>1, <3>2
  <2> QED
    BY <2>4, <2>5, <1>1
<1> QED
  BY <1>2, <1>3

LEMMA FreeBeforeIs ==
  ASSUME NEW s, NEW e \in Nat \ {0}
  PROVE  /\ FreeBefore(s, e) \in 1 .. e
         /\ \A k \in FreeBefore(s, e) .. e - 1 : s[k] = Free
<1> DEFINE S == {i \in 1 .. e : \A k \in i .. e - 1 : s[k] = Free}
<1>1. S \in SUBSET Nat /\ e \in S
  OBVIOUS
<1>2. Min(S) \in S
  BY <1>1, MinOf
<1> QED
  BY <1>2 DEF FreeBefore

LEMMA GapFound ==
  ASSUME NEW s, Readable(s), NEW n \in Nat \ {0}, NEW room \in Nat
  PROVE  LET g == FindEntryGap(s, n, room) IN
         /\ g.ok \in BOOLEAN /\ g.taken \in 0 .. room
         /\ Grown(s, g.slots, g.taken)
         /\ g.ok => Gap(g.slots, g.start, n)
<1> DEFINE end == EndMark(s)
           runs == {i \in 1 .. end - 1 : i + n - 1 < end /\ Run(s, i, n)}
           start == FreeBefore(s, end)
           more == start + n - Len(s)
           wanted == IF more <= 0 THEN 0 ELSE (more + PerCluster - 1) \div PerCluster
           taken == IF wanted <= room THEN wanted ELSE room
           grown == s \o Blank(taken * PerCluster)
           t == [i \in 1 .. Len(grown) |-> IF i >= end THEN Last ELSE grown[i]]
           g == FindEntryGap(s, n, room)
<1>0. g = IF runs # {} THEN [ok |-> TRUE, start |-> Min(runs), slots |-> s, taken |-> 0]
          ELSE [ok |-> taken = wanted, start |-> start, taken |-> taken, slots |-> t]
  BY DEF FindEntryGap
<1>1. s \in Seq(Slot) /\ Len(s) \in Nat
  BY ReadableParts
<1>2. end \in 1 .. Len(s) + 1 /\ \A i \in 1 .. Len(s) : s[i] = Last <=> i >= end
  BY EndMarkIs
<1>3. start \in 1 .. end /\ \A k \in start .. end - 1 : s[k] = Free
  BY <1>1, <1>2, FreeBeforeIs
<1>4. CASE runs # {}
  <2>1. g = [ok |-> TRUE, start |-> Min(runs), slots |-> s, taken |-> 0]
    BY <1>0, <1>4
  <2>2. runs \in SUBSET Nat
    BY <1>1, <1>2
  <2>3. Min(runs) \in runs
    BY <1>4, <2>2, MinOf
  <2>4. PICK i \in 1 .. end - 1 : i = Min(runs) /\ i + n - 1 < end /\ Run(s, i, n)
    BY <2>3
  <2>5. Gap(s, i, n)
    <3>1. i \in Nat \ {0} /\ i + n - 1 <= Len(s)
      BY <2>4, <1>1, <1>2
    <3>2. \A k \in i .. i + n - 1 : s[k] \in {Last, Free}
      BY <2>4 DEF Run
    <3>3. \A k \in 1 .. i - 1 : s[k] # Last
      BY <2>4, <1>1, <1>2
    <3> QED
      BY <3>1, <3>2, <3>3 DEF Gap
  <2>6. Grown(s, s, 0)
    <3>1. Len(s) = Len(s) + 0 * PerCluster
      BY <1>1, Constants
    <3> QED
      BY <3>1, <1>1 DEF Grown
  <2> QED
    BY <2>1, <2>4, <2>5, <2>6
<1>5. CASE runs = {}
  <2>1. g = [ok |-> taken = wanted, start |-> start, taken |-> taken, slots |-> t]
    BY <1>0, <1>5
  <2>2. start \in Nat /\ more \in Int
    BY <1>1, <1>2, <1>3
  <2>3. wanted \in Nat /\ (wanted * PerCluster >= more)
    <3> HIDE DEF more, start
    <3>1. CASE more <= 0
      BY <3>1, <2>2, Constants
    <3>2. CASE more > 0
      <4> DEFINE x == more + PerCluster - 1
      <4>1. x \in Nat /\ x >= more + PerCluster - 1 /\ wanted = x \div PerCluster
        BY <3>2, <2>2, Constants
      <4> HIDE DEF x, wanted
      <4>2. x \div PerCluster \in Nat /\ x < (x \div PerCluster) * PerCluster + PerCluster
        BY <4>1, Constants
      <4>3. (x \div PerCluster) * PerCluster \in Nat
        BY <4>2, Constants
      <4> QED
        BY <4>1, <4>2, <4>3, <2>2, Constants
    <3> QED
      BY <3>1, <3>2, <2>2
  <2> HIDE DEF wanted
  <2>4. taken \in 0 .. room
    BY <2>3
  <2>5. Grown(s, grown, taken)
    BY <2>4, GrowingIs
  <2> HIDE DEF taken, grown
  <2>6. Len(grown) = Len(s) + taken * PerCluster /\ taken * PerCluster \in Nat /\ grown \in Seq(Slot)
    BY <2>4, <2>5, Constants DEF Grown
  <2>7. t = grown
    <3>1. \A i \in 1 .. Len(grown) : i >= end => grown[i] = Last
      <4> SUFFICES ASSUME NEW i \in 1 .. Len(grown), i >= end  PROVE grown[i] = Last
        OBVIOUS
      <4>1. grown[i] = IF i <= Len(s) THEN s[i] ELSE Last
        BY <2>5 DEF Grown
      <4>2. i <= Len(s) => i \in 1 .. Len(s)
        BY <1>1
      <4> QED
        BY <4>1, <4>2, <1>2
    <3>2. t = [i \in 1 .. Len(grown) |-> grown[i]]
      BY <3>1
    <3> QED
      BY <3>2, <2>6
  <2>8. ASSUME taken = wanted  PROVE Gap(grown, start, n)
    <3>1. Len(grown) >= start + n
      <4>1. taken * PerCluster >= start + n - Len(s)
        BY <2>3, <2>8
      <4> QED
        BY <4>1, <2>6, <1>1, <2>2
    <3>2. \A i \in start .. start + n - 1 : grown[i] \in {Last, Free}
      <4> SUFFICES ASSUME NEW i \in start .. start + n - 1  PROVE grown[i] \in {Last, Free}
        OBVIOUS
      <4>1. i \in 1 .. Len(grown) /\ i \in Nat
        BY <3>1, <2>2, <2>6, <1>1, <1>3
      <4>2. grown[i] = IF i <= Len(s) THEN s[i] ELSE Last
        BY <4>1, <2>5 DEF Grown
      <4>3. i <= Len(s) => s[i] \in {Last, Free}
        <5>1. CASE i >= end
          BY <5>1, <4>1, <1>2
        <5>2. CASE i < end
          <6>1. i \in start .. end - 1
            BY <5>2, <4>1, <2>2, <1>2, <1>1
          <6> QED
            BY <6>1, <1>3
        <5> QED
          BY <5>1, <5>2, <4>1, <1>1, <1>2
      <4> QED
        BY <4>2, <4>3
    <3>3. \A i \in 1 .. start - 1 : grown[i] # Last
      <4> SUFFICES ASSUME NEW i \in 1 .. start - 1  PROVE grown[i] # Last
        OBVIOUS
      <4>1. i \in 1 .. Len(s) /\ i < end /\ i \in 1 .. Len(grown) /\ i <= Len(s)
        BY <1>1, <1>2, <1>3, <2>6
      <4> QED
        BY <4>1, <2>5, <1>2 DEF Grown
    <3> QED
      BY <3>1, <3>2, <3>3, <2>2, <2>6, <1>1, <1>3 DEF Gap
  <2>9. /\ g.ok = (taken = wanted) /\ g.start = start /\ g.taken = taken /\ g.slots = grown
        /\ g.ok \in BOOLEAN
    BY <2>1, <2>7
  <2> HIDE DEF g, start, end
  <2>10. g.ok => Gap(g.slots, g.start, n)
    BY <2>8, <2>9
  <2>11. g.taken \in 0 .. room /\ Grown(s, g.slots, g.taken)
    BY <2>4, <2>5, <2>9
  <2> QED
    BY <2>9, <2>10, <2>11 DEF g
<1> QED
  BY <1>4, <1>5

LEMMA Written ==
  ASSUME NEW t, Readable(t), NEW e \in EntryRecord, NEW start, Gap(t, start, Size(e.name)),
         NEW u, u = [i \in 1 .. Len(t) |-> IF i \in start .. start + Size(e.name) - 1
                                           THEN Part(e, Size(e.name) - (i - start)) ELSE t[i]]
  PROVE  /\ Readable(u) /\ Len(u) = Len(t)
         /\ OneMore(t, u, start + Size(e.name) - 1, e)
<1> DEFINE n == Size(e.name)
           j == start + n - 1
<1>1. /\ n \in 1 .. LongSlots /\ n \in Nat /\ start \in Nat \ {0} /\ j \in 1 .. Len(t) /\ Len(t) \in Nat
      /\ start <= j /\ start = j - n + 1 /\ t \in Seq(Slot)
  BY SizeBounds, Constants, ReadableParts DEF Gap
<1>2. u = [i \in 1 .. Len(t) |-> IF i \in start .. j THEN Part(e, n - (i - start)) ELSE t[i]]
  OBVIOUS
<1>3. /\ \A i \in start .. j : t[i] \in {Last, Free}
      /\ \A i \in 1 .. start - 1 : t[i] # Last
  BY DEF Gap
<1> HIDE DEF n, j
<1>4. \A i \in 1 .. Len(t) : i \notin start .. j => u[i] = t[i]
  BY <1>2
<1>5. \A i \in start .. j : /\ i \in 1 .. Len(t) /\ u[i] = Part(e, j - i + 1)
                            /\ u[i] \in Slot /\ u[i] \notin {Last, Free}
  <2> SUFFICES ASSUME NEW i \in start .. j
               PROVE  /\ i \in 1 .. Len(t) /\ u[i] = Part(e, j - i + 1)
                      /\ u[i] \in Slot /\ u[i] \notin {Last, Free}
    OBVIOUS
  <2>1. i \in 1 .. Len(t) /\ n - (i - start) = j - i + 1 /\ j - i + 1 \in 1 .. LongSlots
    BY <1>1, Constants
  <2>2. u[i] = Part(e, j - i + 1)
    BY <2>1, <1>2
  <2>3. u[i].part # 0
    BY <2>1, <2>2, PartsOf
  <2>4. u[i] \in Slot
    BY <2>1, <2>2 DEF Slot, Part
  <2> QED
    BY <2>1, <2>2, <2>3, <2>4, Marks
<1>6. u \in Seq(Slot) /\ Len(u) = Len(t)
  <2>1. \A i \in 1 .. Len(t) : u[i] \in Slot
    BY <1>4, <1>5, ReadableParts
  <2>2. u \in [1 .. Len(t) -> Slot]
    BY <1>2, <2>1
  <2> QED
    BY <2>2, <1>1
<1>7. u[j] = Part(e, 1) /\ j \in start .. j
  <2>1. j \in start .. j /\ j - j + 1 = 1
    BY <1>1
  <2> QED
    BY <2>1, <1>5
<1>8. Start(u, j) = start /\ Whole(u, start, j)
  <2>1. u[j].part = 1 /\ u[j].of = e
    BY <1>7, PartsOf
  <2>2. Start(u, j) = start
    BY <2>1, <1>1 DEF Start, n
  <2>3. start >= 1 /\ j - start + 1 = Size(u[j].of.name)
    <3>1. start >= 1 /\ j - start + 1 = n
      BY <1>1
    <3> QED
      BY <2>1, <3>1 DEF n
  <2>4. \A k \in start .. j : u[k] = Part(u[j].of, j - k + 1)
    BY <2>1, <1>5
  <2> QED
    BY <2>1, <2>2, <2>3, <2>4 DEF Whole
<1>9. ASSUME NEW k \in Entries(t)
      PROVE  k \in 1 .. Len(t) /\ \A i \in Start(t, k) .. k : u[i] = t[i]
  <2>1. /\ k \in 1 .. Len(t) /\ k \in Nat /\ Start(t, k) \in 1 .. k
        /\ \A i \in Start(t, k) .. k : t[i] = Part(t[k].of, k - i + 1)
    BY EntryFacts
  <2>2. ASSUME NEW i \in Start(t, k) .. k  PROVE u[i] = t[i]
    <3>1. i \in 1 .. Len(t) /\ t[i].part = k - i + 1 /\ k - i + 1 >= 1
      BY <2>1, <1>1, PartsOf
    <3>2. i \notin start .. j
      BY <3>1, <1>3, Marks
    <3> QED
      BY <3>1, <3>2, <1>4
  <2> QED
    BY <2>1, <2>2
<1>10. ASSUME NEW i \in 1 .. Len(u), NEW k \in 1 .. Len(u), u[i] = Last, i <= k  PROVE u[k] = Last
  <2>1. i \notin start .. j /\ t[i] = Last
    BY <1>4, <1>5, <1>6, <1>10
  <2>2. ~(i \in 1 .. start - 1)
    BY <2>1, <1>3
  <2>3. k \notin start .. j
    BY <2>1, <2>2, <1>1, <1>6, <1>10
  <2>4. t[k] = Last
    BY <2>1, <1>6, <1>10, ReadableParts
  <2> QED
    BY <2>3, <2>4, <1>4, <1>6
<1>11. ASSUME NEW i \in 1 .. Len(u), u[i] \notin {Last, Free}
       PROVE  \E k \in i .. Len(u) : i >= Start(u, k) /\ Whole(u, Start(u, k), k)
  <2>1. CASE i \in start .. j
    <3>1. j \in i .. Len(u) /\ i >= Start(u, j)
      BY <2>1, <1>1, <1>6, <1>8
    <3> QED
      BY <3>1, <1>8
  <2>2. CASE i \notin start .. j
    <3>1. i \in 1 .. Len(t) /\ t[i] = u[i]
      BY <2>2, <1>4, <1>6
    <3>2. PICK k \in i .. Len(t) : t[k].part = 1 /\ i \in Start(t, k) .. k
      BY <3>1, <1>11, SlotIsOfAnEntry
    <3>3. k \in Entries(t)
      BY <3>1, <3>2, EntriesAre, <1>1
    <3>4. Start(u, k) = Start(t, k) /\ Whole(u, Start(u, k), k)
      BY <3>3, <1>9, WholeElsewhere
    <3>5. i >= Start(u, k) /\ k \in i .. Len(u)
      BY <3>2, <3>3, <3>4, <1>6, EntryFacts
    <3> QED
      BY <3>4, <3>5
  <2> QED
    BY <2>1, <2>2
<1>12. Readable(u)
  BY <1>6, <1>10, <1>11, ReadableBy, ReadableParts
<1>13. ASSUME NEW i \in 1 .. Len(t)  PROVE u[i].part = 1 <=> t[i].part = 1 \/ i = j
  <2>1. CASE i \in start .. j
    <3>1. u[i].part = j - i + 1 /\ t[i].part = 0
      BY <2>1, <1>3, <1>5, Marks, PartsOf
    <3> QED
      BY <3>1, <2>1, <1>1
  <2>2. CASE i \notin start .. j
    BY <2>2, <1>4, <1>7
  <2> QED
    BY <2>1, <2>2
<1>14. j \notin Entries(t)
  BY <1>3, <1>7, Marks, EntriesAre
<1>15. Entries(u) = Entries(t) \cup {j}
  BY <1>1, <1>6, <1>12, <1>13, EntriesAre
<1>16. \A k \in Entries(t) : u[k] = t[k]
  <2> TAKE k \in Entries(t)
  <2>1. Start(t, k) \in 1 .. k /\ k \in Nat
    BY EntryFacts
  <2>2. k \in Start(t, k) .. k
    BY <2>1
  <2> QED
    BY <2>2, <1>9
<1> QED
  BY <1>6, <1>7, <1>12, <1>14, <1>15, <1>16 DEF OneMore, j, n

LEMMA AddedEntry ==
  ASSUME NEW s, Readable(s), NEW e \in EntryRecord, NEW room \in Nat
  PROVE  LET a == Added(s, e, room) IN
         /\ a.ok \in BOOLEAN /\ a.taken \in 0 .. room
         /\ Readable(a.slots) /\ Len(a.slots) = Len(s) + a.taken * PerCluster
         /\ ~a.ok => SameEntries(s, a.slots)
         /\ a.ok => \E j : OneMore(s, a.slots, j, e)
<1> DEFINE n == Size(e.name)
           g == FindEntryGap(s, n, room)
           u == [i \in 1 .. Len(g.slots) |-> IF i \in g.start .. g.start + n - 1
                                             THEN Part(e, n - (i - g.start)) ELSE g.slots[i]]
           a == Added(s, e, room)
<1>1. a.ok = g.ok /\ a.taken = g.taken /\ a.slots = IF g.ok THEN u ELSE g.slots
  BY DEF Added
<1>2. n \in Nat \ {0}
  BY SizeBounds
<1>3. /\ g.ok \in BOOLEAN /\ g.taken \in 0 .. room /\ Grown(s, g.slots, g.taken)
      /\ g.ok => Gap(g.slots, g.start, n)
  BY <1>2, GapFound
<1> HIDE DEF g, a
<1>4. Readable(g.slots) /\ SameEntries(s, g.slots) /\ Len(g.slots) = Len(s) + g.taken * PerCluster
  <2>1. g.taken \in Nat
    BY <1>3
  <2> QED
    BY <2>1, <1>3, GrownDirectory DEF Grown
<1>5. CASE ~g.ok
  BY <1>1, <1>3, <1>4, <1>5 DEF a
<1>6. CASE g.ok
  <2> DEFINE j == g.start + n - 1
  <2>1. a.slots = u
    BY <1>1, <1>6
  <2>2. Readable(a.slots) /\ Len(a.slots) = Len(g.slots) /\ OneMore(g.slots, a.slots, j, e)
    BY <2>1, <1>3, <1>4, <1>6, Written
  <2> HIDE DEF j
  <2>3. OneMore(s, a.slots, j, e)
    <3>1. Entries(g.slots) = Entries(s) /\ \A k \in Entries(s) : g.slots[k] = s[k]
      BY <1>4 DEF SameEntries
    <3> QED
      BY <3>1, <2>2 DEF OneMore
  <2>4. \E k : OneMore(s, a.slots, k, e)
    BY <2>3
  <2> QED
    BY <1>1, <1>3, <1>4, <1>6, <2>2, <2>4 DEF a
<1> QED
  BY <1>3, <1>5, <1>6

\* What an entry answers to, and directories of which no two do to one name.
NamesOf(e) == {e.name, e.alias}
Distinct(s) == \A j, k \in Entries(s) : j # k => NamesOf(s[j].of) \cap NamesOf(s[k].of) = {}

LEMMA UnusedNames ==
  ASSUME NEW s, Readable(s), NEW n, ~EntryExists(s, n)
  PROVE  \A j \in Entries(s) : n \notin NamesOf(s[j].of)
<1> TAKE j \in Entries(s)
<1> QED
  BY AnswersTo DEF EntryExists, NamesOf

LEMMA AliasGiven ==
  ASSUME NEW s, Readable(s), NEW n \in Name, ~EntryExists(s, n), NEW a \in Aliases(s, n),
         NEW sub \in Folder \cup {NoFolder}
  PROVE  /\ Entry(n, a, sub) \in EntryRecord
         /\ \A j \in Entries(s) : NamesOf(Entry(n, a, sub)) \cap NamesOf(s[j].of) = {}
<1>1. Entry(n, a, sub).name = n /\ Entry(n, a, sub).alias = a
  BY DEF Entry
<1>2. CASE n \notin DOMAIN Alias
  <2>1. a = n
    BY <1>2 DEF Aliases
  <2>2. Entry(n, a, sub) \in EntryRecord
    BY <1>2, <2>1 DEF Entry, EntryRecord
  <2> QED
    BY <2>1, <2>2, <1>1, UnusedNames DEF NamesOf
<1>3. CASE n \in DOMAIN Alias
  <2> DEFINE is == {i \in DOMAIN Alias[n] : AliasUnused(s, Alias[n][i])}
  <2>1. is # {} /\ a = Alias[n][Min(is)]
    BY <1>3 DEF Aliases
  <2>2. Alias[n] \in Seq((Name \ DOMAIN Alias) \cup {n})
    BY <1>3, TreeAssumption
  <2>3. is \in SUBSET Nat
    BY <2>2
  <2>4. Min(is) \in is
    BY <2>1, <2>3, MinOf
  <2>5. Min(is) \in DOMAIN Alias[n] /\ ~EntryExists(s, a)
    BY <2>1, <2>4 DEF AliasUnused
  <2>6. a \in Name /\ a \in Range(Alias[n])
    <3>1. PICK i \in DOMAIN Alias[n] : a = Alias[n][i]
      BY <2>1, <2>5
    <3>2. a \in (Name \ DOMAIN Alias) \cup {n}
      BY <2>2, <3>1
    <3> QED
      BY <3>1, <3>2 DEF Range
  <2>7. Entry(n, a, sub) \in EntryRecord
    BY <1>3, <2>6 DEF Entry, EntryRecord
  <2> QED
    BY <2>5, <2>7, <1>1, UnusedNames DEF NamesOf
<1> QED
  BY <1>2, <1>3

LEMMA AddEntryIs ==
  ASSUME NEW d, Readable(slots[d]), NEW n \in Name, NEW sub \in Folder \cup {NoFolder},
         NEW room \in Nat
  PROVE  LET r == AddEntry(d, n, sub, room) IN
         /\ r.ok \in BOOLEAN /\ r.taken \in 0 .. room
         /\ Readable(r.slots) /\ Len(r.slots) = Len(slots[d]) + r.taken * PerCluster
         /\ ~r.ok => SameEntries(slots[d], r.slots)
         /\ r.ok => \E j, e : /\ OneMore(slots[d], r.slots, j, e)
                              /\ e \in EntryRecord /\ e.name = n /\ e.sub = sub
                              /\ \A k \in Entries(slots[d]) : NamesOf(e) \cap NamesOf(slots[d][k].of) = {}
<1> DEFINE s == slots[d]
           r == AddEntry(d, n, sub, room)
<1>1. CASE EntryExists(s, n) \/ Aliases(s, n) = {}
  <2>1. r = [ok |-> FALSE, taken |-> 0, slots |-> s]
    BY <1>1 DEF AddEntry, Refused
  <2>2. Len(s) \in Nat /\ Len(s) = Len(s) + 0 * PerCluster
    <3>1. Len(s) \in Nat
      BY ReadableParts
    <3> HIDE DEF s
    <3> QED
      BY <3>1, Constants
  <2>3. SameEntries(s, s)
    BY DEF SameEntries
  <2> HIDE DEF s
  <2>4. Readable(s)
    BY DEF s
  <2> QED
    BY <2>1, <2>2, <2>3, <2>4 DEF s
<1>2. CASE ~(EntryExists(s, n) \/ Aliases(s, n) = {})
  <2>1. PICK a \in Aliases(s, n) : r = Added(s, Entry(n, a, sub), room)
    BY <1>2 DEF AddEntry
  <2> DEFINE e == Entry(n, a, sub)
  <2>2. e \in EntryRecord /\ \A k \in Entries(s) : NamesOf(e) \cap NamesOf(s[k].of) = {}
    BY <1>2, AliasGiven
  <2>3. e.name = n /\ e.sub = sub /\ r = Added(s, e, room)
    BY <2>1 DEF Entry
  <2> HIDE DEF e, r
  <2>4. /\ r.ok \in BOOLEAN /\ r.taken \in 0 .. room
        /\ Readable(r.slots) /\ Len(r.slots) = Len(s) + r.taken * PerCluster
        /\ ~r.ok => SameEntries(s, r.slots)
        /\ r.ok => \E j : OneMore(s, r.slots, j, e)
    BY <2>2, <2>3, AddedEntry
  <2>5. r.ok => \E j, x : /\ OneMore(s, r.slots, j, x)
                          /\ x \in EntryRecord /\ x.name = n /\ x.sub = sub
                          /\ \A k \in Entries(s) : NamesOf(x) \cap NamesOf(s[k].of) = {}
    BY <2>2, <2>3, <2>4
  <2> QED
    BY <2>4, <2>5 DEF r
<1> QED
  BY <1>1, <1>2

\* Names stay apart.
LEMMA DistinctSame ==
  ASSUME NEW s, NEW t, SameEntries(s, t), Distinct(s)  PROVE Distinct(t)
BY DEF SameEntries, Distinct

LEMMA DistinctLess ==
  ASSUME NEW s, NEW t, NEW j, OneLess(s, t, j), Distinct(s)  PROVE Distinct(t)
BY DEF OneLess, Distinct

LEMMA DistinctMore ==
  ASSUME NEW s, NEW t, NEW j, NEW e, OneMore(s, t, j, e), Distinct(s),
         \A k \in Entries(s) : NamesOf(e) \cap NamesOf(s[k].of) = {}
  PROVE  Distinct(t)
<1>1. t[j].of = e
  BY PartsOf DEF OneMore
<1>2. ASSUME NEW i \in Entries(t), NEW k \in Entries(t), i # k
      PROVE  NamesOf(t[i].of) \cap NamesOf(t[k].of) = {}
  <2>1. CASE i = j
    BY <2>1, <1>1, <1>2 DEF OneMore
  <2>2. CASE k = j
    <3>1. NamesOf(e) \cap NamesOf(s[i].of) = {} /\ t[i] = s[i]
      BY <2>2, <1>2 DEF OneMore
    <3> QED
      BY <3>1, <2>2, <1>1
  <2>3. CASE i # j /\ k # j
    BY <2>3, <1>2 DEF OneMore, Distinct
  <2> QED
    BY <2>1, <2>2, <2>3
<1> QED
  BY <1>2 DEF Distinct

\* The names of a directory without entries, and of a new one.
LEMMA BlankDirectory ==
  ASSUME NEW k \in Nat
  PROVE  /\ Readable(Blank(k * PerCluster)) /\ Entries(Blank(k * PerCluster)) = {}
         /\ Distinct(Blank(k * PerCluster)) /\ Len(Blank(k * PerCluster)) = k * PerCluster
<1>1. Readable(<< >>)
  <2>1. 0 % PerCluster = 0
    BY Constants
  <2> QED
    BY <2>1 DEF Readable
<1>2. Entries(<< >>) = {}
  BY <1>1, EntriesAre
<1> DEFINE t == << >> \o Blank(k * PerCluster)
<1>3. k * PerCluster \in Nat
  BY Constants
<1>4. Blank(k * PerCluster) \in Seq({Last})
  BY <1>3 DEF Blank
<1>5. t = Blank(k * PerCluster)
  BY <1>3, <1>4
<1>6. Grown(<< >>, t, k)
  BY <1>1, GrowingIs
<1>7. Readable(t) /\ SameEntries(<< >>, t)
  BY <1>1, <1>6, GrownDirectory
<1>8. Len(Blank(k * PerCluster)) = k * PerCluster
  BY <1>3 DEF Blank
<1> QED
  BY <1>2, <1>5, <1>7, <1>8 DEF SameEntries, Distinct

-----------------------------------------------------------------------------
(***************************************************************************)
(* What can be reached from a directory, and how it changes with the       *)
(* directories that entries lead to.                                       *)
(***************************************************************************)
Graph == [Folder -> SUBSET Folder]
ClosedIn(kids, S) == \A d \in S : kids[d] \subseteq S
Reach(kids, ds) == {x \in Folder : \A S \in SUBSET Folder : ds \subseteq S /\ ClosedIn(kids, S) => x \in S}

LEMMA ReachIs ==
  ASSUME NEW kids \in Graph, NEW ds \in SUBSET Folder
  PROVE  /\ ds \subseteq Reach(kids, ds) /\ Reach(kids, ds) \subseteq Folder
         /\ ClosedIn(kids, Reach(kids, ds))
<1>1. ds \subseteq Reach(kids, ds) /\ Reach(kids, ds) \subseteq Folder
  BY DEF Reach
<1>2. ASSUME NEW d \in Reach(kids, ds), NEW x \in kids[d]  PROVE x \in Reach(kids, ds)
  <2>1. x \in Folder
    BY <1>1, <1>2 DEF Graph
  <2>2. ASSUME NEW S \in SUBSET Folder, ds \subseteq S, ClosedIn(kids, S)  PROVE x \in S
    <3>1. d \in S
      BY <1>2, <2>2 DEF Reach
    <3> QED
      BY <3>1, <1>2, <2>2 DEF ClosedIn
  <2> QED
    BY <2>1, <2>2 DEF Reach
<1> QED
  BY <1>1, <1>2 DEF ClosedIn

LEMMA ReachIsLeast ==
  ASSUME NEW kids, NEW ds, NEW S \in SUBSET Folder, ds \subseteq S, ClosedIn(kids, S)
  PROVE  Reach(kids, ds) \subseteq S
BY DEF Reach

LEMMA ReachFrom ==
  ASSUME NEW kids, NEW r, NEW S, S \subseteq Folder, r \in S, ClosedIn(kids, S)
  PROVE  Reach(kids, {r}) \subseteq S
<1>1. S \in SUBSET Folder /\ {r} \subseteq S
  OBVIOUS
<1> QED
  BY <1>1, ReachIsLeast

\* A new leaf.
LEMMA LeafAdded ==
  ASSUME NEW kids \in Graph, NEW new \in Graph, NEW r \in Folder, NEW d \in Reach(kids, {r}),
         NEW x \in Folder, kids[x] = {},
         new[d] = kids[d] \cup {x}, \A q \in Folder \ {d} : new[q] = kids[q]
  PROVE  Reach(new, {r}) = Reach(kids, {r}) \cup {x}
<1> DEFINE old == Reach(kids, {r})
<1>1. old \subseteq Folder /\ r \in old /\ ClosedIn(kids, old)
  BY ReachIs
<1>2. Reach(new, {r}) \subseteq Folder /\ r \in Reach(new, {r}) /\ ClosedIn(new, Reach(new, {r}))
  BY ReachIs
<1> HIDE DEF old
<1>3. ClosedIn(new, old \cup {x})
  <2> SUFFICES ASSUME NEW q \in old \cup {x}  PROVE new[q] \subseteq old \cup {x}
    BY DEF ClosedIn
  <2>1. kids[q] \subseteq old
    BY <1>1 DEF ClosedIn
  <2>2. q \in Folder
    BY <1>1
  <2> QED
    BY <2>1, <2>2
<1>4. Reach(new, {r}) \subseteq old \cup {x}
  <2>1. old \cup {x} \subseteq Folder /\ r \in old \cup {x}
    BY <1>1
  <2> QED
    BY <2>1, <1>3, ReachFrom
<1>5. ClosedIn(kids, Reach(new, {r}))
  <2> SUFFICES ASSUME NEW q \in Reach(new, {r})  PROVE kids[q] \subseteq Reach(new, {r})
    BY DEF ClosedIn
  <2>1. new[q] \subseteq Reach(new, {r}) /\ q \in Folder
    BY <1>2 DEF ClosedIn
  <2> QED
    BY <2>1
<1>6. old \subseteq Reach(new, {r})
  BY <1>2, <1>5, ReachFrom DEF old
<1>7. x \in Reach(new, {r})
  <2>1. new[d] \subseteq Reach(new, {r})
    BY <1>2, <1>6 DEF ClosedIn, old
  <2> QED
    BY <2>1
<1> QED
  BY <1>4, <1>6, <1>7 DEF old

\* A leaf that only one directory leads to.
LEMMA LeafRemoved ==
  ASSUME NEW kids \in Graph, NEW new \in Graph, NEW r \in Folder, NEW p \in Folder,
         NEW x \in Folder, x # r, kids[x] = {},
         \A q \in Reach(kids, {r}) \ {p} : x \notin kids[q],
         new[p] = kids[p] \ {x}, \A q \in Folder \ {p} : new[q] = kids[q]
  PROVE  Reach(new, {r}) = Reach(kids, {r}) \ {x}
<1> DEFINE old == Reach(kids, {r})
<1>1. old \subseteq Folder /\ r \in old /\ ClosedIn(kids, old)
  BY ReachIs
<1>2. Reach(new, {r}) \subseteq Folder /\ r \in Reach(new, {r}) /\ ClosedIn(new, Reach(new, {r}))
  BY ReachIs
<1> HIDE DEF old
<1>3. ClosedIn(new, old \ {x})
  <2> SUFFICES ASSUME NEW q \in old \ {x}  PROVE new[q] \subseteq old \ {x}
    BY DEF ClosedIn
  <2>1. kids[q] \subseteq old /\ q \in Folder
    BY <1>1 DEF ClosedIn
  <2>2. q # p => x \notin kids[q]
    BY DEF old
  <2> QED
    BY <2>1, <2>2
<1>4. Reach(new, {r}) \subseteq old \ {x}
  BY <1>1, <1>3, ReachFrom
<1>5. ClosedIn(kids, Reach(new, {r}) \cup {x})
  <2> SUFFICES ASSUME NEW q \in Reach(new, {r}) \cup {x}  PROVE kids[q] \subseteq Reach(new, {r}) \cup {x}
    BY DEF ClosedIn
  <2>1. CASE q = x
    BY <2>1
  <2>2. CASE q \in Reach(new, {r})
    <3>1. new[q] \subseteq Reach(new, {r}) /\ q \in Folder
      BY <1>2, <2>2 DEF ClosedIn
    <3> QED
      BY <3>1
  <2> QED
    BY <2>1, <2>2
<1>6. old \subseteq Reach(new, {r}) \cup {x}
  <2>1. Reach(new, {r}) \cup {x} \subseteq Folder /\ r \in Reach(new, {r}) \cup {x}
    BY <1>2
  <2> QED
    BY <2>1, <1>5, ReachFrom DEF old
<1> QED
  BY <1>4, <1>6 DEF old

\* Nothing leads to r, and to any other that r leads to leads one.
Hung(kids, r) ==
  /\ \A q \in Folder : r \notin kids[q]
  /\ \A y \in Reach(kids, {r}) : \A q \in Reach(kids, {r}), q2 \in Folder :
       y \in kids[q] \cap kids[q2] => q = q2
Relinked(kids, new, r, p, d, x) ==
  /\ p # d /\ p \in Reach(kids, {r}) /\ d \in Reach(kids, {r}) /\ x \in kids[p] /\ x # r
  /\ new[p] = kids[p] \ {x} /\ new[d] = kids[d] \cup {x}
  /\ \A q \in Folder \ {p, d} : new[q] = kids[q]

\* A directory that moves from p to d: moved below itself it is lost, with all
\* that it leads to; otherwise nothing is.
LEMMA Moved ==
  ASSUME NEW kids \in Graph, NEW new \in Graph, NEW r \in Folder, NEW p \in Folder,
         NEW d, NEW x \in Folder, Hung(kids, r), Relinked(kids, new, r, p, d, x)
  PROVE  /\ d \in Reach(kids, {x}) => Reach(new, {r}) = Reach(kids, {r}) \ Reach(kids, {x})
         /\ d \notin Reach(kids, {x}) => Reach(new, {r}) = Reach(kids, {r})
<1> DEFINE old == Reach(kids, {r})
           below == Reach(kids, {x})
           now == Reach(new, {r})
<1> USE DEF Hung, Relinked
<1>1. old \subseteq Folder /\ r \in old /\ ClosedIn(kids, old)
  BY ReachIs
<1>2. below \subseteq Folder /\ x \in below /\ ClosedIn(kids, below)
  BY ReachIs
<1>3. now \subseteq Folder /\ r \in now /\ ClosedIn(new, now)
  BY ReachIs
<1>4. r \notin below
  <2>1. ClosedIn(kids, Folder \ {r})
    BY DEF ClosedIn, Graph
  <2> QED
    BY <2>1, ReachFrom
<1>5. ASSUME NEW y \in below, y # x  PROVE \E q \in below : y \in kids[q]
  <2> SUFFICES ASSUME \A q \in below : y \notin kids[q]  PROVE FALSE
    OBVIOUS
  <2> DEFINE S == below \ {y}
  <2>1. ASSUME NEW q \in S  PROVE kids[q] \subseteq S
    <3>1. q \in below
      OBVIOUS
    <3>2. kids[q] \subseteq below
      BY <3>1, <1>2 DEF ClosedIn
    <3>3. y \notin kids[q]
      BY <3>1
    <3> QED
      BY <3>2, <3>3
  <2>2. S \subseteq Folder /\ x \in S
    BY <1>2, <1>5
  <2> HIDE DEF S
  <2>3. ClosedIn(kids, S)
    BY <2>1 DEF ClosedIn
  <2>4. below \subseteq S
    BY <2>2, <2>3, ReachFrom
  <2> QED
    BY <2>4, <1>5 DEF S
<1>6. ClosedIn(kids, now \cup below)
  <2> SUFFICES ASSUME NEW q \in now \cup below  PROVE kids[q] \subseteq now \cup below
    BY DEF ClosedIn
  <2>1. CASE q \in below
    BY <2>1, <1>2 DEF ClosedIn
  <2>2. CASE q \in now
    <3>1. new[q] \subseteq now /\ q \in Folder
      BY <1>3, <2>2 DEF ClosedIn
    <3>2. kids[q] \subseteq new[q] \cup {x}
      BY <3>1
    <3> QED
      BY <3>1, <3>2, <1>2
  <2> QED
    BY <2>1, <2>2
<1>7. old \subseteq now \cup below
  <2> DEFINE S == now \cup below
  <2>1. S \subseteq Folder /\ r \in S /\ ClosedIn(kids, S)
    BY <1>2, <1>3, <1>6
  <2> HIDE DEF S
  <2>2. old \subseteq S
    BY <2>1, ReachFrom
  <2> QED
    BY <2>2 DEF S
<1> HIDE DEF below, old, now
<1>8. CASE d \in below
  <2>1. ClosedIn(new, old \ below)
    <3> SUFFICES ASSUME NEW q \in old \ below, NEW y \in new[q]  PROVE y \in old \ below
      BY DEF ClosedIn
    <3>1. q # d /\ q \in Folder /\ y \in kids[q] /\ (q = p => y # x)
      BY <1>1, <1>8
    <3>2. y \in old
      BY <3>1, <1>1 DEF ClosedIn
    <3>3. y # x
      <4> SUFFICES ASSUME y = x  PROVE FALSE
        OBVIOUS
      <4>1. x \in kids[q] \cap kids[p] /\ x \in old /\ q \in old
        BY <3>1, <3>2
      <4>2. q = p
        BY <4>1 DEF old
      <4> QED
        BY <4>2, <3>1
    <3>4. y \notin below
      <4> SUFFICES ASSUME y \in below  PROVE FALSE
        OBVIOUS
      <4>1. PICK z \in below : y \in kids[z]
        BY <1>5, <3>3
      <4>2. z = q
        <5>1. y \in kids[q] \cap kids[z] /\ z \in Folder /\ y \in old /\ q \in old
          BY <4>1, <3>1, <3>2, <1>2
        <5> QED
          BY <5>1 DEF old
      <4> QED
        BY <4>1, <4>2
    <3> QED
      BY <3>2, <3>4
  <2>2. now \subseteq old \ below
    <3>1. old \ below \subseteq Folder /\ r \in old \ below
      BY <1>1, <1>4
    <3> QED
      BY <3>1, <2>1, ReachFrom DEF now
  <2>3. now = old \ below
    BY <2>2, <1>7
  <2> QED
    BY <2>3, <1>8 DEF below, now, old
<1>9. CASE d \notin below
  <2>1. ClosedIn(new, old)
    <3> SUFFICES ASSUME NEW q \in old  PROVE new[q] \subseteq old
      BY DEF ClosedIn
    <3>0. p \in old /\ d \in old
      BY DEF old
    <3>1. kids[q] \subseteq old /\ q \in Folder /\ kids[p] \subseteq old
      BY <3>0, <1>1 DEF ClosedIn
    <3> QED
      BY <3>1
  <2>2. now \subseteq old
    BY <2>1, <1>1, ReachFrom DEF now
  <2>3. x \in now
    <3>1. d \in now
      <4>1. d \in old
        BY DEF old
      <4> QED
        BY <4>1, <1>7, <1>9
    <3>2. new[d] \subseteq now
      BY <3>1, <1>3 DEF ClosedIn
    <3> QED
      BY <3>2
  <2>4. ClosedIn(kids, now)
    <3> SUFFICES ASSUME NEW q \in now  PROVE kids[q] \subseteq now
      BY DEF ClosedIn
    <3>1. new[q] \subseteq now /\ q \in Folder
      BY <1>3 DEF ClosedIn
    <3> QED
      BY <3>1, <2>3
  <2>5. old \subseteq now
    BY <2>4, <1>3, ReachFrom DEF old
  <2>6. now = old
    BY <2>2, <2>5
  <2> QED
    BY <2>6, <1>9 DEF below, now, old
<1> QED
  BY <1>8, <1>9 DEF below

\* Nothing below a directory leads to it or to where it hangs.
LEMMA NoCycle ==
  ASSUME NEW kids \in Graph, NEW r \in Folder, NEW p \in Reach(kids, {r}), NEW x \in kids[p],
         x # r, Hung(kids, r)
  PROVE  p \notin Reach(kids, {x})
<1> DEFINE old == Reach(kids, {r})
           below == Reach(kids, {x})
           S == old \ below
<1> USE DEF Hung
<1>1. old \subseteq Folder /\ r \in old /\ ClosedIn(kids, old)
  BY ReachIs
<1>2. x \in Folder /\ x \in old
  BY <1>1 DEF Graph, ClosedIn
<1>3. below \subseteq Folder /\ x \in below /\ ClosedIn(kids, below)
  BY <1>2, ReachIs
<1> SUFFICES ASSUME p \in below  PROVE FALSE
  OBVIOUS
<1> HIDE DEF old, below
<1>4. r \notin below
  <2> DEFINE T == Folder \ {r}
  <2>1. T \subseteq Folder /\ x \in T /\ ClosedIn(kids, T)
    BY <1>2 DEF ClosedIn, Graph
  <2> HIDE DEF T
  <2>2. below \subseteq T
    BY <2>1, ReachFrom DEF below
  <2> QED
    BY <2>2 DEF T
<1>5. ASSUME NEW y \in below, y # x  PROVE \E q \in below : y \in kids[q]
  <2> SUFFICES ASSUME \A q \in below : y \notin kids[q]  PROVE FALSE
    OBVIOUS
  <2> DEFINE T == below \ {y}
  <2>1. ASSUME NEW q \in T  PROVE kids[q] \subseteq T
    <3>1. q \in below
      OBVIOUS
    <3>2. kids[q] \subseteq below /\ y \notin kids[q]
      BY <3>1, <1>3 DEF ClosedIn
    <3> QED
      BY <3>2
  <2>2. T \subseteq Folder /\ x \in T
    BY <1>3, <1>5
  <2> HIDE DEF T
  <2>3. ClosedIn(kids, T)
    BY <2>1 DEF ClosedIn
  <2>4. below \subseteq T
    BY <2>2, <2>3, ReachFrom DEF below
  <2> QED
    BY <2>4, <1>5 DEF T
<1>6. ASSUME NEW q \in S, NEW z \in kids[q]  PROVE z \in S
  <2>1. q \in old /\ q \notin below /\ q \in Folder /\ z \in old
    BY <1>1, <1>6 DEF ClosedIn
  <2>2. ASSUME z \in below  PROVE FALSE
    <3>1. PICK w \in below : z \in kids[w]
      <4>1. CASE z = x
        BY <4>1
      <4>2. CASE z # x
        BY <4>2, <2>2, <1>5
      <4> QED
        BY <4>1, <4>2
    <3>2. z \in kids[q] \cap kids[w] /\ w \in Folder
      BY <3>1, <1>3, <1>6
    <3>3. q = w
      BY <2>1, <3>2 DEF old
    <3> QED
      BY <2>1, <3>3
  <2> QED
    BY <2>1, <2>2
<1>7. S \subseteq Folder /\ r \in S
  BY <1>1, <1>4
<1> HIDE DEF S
<1>8. old \subseteq S
  BY <1>6, <1>7, ReachFrom DEF ClosedIn, old
<1> QED
  BY <1>8, <1>2, <1>3 DEF S

-----------------------------------------------------------------------------
(***************************************************************************)
(* The clusters of the directories, counted.                               *)
(***************************************************************************)
Pairs(w) == UNION {{d} \X (1 .. w[d]) : d \in Folder}
Widths == [d \in Folder |-> ClustersOf(d)]

LEMMA FolderClustersAre == FolderClusters = Pairs(Widths)
BY DEF FolderClusters, Pairs, Widths

LEMMA InPairs ==
  ASSUME NEW w, NEW p
  PROVE  p \in Pairs(w) <=> \E d \in Folder : \E i \in 1 .. w[d] : p = <<d, i>>
<1>1. ASSUME p \in Pairs(w)  PROVE \E d \in Folder : \E i \in 1 .. w[d] : p = <<d, i>>
  <2>1. PICK d \in Folder : p \in {d} \X (1 .. w[d])
    BY <1>1 DEF Pairs
  <2>2. PICK x \in {d}, i \in 1 .. w[d] : p = <<x, i>>
    BY <2>1
  <2>3. p = <<d, i>>
    BY <2>2
  <2> QED
    BY <2>3
<1>2. ASSUME NEW d \in Folder, NEW i \in 1 .. w[d], p = <<d, i>>  PROVE p \in Pairs(w)
  <2>1. p \in {d} \X (1 .. w[d])
    BY <1>2
  <2> QED
    BY <2>1 DEF Pairs
<1> QED
  BY <1>1, <1>2

LEMMA Widened ==
  ASSUME NEW w, NEW v, NEW d \in Folder, NEW k \in Nat, w[d] \in Nat, v[d] = w[d] + k,
         \A x \in Folder \ {d} : v[x] = w[x], IsFiniteSet(Pairs(w))
  PROVE  IsFiniteSet(Pairs(v)) /\ Cardinality(Pairs(v)) = Cardinality(Pairs(w)) + k
<1> DEFINE more == {d} \X (w[d] + 1 .. v[d])
<1>1. IsFiniteSet(more) /\ Cardinality(more) = k
  <2>1. IsFiniteSet({d}) /\ Cardinality({d}) = 1
    BY FS_Singleton
  <2>2. IsFiniteSet(w[d] + 1 .. v[d]) /\ Cardinality(w[d] + 1 .. v[d]) = k
    <3> DEFINE a == w[d] + 1
               b == v[d]
    <3>1. a \in Int /\ b \in Int /\ (IF a > b THEN 0 ELSE b - a + 1) = k
      OBVIOUS
    <3> HIDE DEF a, b
    <3>2. IsFiniteSet(a .. b) /\ Cardinality(a .. b) = IF a > b THEN 0 ELSE b - a + 1
      BY <3>1, FS_Interval
    <3> QED
      BY <3>1, <3>2 DEF a, b
  <2>3. IsFiniteSet(more) /\ Cardinality(more) = 1 * k
    BY <2>1, <2>2, FS_Product
  <2> QED
    BY <2>3
<1>2. ASSUME NEW p \in more  PROVE p \notin Pairs(w) /\ p \in Pairs(v)
  <2>1. PICK i \in w[d] + 1 .. v[d] : p = <<d, i>>
    OBVIOUS
  <2>2. i \in 1 .. v[d] /\ ~(i <= w[d])
    BY <2>1
  <2>3. p \in Pairs(v)
    BY <2>1, <2>2, InPairs
  <2>4. ASSUME p \in Pairs(w)  PROVE FALSE
    <3>0. PICK y \in Folder : \E m \in 1 .. w[y] : p = <<y, m>>
      BY <2>4, InPairs
    <3>1. PICK j \in 1 .. w[y] : p = <<y, j>>
      BY <3>0
    <3> QED
      BY <2>1, <2>2, <3>1
  <2> QED
    BY <2>3, <2>4
<1>3. ASSUME NEW p \in Pairs(w)  PROVE p \in Pairs(v)
  <2>0. PICK y \in Folder : \E i \in 1 .. w[y] : p = <<y, i>>
    BY <1>3, InPairs
  <2>1. PICK j \in 1 .. w[y] : p = <<y, j>>
    BY <2>0
  <2>2. j \in 1 .. v[y]
    BY <2>1
  <2> QED
    BY <2>1, <2>2, InPairs
<1>4. ASSUME NEW p \in Pairs(v)  PROVE p \in Pairs(w) \cup more
  <2>0. PICK y \in Folder : \E i \in 1 .. v[y] : p = <<y, i>>
    BY <1>4, InPairs
  <2>1. PICK j \in 1 .. v[y] : p = <<y, j>>
    BY <2>0
  <2>2. CASE y = d /\ j > w[d]
    <3>1. j \in w[d] + 1 .. v[d]
      BY <2>1, <2>2
    <3> QED
      BY <2>1, <2>2, <3>1
  <2>3. CASE ~(y = d /\ j > w[d])
    <3>1. j \in 1 .. w[y]
      BY <2>1, <2>3
    <3> QED
      BY <2>1, <3>1, InPairs
  <2> QED
    BY <2>2, <2>3
<1> HIDE DEF more
<1>5. Pairs(v) = Pairs(w) \cup more
  BY <1>2, <1>3, <1>4
<1>6. Pairs(w) \cap more = {}
  BY <1>2
<1>7. /\ IsFiniteSet(Pairs(w) \cup more)
      /\ Cardinality(Pairs(w) \cup more)
           = Cardinality(Pairs(w)) + Cardinality(more) - Cardinality(Pairs(w) \cap more)
  BY <1>1, FS_Union
<1>8. Cardinality(Pairs(w) \cap more) = 0 /\ Cardinality(Pairs(w)) \in Nat
  BY <1>6, FS_EmptySet, FS_CardinalityType
<1> QED
  BY <1>1, <1>5, <1>7, <1>8

LEMMA Narrowed ==
  ASSUME NEW w, NEW v, NEW d \in Folder, NEW k \in Nat, v[d] \in Nat, w[d] = v[d] + k,
         \A x \in Folder \ {d} : v[x] = w[x], IsFiniteSet(Pairs(w))
  PROVE  /\ IsFiniteSet(Pairs(v)) /\ Cardinality(Pairs(v)) \in Nat
         /\ Cardinality(Pairs(w)) = Cardinality(Pairs(v)) + k
<1>1. Pairs(v) \subseteq Pairs(w)
  <2> SUFFICES ASSUME NEW p \in Pairs(v)  PROVE p \in Pairs(w)
    OBVIOUS
  <2>0. PICK y \in Folder : \E i \in 1 .. v[y] : p = <<y, i>>
    BY InPairs
  <2>1. PICK j \in 1 .. v[y] : p = <<y, j>>
    BY <2>0
  <2>2. j \in 1 .. w[y]
    BY <2>1
  <2> QED
    BY <2>1, <2>2, InPairs
<1>2. IsFiniteSet(Pairs(v))
  BY <1>1, FS_Subset
<1>3. \A x \in Folder \ {d} : w[x] = v[x]
  OBVIOUS
<1> QED
  BY <1>2, <1>3, Widened, FS_CardinalityType

LEMMA ClustersGrow ==
  ASSUME NEW n \in Nat, NEW k \in Nat, n % PerCluster = 0
  PROVE  (n + k * PerCluster) \div PerCluster = n \div PerCluster + k /\ n \div PerCluster \in Nat
<1>1. n = (n \div PerCluster) * PerCluster /\ n \div PerCluster \in Nat
  BY Constants
<1>2. n + k * PerCluster = (n \div PerCluster + k) * PerCluster
  BY <1>1, Constants
<1>3. \A m \in Nat : (m * PerCluster) \div PerCluster = m
  BY Constants
<1> QED
  BY <1>1, <1>2, <1>3

-----------------------------------------------------------------------------
(***************************************************************************)
(* The directories that entries lead to.                                   *)
(***************************************************************************)
LinkedOf(s) == {j \in Entries(s) : IsDirectory(s[j].of) /\ ~IsDot(s[j].of)}
SubsOf(s) == {s[j].of.sub : j \in LinkedOf(s)}
DotsKept(s, t) == \A j \in Entries(s) : IsDot(s[j].of) => j \in Entries(t) /\ t[j] = s[j]
LinksKept(s, t) ==
  /\ LinkedOf(t) = LinkedOf(s) /\ \A j \in LinkedOf(s) : t[j] = s[j]
  /\ DotsKept(s, t)

LEMMA LinksAre ==
  ASSUME NEW d
  PROVE  Linked(d) = LinkedOf(slots[d]) /\ SubFolders(d) = SubsOf(slots[d])
BY DEF Linked, LinkedOf, SubFolders, SubsOf

LEMMA SubsKept ==
  ASSUME NEW s, NEW t, LinksKept(s, t)  PROVE SubsOf(t) = SubsOf(s)
BY DEF LinksKept, SubsOf

LEMMA LinksOfSame ==
  ASSUME NEW s, NEW t, SameEntries(s, t)  PROVE LinksKept(s, t)
BY DEF SameEntries, LinksKept, LinkedOf, DotsKept

LEMMA LinksOfMoreFile ==
  ASSUME NEW s, NEW t, NEW j, NEW e, OneMore(s, t, j, e), ~IsDirectory(e)
  PROVE  LinksKept(s, t)
<1>1. t[j].of = e
  BY PartsOf DEF OneMore
<1>2. LinkedOf(t) = LinkedOf(s)
  BY <1>1 DEF OneMore, LinkedOf
<1> QED
  BY <1>2 DEF OneMore, LinksKept, LinkedOf, DotsKept

LEMMA LinksOfMoreFolder ==
  ASSUME NEW s, NEW t, NEW j, NEW e, OneMore(s, t, j, e), IsDirectory(e), ~IsDot(e)
  PROVE  /\ j \notin LinkedOf(s) /\ LinkedOf(t) = LinkedOf(s) \cup {j} /\ t[j].of = e
         /\ \A k \in LinkedOf(s) : t[k] = s[k]
         /\ SubsOf(t) = SubsOf(s) \cup {e.sub}
         /\ DotsKept(s, t)
<1>1. t[j].of = e
  BY PartsOf DEF OneMore
<1>2. j \notin LinkedOf(s) /\ LinkedOf(t) = LinkedOf(s) \cup {j}
  BY <1>1 DEF OneMore, LinkedOf
<1>3. \A k \in LinkedOf(s) : t[k] = s[k]
  BY DEF OneMore, LinkedOf
<1>4. SubsOf(t) = SubsOf(s) \cup {e.sub}
  BY <1>1, <1>2, <1>3 DEF SubsOf
<1> QED
  BY <1>1, <1>2, <1>3, <1>4 DEF OneMore, DotsKept

LEMMA LinksOfLessFile ==
  ASSUME NEW s, NEW t, NEW j, OneLess(s, t, j), ~IsDirectory(s[j].of), ~IsDot(s[j].of)
  PROVE  LinksKept(s, t)
<1>1. LinkedOf(t) = LinkedOf(s)
  BY DEF OneLess, LinkedOf
<1>2. \A k \in LinkedOf(s) : t[k] = s[k]
  BY DEF OneLess, LinkedOf
<1>3. DotsKept(s, t)
  BY DEF OneLess, DotsKept
<1> QED
  BY <1>1, <1>2, <1>3 DEF LinksKept

LEMMA LinksOfLessFolder ==
  ASSUME NEW s, NEW t, NEW j, OneLess(s, t, j), j \in LinkedOf(s)
  PROVE  /\ LinkedOf(t) = LinkedOf(s) \ {j}
         /\ \A k \in LinkedOf(t) : t[k] = s[k]
         /\ DotsKept(s, t)
         /\ (\A k \in LinkedOf(s) : s[k].of.sub = s[j].of.sub => k = j)
              => SubsOf(t) = SubsOf(s) \ {s[j].of.sub}
<1>1. LinkedOf(t) = LinkedOf(s) \ {j} /\ \A k \in LinkedOf(t) : t[k] = s[k]
  BY DEF OneLess, LinkedOf
<1>2. DotsKept(s, t)
  BY DEF OneLess, DotsKept, LinkedOf
<1>3. ASSUME \A k \in LinkedOf(s) : s[k].of.sub = s[j].of.sub => k = j
      PROVE  SubsOf(t) = SubsOf(s) \ {s[j].of.sub}
  BY <1>1, <1>3 DEF SubsOf
<1> QED
  BY <1>1, <1>2, <1>3

LEMMA LinksOfTwo ==
  ASSUME NEW s, NEW t, NEW u, LinksKept(s, t), LinksKept(t, u)  PROVE LinksKept(s, u)
BY DEF LinksKept, DotsKept

-----------------------------------------------------------------------------
(***************************************************************************)
(* The invariant of the directories and of the tree.                       *)
(***************************************************************************)
Kids == [d \in Folder |-> SubFolders(d)]
Live == Under({Root})

DirInv ==
  /\ slots \in [Folder -> Seq(Slot)]
  /\ \A d \in Folder : Readable(slots[d]) /\ Distinct(slots[d])

CountInv ==
  /\ IsFiniteSet(FolderClusters) /\ free \in Nat /\ data \in Nat
  /\ free + data + Cardinality(FolderClusters) = Clusters

ListType ==
  /\ iter.on \in BOOLEAN /\ iter.valid \in BOOLEAN /\ iter.loose \in BOOLEAN
  /\ iter.dir \in Folder \cup {NoFolder} /\ (iter.on => iter.dir \in Folder)
  /\ iter.at \in Nat /\ (iter.valid => iter.e \in EntryRecord)
  /\ DOMAIN iter = {"on", "dir", "valid", "at", "e", "loose"}
  /\ heard \in [stays : SUBSET EntryRecord, told : SUBSET EntryRecord, twice : BOOLEAN]
ScalarInv == calls \in 0 .. MaxCalls /\ gone \in BOOLEAN /\ lost \subseteq Folder /\ moved \subseteq Folder

\* A directory hangs in another by one entry, in no third one, and its ".."
\* leads there unless it was moved.
OneLink(s, y) == \E j \in LinkedOf(s) : \A k \in LinkedOf(s) : s[k].of.sub = y <=> k = j
Knows(s, y, p, gave) ==
  2 \in Entries(s) /\ IsDot(s[2].of) /\ (y \in gave \/ s[2].of.sub = p)
HangsIn(y, p) ==
  /\ OneLink(slots[p], y) /\ Knows(slots[y], y, p, moved)
  /\ \A q \in Folder \ {p} : y \notin SubsOf(slots[q])

TreeInv == ~gone =>
  /\ Root \in Used /\ lost \subseteq Used /\ Live = Used \ lost
  /\ \A q \in Folder : SubsOf(slots[q]) \subseteq Used \ {Root}
  /\ \A y \in Live \ {Root} : \E p \in Live : HangsIn(y, p)

\* Each entry that has been in the directory since the listing began stands
\* where it stood: told if it is behind the one read ahead, not yet otherwise.
Stands(s, e) ==
  \E j \in Entries(s) :
    /\ s[j].of = e
    /\ iter.valid => /\ e \in heard.told <=> j < iter.at
                     /\ iter.e = e <=> j = iter.at
ListInv == iter.on /\ ~iter.loose =>
  /\ ~heard.twice
  /\ ~iter.valid => heard.stays \subseteq heard.told
  /\ ~gone => /\ iter.dir \in Used
              /\ \A e \in heard.stays : Stands(slots[iter.dir], e)

TreeTypes == ListType /\ ScalarInv
IInv == TreeTypes /\ DirInv /\ CountInv /\ TreeInv /\ ListInv

LEMMA SubsAreFolders ==
  ASSUME NEW s, Readable(s)  PROVE SubsOf(s) \subseteq Folder
<1> SUFFICES ASSUME NEW j \in LinkedOf(s)  PROVE s[j].of.sub \in Folder
  BY DEF SubsOf
<1>1. j \in Entries(s) /\ IsDirectory(s[j].of)
  BY DEF LinkedOf
<1> QED
  BY <1>1, EntryFacts, EntryParts

LEMMA KidsAre ==
  ASSUME DirInv
  PROVE  /\ Kids \in Graph /\ \A d \in Folder : Kids[d] = SubsOf(slots[d])
         /\ \A ds : Under(ds) = Reach(Kids, ds)
<1>1. \A d \in Folder : Kids[d] = SubsOf(slots[d])
  BY LinksAre DEF Kids
<1>2. Kids \in Graph
  BY <1>1, SubsAreFolders, LinksAre DEF Kids, Graph, DirInv
<1>3. ASSUME NEW S \in SUBSET Folder  PROVE Closed(S) <=> ClosedIn(Kids, S)
  BY DEF Closed, ClosedIn, Kids
<1>4. \A ds : Under(ds) = Reach(Kids, ds)
  BY <1>3 DEF Under, Reach
<1> QED
  BY <1>1, <1>2, <1>4

LEMMA KidsAreNext ==
  ASSUME DirInv'
  PROVE  /\ Kids' \in Graph /\ \A d \in Folder : Kids'[d] = SubsOf(slots'[d])
         /\ Live' = Reach(Kids', {Root})
<1>1. \A d \in Folder : Kids'[d] = SubsOf(slots'[d])
  BY DEF Kids, SubsOf, SubFolders, Linked, LinkedOf
<1>2. Kids' \in Graph
  <2>1. Kids' = [d \in Folder |-> SubsOf(slots'[d])]
    BY DEF Kids, SubsOf, SubFolders, Linked, LinkedOf
  <2> QED
    BY <1>1, <2>1, SubsAreFolders DEF Graph, DirInv
<1>3. ASSUME NEW S \in SUBSET Folder  PROVE (Closed(S))' <=> ClosedIn(Kids', S)
  BY DEF Closed, ClosedIn, Kids
<1>4. Live' = Reach(Kids', {Root})
  BY <1>3 DEF Live, Under, Reach
<1> QED
  BY <1>1, <1>2, <1>4

LEMMA LiveIs ==
  ASSUME DirInv, TreeInv, ~gone
  PROVE  /\ Live = Reach(Kids, {Root}) /\ Live \subseteq Folder /\ Root \in Live
         /\ \A d \in Live : SubsOf(slots[d]) \subseteq Live /\ d \in Used /\ d \notin lost
         /\ \A q \in Folder : Root \notin SubsOf(slots[q]) /\ SubsOf(slots[q]) \subseteq Used \ {Root}
         /\ \A y \in Live \ {Root} : \E p \in Live : HangsIn(y, p)
         /\ lost \subseteq Used /\ Live = Used \ lost
<1>1. /\ Live = Reach(Kids, {Root}) /\ Kids \in Graph
      /\ \A d \in Folder : Kids[d] = SubsOf(slots[d])
  BY KidsAre DEF Live
<1>2. {Root} \in SUBSET Folder
  BY Constants
<1>3. {Root} \subseteq Live /\ Live \subseteq Folder /\ ClosedIn(Kids, Live)
  BY <1>1, <1>2, ReachIs
<1>4. \A d \in Live : SubsOf(slots[d]) \subseteq Live
  BY <1>1, <1>3 DEF ClosedIn
<1> QED
  BY <1>1, <1>3, <1>4 DEF TreeInv

-----------------------------------------------------------------------------
(***************************************************************************)
(* What a path leads to.                                                   *)
(***************************************************************************)
LEMMA FindIs ==
  ASSUME DirInv, NEW d \in Folder, NEW n \in Name, NEW follow \in BOOLEAN,
         Find(d, n, follow).found
  PROVE  LET f == Find(d, n, follow) IN
         /\ f.dir = d /\ f.at \in Entries(slots[d])
         /\ EntryAt(f) \in EntryRecord /\ ~IsDot(EntryAt(f)) /\ n \in NamesOf(EntryAt(f))
         /\ follow => f.at \in LinkedOf(slots[d]) /\ EntryAt(f).sub \in Folder
<1> DEFINE s == slots[d]
           js == {j \in Entries(s) : Answers(s, j, n) /\ (follow => IsDirectory(s[j].of))}
           f == Find(d, n, follow)
<1>1. Readable(s)
  BY DEF DirInv
<1>2. js # {} /\ f = [found |-> TRUE, dir |-> d, at |-> Min(js)]
  BY DEF Find, NotFound
<1>3. js \in SUBSET Nat
  BY <1>1, EntryFacts
<1>4. Min(js) \in js
  BY <1>2, <1>3, MinOf
<1>5. f.dir = d /\ f.at \in Entries(s) /\ Answers(s, f.at, n) /\ (follow => IsDirectory(s[f.at].of))
  BY <1>2, <1>4
<1> HIDE DEF f, js
<1>6. EntryAt(f) = s[f.at].of
  BY <1>5 DEF EntryAt
<1>7. EntryAt(f) \in EntryRecord
  BY <1>1, <1>5, <1>6, EntryFacts
<1>8. n \in NamesOf(EntryAt(f))
  BY <1>1, <1>5, <1>6, AnswersTo DEF NamesOf
<1>9. ~IsDot(EntryAt(f))
  BY <1>7, <1>8, NamedIsNoDot DEF NamesOf
<1> QED
  BY <1>5, <1>6, <1>7, <1>8, <1>9, EntryParts DEF LinkedOf, f

LEMMA PathParts ==
  ASSUME NEW p \in Path
  PROVE  /\ Len(p) \in 1 .. 2 /\ p[1] \in Name /\ LastName(p) \in Name
         /\ Len(p) # 1 => p[2] \in Name
<1>1. Len(p) \in 1 .. 2 /\ \A i \in 1 .. Len(p) : p[i] \in Name
  BY TreeAssumption
<1>2. 1 \in 1 .. Len(p) /\ Len(p) \in 1 .. Len(p) /\ (Len(p) # 1 => 2 \in 1 .. Len(p))
  BY <1>1
<1> QED
  BY <1>1, <1>2 DEF LastName

LEMMA SubIsLive ==
  ASSUME DirInv, TreeInv, ~gone, NEW d \in Live, NEW j \in LinkedOf(slots[d])
  PROVE  slots[d][j].of.sub \in Live \ {Root}
<1>1. slots[d][j].of.sub \in SubsOf(slots[d])
  BY DEF SubsOf
<1> QED
  BY <1>1, LiveIs

LEMMA FromPathIs ==
  ASSUME DirInv, TreeInv, ~gone, NEW p \in Path, FromPath(p).found
  PROVE  LET f == FromPath(p)
             e == EntryAt(f) IN
         /\ f.dir \in Live /\ f.at \in Entries(slots[f.dir])
         /\ e \in EntryRecord /\ ~IsDot(e) /\ e = slots[f.dir][f.at].of
         /\ IsDirectory(e) => f.at \in LinkedOf(slots[f.dir]) /\ e.sub \in Live \ {Root}
<1> DEFINE f == FromPath(p)
           e == EntryAt(f)
<1>1. /\ f.dir \in Live /\ f.at \in Entries(slots[f.dir])
      /\ EntryAt(f) \in EntryRecord /\ ~IsDot(EntryAt(f))
  <2>1. CASE Len(p) = 1
    <3>1. f = Find(Root, p[1], FALSE)
      BY <2>1 DEF FromPath
    <3>2. f.found
      OBVIOUS
    <3> HIDE DEF f
    <3> QED
      BY <3>1, <3>2, FindIs, PathParts, LiveIs, Constants
  <2>2. CASE Len(p) # 1
    <3> DEFINE up == Find(Root, p[1], TRUE)
    <3>1. up.found /\ f = Find(slots[up.dir][up.at].of.sub, p[2], FALSE)
      BY <2>2 DEF FromPath, NotFound
    <3>2. up.dir = Root /\ up.at \in LinkedOf(slots[Root])
      BY <3>1, FindIs, PathParts, Constants
    <3> HIDE DEF up
    <3>3. slots[up.dir][up.at].of.sub \in Live
      BY <3>2, SubIsLive, LiveIs
    <3>4. f.found
      OBVIOUS
    <3> HIDE DEF f
    <3>5. slots[up.dir][up.at].of.sub \in Folder
      BY <3>3, LiveIs
    <3> QED
      BY <2>2, <3>1, <3>3, <3>4, <3>5, FindIs, PathParts
  <2> QED
    BY <2>1, <2>2
<1>2. e = slots[f.dir][f.at].of
  BY DEF EntryAt
<1>3. IsDirectory(e) => f.at \in LinkedOf(slots[f.dir])
  BY <1>1, <1>2 DEF LinkedOf
<1> HIDE DEF f
<1>4. IsDirectory(e) => e.sub \in Live \ {Root}
  BY <1>1, <1>2, <1>3, SubIsLive
<1> QED
  BY <1>1, <1>2, <1>3, <1>4 DEF f

LEMMA ParentIs ==
  ASSUME DirInv, TreeInv, ~gone, NEW p \in Path, ParentFolder(p) # NoFolder
  PROVE  ParentFolder(p) \in Live
<1>1. CASE Len(p) = 1
  BY <1>1, LiveIs DEF ParentFolder
<1>2. CASE Len(p) # 1
  <2> DEFINE f == Find(Root, p[1], TRUE)
  <2>1. f.found /\ ParentFolder(p) = EntryAt(f).sub
    BY <1>2 DEF ParentFolder
  <2>2. f.dir = Root /\ f.at \in LinkedOf(slots[Root])
    BY <2>1, FindIs, PathParts, Constants
  <2> HIDE DEF f
  <2>3. EntryAt(f).sub \in Live
    BY <2>2, SubIsLive, LiveIs DEF EntryAt
  <2> QED
    BY <2>1, <2>3
<1> QED
  BY <1>1, <1>2

-----------------------------------------------------------------------------
(***************************************************************************)
(* Parts of the steps.                                                     *)
(***************************************************************************)
MoreLink(s, t, x) == \E j :
  /\ j \notin LinkedOf(s) /\ LinkedOf(t) = LinkedOf(s) \cup {j} /\ t[j].of.sub = x
  /\ \A k \in LinkedOf(s) : t[k] = s[k]
  /\ SubsOf(t) = SubsOf(s) \cup {x}
  /\ DotsKept(s, t)
EntriesKept(s, t) == \A j \in Entries(s) : j \in Entries(t) /\ t[j] = s[j]
Sound(s) == s \in Seq(Slot) /\ Readable(s) /\ Distinct(s)

LEMMA AddTo ==
  ASSUME DirInv, NEW d \in Folder, slots[d] # << >>, NEW n \in Name,
         NEW x \in Folder \cup {NoFolder}, NEW room \in Nat
  PROVE  LET r == AddEntry(d, n, x, room) IN
         /\ r.ok \in BOOLEAN /\ r.taken \in 0 .. room
         /\ Sound(r.slots) /\ r.slots # << >>
         /\ Len(r.slots) = Len(slots[d]) + r.taken * PerCluster
         /\ EntriesKept(slots[d], r.slots)
         /\ ~r.ok \/ x = NoFolder => LinksKept(slots[d], r.slots)
         /\ r.ok /\ x # NoFolder => MoreLink(slots[d], r.slots, x)
<1> DEFINE r == AddEntry(d, n, x, room)
           s == slots[d]
<1>1. Readable(s) /\ Distinct(s) /\ s \in Seq(Slot)
  BY DEF DirInv
<1>2. /\ r.ok \in BOOLEAN /\ r.taken \in 0 .. room
      /\ Readable(r.slots) /\ Len(r.slots) = Len(s) + r.taken * PerCluster
      /\ ~r.ok => SameEntries(s, r.slots)
      /\ r.ok => \E j, e : /\ OneMore(s, r.slots, j, e)
                           /\ e \in EntryRecord /\ e.name = n /\ e.sub = x
                           /\ \A k \in Entries(s) : NamesOf(e) \cap NamesOf(s[k].of) = {}
  BY <1>1, AddEntryIs
<1>3. s # << >>
  OBVIOUS
<1> HIDE DEF r, s
<1>4. r.slots # << >> /\ r.slots \in Seq(Slot)
  <2>1. Len(s) \in Nat \ {0} /\ r.taken * PerCluster \in Nat
    BY <1>1, <1>2, <1>3, Constants
  <2>2. Len(r.slots) # 0 /\ r.slots \in Seq(Slot)
    BY <1>2, <2>1, ReadableParts
  <2> QED
    BY <2>2
<1>5. CASE ~r.ok
  <2>1. SameEntries(s, r.slots)
    BY <1>2, <1>5
  <2>2. Distinct(r.slots) /\ LinksKept(s, r.slots)
    BY <2>1, <1>1, DistinctSame, LinksOfSame
  <2>3. EntriesKept(s, r.slots)
    BY <2>1 DEF SameEntries, EntriesKept
  <2> QED
    BY <1>2, <1>4, <1>5, <2>2, <2>3 DEF r, s, Sound
<1>6. CASE r.ok
  <2>1. PICK j, e : /\ OneMore(s, r.slots, j, e)
                    /\ e \in EntryRecord /\ e.name = n /\ e.sub = x
                    /\ \A k \in Entries(s) : NamesOf(e) \cap NamesOf(s[k].of) = {}
    BY <1>2, <1>6
  <2>2. Distinct(r.slots)
    BY <2>1, <1>1, DistinctMore
  <2>3. EntriesKept(s, r.slots)
    BY <2>1 DEF OneMore, EntriesKept
  <2>4. ~IsDot(e) /\ (IsDirectory(e) <=> x # NoFolder)
    BY <2>1, TreeAssumption DEF IsDot, IsDirectory
  <2>5. x = NoFolder => LinksKept(s, r.slots)
    BY <2>1, <2>4, LinksOfMoreFile
  <2>6. x # NoFolder => MoreLink(s, r.slots, x)
    BY <2>1, <2>4, LinksOfMoreFolder DEF MoreLink
  <2> QED
    BY <1>2, <1>4, <1>6, <2>2, <2>3, <2>5, <2>6 DEF r, s, Sound
<1> QED
  BY <1>2, <1>5, <1>6 DEF r, s

LEMMA RemoveFrom ==
  ASSUME NEW s, Sound(s), s # << >>, NEW j \in Entries(s)
  PROVE  LET t == Removed(s, j) IN
         /\ Sound(t) /\ t # << >> /\ Len(t) = Len(s) /\ OneLess(s, t, j)
<1>1. /\ Readable(Removed(s, j)) /\ Len(Removed(s, j)) = Len(s)
      /\ OneLess(s, Removed(s, j), j)
  BY RemovedEntry DEF Sound
<1>2. Distinct(Removed(s, j))
  BY <1>1, DistinctLess DEF Sound
<1>3. Removed(s, j) \in Seq(Slot)
  BY <1>1, ReadableParts
<1>4. Removed(s, j) # << >>
  BY <1>1, <1>3 DEF Sound
<1> QED
  BY <1>1, <1>2, <1>3, <1>4 DEF Sound

\* Directories that change keep their kind.
LEMMA DirsKept ==
  ASSUME DirInv, DOMAIN slots' = Folder, slots' = [d \in Folder |-> slots'[d]],
         \A d \in Folder : slots'[d] = slots[d] \/ Sound(slots'[d])
  PROVE  DirInv'
<1>1. \A d \in Folder : Sound(slots'[d])
  BY DEF DirInv, Sound
<1>2. slots' \in [Folder -> Seq(Slot)]
  BY <1>1 DEF Sound
<1> QED
  BY <1>1, <1>2 DEF DirInv, Sound

\* The count of clusters.
LEMMA CountOfLengths ==
  ASSUME DirInv, CountInv, NEW d \in Folder, NEW k \in Nat,
         Len(slots'[d]) = Len(slots[d]) + k * PerCluster,
         \A x \in Folder \ {d} : Len(slots'[x]) = Len(slots[x]),
         free' \in Nat, data' \in Nat, free' + data' + k = free + data
  PROVE  CountInv'
<1>1. FolderClusters' = Pairs(Widths') /\ FolderClusters = Pairs(Widths)
  BY DEF FolderClusters, Pairs, Widths
<1>2. \A x \in Folder : /\ Widths'[x] = Len(slots'[x]) \div PerCluster
                        /\ Widths[x] = Len(slots[x]) \div PerCluster
  BY DEF Widths, ClustersOf
<1>3. Len(slots[d]) \in Nat /\ Len(slots[d]) % PerCluster = 0
  BY ReadableParts DEF DirInv
<1>4. Widths'[d] = Widths[d] + k /\ Widths[d] \in Nat
  BY <1>2, <1>3, ClustersGrow
<1>5. \A x \in Folder \ {d} : Widths'[x] = Widths[x]
  BY <1>2
<1>6. IsFiniteSet(Pairs(Widths')) /\ Cardinality(Pairs(Widths')) = Cardinality(Pairs(Widths)) + k
  BY <1>1, <1>4, <1>5, Widened DEF CountInv
<1>7. Cardinality(Pairs(Widths)) \in Nat
  BY <1>1, FS_CardinalityType DEF CountInv
<1>8. /\ IsFiniteSet(FolderClusters') /\ Cardinality(FolderClusters') = Cardinality(FolderClusters) + k
      /\ Cardinality(FolderClusters) \in Nat
  BY <1>1, <1>6, <1>7
<1>9. free \in Nat /\ data \in Nat /\ free + data + Cardinality(FolderClusters) = Clusters
  BY DEF CountInv
<1> DEFINE f2 == free'
           d2 == data'
           c2 == Cardinality(FolderClusters')
           c1 == Cardinality(FolderClusters)
<1>10. f2 \in Nat /\ d2 \in Nat /\ f2 + d2 + k = free + data /\ c2 = c1 + k /\ c1 \in Nat
  BY <1>8
<1> HIDE DEF f2, d2, c2, c1
<1>11. free + data + c1 = Clusters
  BY <1>9 DEF c1
<1>12. f2 + d2 + c2 = Clusters
  BY <1>9, <1>10, <1>11
<1> QED
  BY <1>8, <1>12 DEF CountInv, f2, d2, c2

LEMMA CountSame ==
  ASSUME DirInv, CountInv, \A x \in Folder : Len(slots'[x]) = Len(slots[x]),
         free' \in Nat, data' \in Nat, free' + data' = free + data
  PROVE  CountInv'
<1>1. Len(slots'[Root]) = Len(slots[Root]) + 0 * PerCluster
  <2>1. Readable(slots[Root]) /\ Len(slots'[Root]) = Len(slots[Root])
    BY Constants DEF DirInv
  <2>2. Len(slots[Root]) \in Nat /\ 0 * PerCluster = 0
    BY <2>1, Constants, ReadableParts
  <2> QED
    BY <2>1, <2>2
<1>2. free' + data' + 0 = free + data
  OBVIOUS
<1> QED
  BY <1>1, <1>2, CountOfLengths, Constants

\* A directory that goes.
LEMMA CountWithout ==
  ASSUME DirInv, CountInv, NEW d \in Folder, Len(slots'[d]) = 0,
         \A x \in Folder \ {d} : Len(slots'[x]) = Len(slots[x]),
         free' = free + ClustersOf(d), data' = data
  PROVE  CountInv'
<1>1. FolderClusters' = Pairs(Widths') /\ FolderClusters = Pairs(Widths)
  BY DEF FolderClusters, Pairs, Widths
<1>2. \A x \in Folder : /\ Widths'[x] = Len(slots'[x]) \div PerCluster
                        /\ Widths[x] = Len(slots[x]) \div PerCluster
  BY DEF Widths, ClustersOf
<1>3. Len(slots[d]) \in Nat /\ Len(slots[d]) % PerCluster = 0
  BY ReadableParts DEF DirInv
<1>4. Widths'[d] = 0 /\ Widths[d] = ClustersOf(d) /\ Widths[d] \in Nat
  <2>1. 0 \div PerCluster = 0 /\ Len(slots[d]) \div PerCluster \in Nat
    <3>1. \A n \in Nat : n \div PerCluster \in Nat
      BY Constants
    <3>2. 0 \div PerCluster = 0
      BY Constants
    <3> QED
      BY <1>3, <3>1, <3>2
  <2> QED
    BY <1>2, <2>1 DEF ClustersOf
<1>5. \A x \in Folder \ {d} : Widths'[x] = Widths[x]
  BY <1>2
<1>6. /\ IsFiniteSet(Pairs(Widths')) /\ Cardinality(Pairs(Widths')) \in Nat
      /\ Cardinality(Pairs(Widths)) = Cardinality(Pairs(Widths')) + ClustersOf(d)
  <2> DEFINE w == Widths
             v == Widths'
             k == ClustersOf(d)
  <2>1. k \in Nat /\ v[d] \in Nat /\ w[d] = v[d] + k /\ IsFiniteSet(Pairs(w))
    BY <1>1, <1>4 DEF CountInv
  <2> HIDE DEF w, v, k
  <2>2. \A x \in Folder \ {d} : v[x] = w[x]
    BY <1>5 DEF w, v
  <2>3. /\ IsFiniteSet(Pairs(v)) /\ Cardinality(Pairs(v)) \in Nat
        /\ Cardinality(Pairs(w)) = Cardinality(Pairs(v)) + k
    BY <2>1, <2>2, Narrowed
  <2> QED
    BY <2>3 DEF w, v, k
<1>7. free \in Nat /\ data \in Nat /\ free + data + Cardinality(FolderClusters) = Clusters
  BY DEF CountInv
<1>8. ClustersOf(d) \in Nat
  BY <1>4
<1>9. /\ IsFiniteSet(FolderClusters') /\ Cardinality(FolderClusters') \in Nat
      /\ Cardinality(FolderClusters) = Cardinality(FolderClusters') + ClustersOf(d)
  BY <1>1, <1>6
<1>10. free' \in Nat /\ data' \in Nat /\ free' + data' + Cardinality(FolderClusters') = Clusters
  BY <1>7, <1>8, <1>9
<1> QED
  BY <1>9, <1>10 DEF CountInv

\* The tree, when no entry of a directory comes or goes.
LEMMA KnowsKept ==
  ASSUME NEW s, NEW t, NEW y, NEW p, NEW gave, NEW gives, y \in gave => y \in gives,
         Knows(s, y, p, gave), DotsKept(s, t)
  PROVE  Knows(t, y, p, gives)
BY DEF Knows, DotsKept

LEMMA OneLinkKept ==
  ASSUME NEW s, NEW t, NEW y, LinksKept(s, t), OneLink(s, y)  PROVE OneLink(t, y)
BY DEF LinksKept, OneLink

LEMMA TreeKept ==
  ASSUME DirInv, DirInv', TreeInv, ~gone,
         \A d \in Folder : LinksKept(slots[d], slots'[d]) /\ (slots'[d] = << >> <=> slots[d] = << >>),
         UNCHANGED <<lost, moved>>
  PROVE  TreeInv'
<1>1. Kids' = Kids /\ \A d \in Folder : SubsOf(slots'[d]) = SubsOf(slots[d])
  <2>1. \A d \in Folder : SubsOf(slots'[d]) = SubsOf(slots[d])
    BY SubsKept
  <2>2. Kids' = [d \in Folder |-> SubsOf(slots'[d])] /\ Kids = [d \in Folder |-> SubsOf(slots[d])]
    BY DEF Kids, SubsOf, SubFolders, Linked, LinkedOf
  <2> QED
    BY <2>1, <2>2
<1>2. Live' = Live
  BY <1>1, KidsAreNext, LiveIs
<1>3. Used' = Used
  BY DEF Used
<1>4. ASSUME NEW y \in Live \ {Root}, NEW p \in Live, HangsIn(y, p)  PROVE HangsIn(y, p)'
  <2>1. y \in Folder /\ p \in Folder
    BY LiveIs
  <2>2. OneLink(slots'[p], y)
    BY <1>4, <2>1, OneLinkKept DEF HangsIn
  <2>3. Knows(slots'[y], y, p, moved')
    BY <1>4, <2>1, KnowsKept DEF HangsIn, LinksKept
  <2> QED
    BY <1>1, <1>4, <2>2, <2>3 DEF HangsIn
<1>5. \A y \in Live \ {Root} : \E p \in Live : HangsIn(y, p)'
  BY <1>4, LiveIs
<1>6. \A y \in Live' \ {Root} : \E p \in Live' : HangsIn(y, p)'
  BY <1>2, <1>5
<1> QED
  BY <1>1, <1>2, <1>3, <1>6, LiveIs DEF TreeInv

LEMMA ListKept ==
  ASSUME ListInv, ListType, ListType', iter' = iter, gone' = gone, ~gone,
         heard'.told = heard.told, heard'.twice = heard.twice, heard'.stays \subseteq heard.stays,
         iter.dir \in Used /\ ~iter.loose =>
           /\ slots'[iter.dir] # << >>
           /\ \A j \in Entries(slots[iter.dir]) : slots[iter.dir][j].of \in heard'.stays =>
                j \in Entries(slots'[iter.dir]) /\ slots'[iter.dir][j] = slots[iter.dir][j]
  PROVE  ListInv'
<1> SUFFICES ASSUME iter.on, ~iter.loose
             PROVE  /\ ~heard'.twice
                    /\ ~iter.valid => heard'.stays \subseteq heard'.told
                    /\ iter.dir \in Used' /\ \A e \in heard'.stays : Stands(slots[iter.dir], e)'
  BY DEF ListInv
<1>1. /\ ~heard.twice /\ (~iter.valid => heard.stays \subseteq heard.told) /\ iter.dir \in Used
      /\ \A e \in heard.stays : Stands(slots[iter.dir], e)
  BY DEF ListInv
<1>2. iter.dir \in Used'
  BY <1>1 DEF Used
<1>3. ASSUME NEW e \in heard'.stays  PROVE Stands(slots[iter.dir], e)'
  <2>1. PICK j \in Entries(slots[iter.dir]) :
           /\ slots[iter.dir][j].of = e
           /\ iter.valid => /\ e \in heard.told <=> j < iter.at
                            /\ iter.e = e <=> j = iter.at
    BY <1>1, <1>3 DEF Stands
  <2>2. j \in Entries(slots'[iter.dir]) /\ slots'[iter.dir][j].of = e
    BY <2>1, <1>1, <1>3
  <2> QED
    BY <2>1, <2>2 DEF Stands
<1> QED
  BY <1>1, <1>2, <1>3

-----------------------------------------------------------------------------
(***************************************************************************)
(* The calls.                                                              *)
(***************************************************************************)
LEMMA CallCounts ==
  ASSUME ScalarInv, Call  PROVE calls' \in 0 .. MaxCalls /\ ~gone
BY TreeAssumption DEF ScalarInv, Call

LEMMA TreeSame ==
  ASSUME TreeInv, UNCHANGED <<slots, gone, lost, moved>>  PROVE TreeInv'
<1>1. \A d : SubFolders(d)' = SubFolders(d)
  BY DEF SubFolders, Linked
<1>2. Live' = Live /\ Used' = Used
  BY <1>1 DEF Live, Under, Closed, Used
<1>3. \A y, p : HangsIn(y, p)' <=> HangsIn(y, p)
  BY DEF HangsIn
<1> QED
  BY <1>2, <1>3 DEF TreeInv

LEMMA ListSame ==
  ASSUME ListInv, UNCHANGED <<slots, gone, iter, heard>>  PROVE ListInv'
<1>1. \A e : Stands(slots[iter.dir], e)' <=> Stands(slots[iter.dir], e)
  BY DEF Stands
<1> QED
  BY <1>1 DEF ListInv, Used

LEMMA NothingMoves ==
  ASSUME IInv, UNCHANGED <<slots, iter, gone, lost, moved, heard>>, calls' \in 0 .. MaxCalls
  PROVE  TreeTypes' /\ DirInv' /\ TreeInv' /\ ListInv'
<1>1. TreeTypes'
  BY DEF IInv, TreeTypes, ListType, ScalarInv
<1>2. DirInv'
  BY DEF IInv, DirInv
<1> QED
  BY <1>1, <1>2, TreeSame, ListSame DEF IInv

LEMMA DataStep ==
  ASSUME IInv, DataTaken \/ DataFreed  PROVE IInv'
<1>1. /\ UNCHANGED <<slots, iter, gone, lost, moved, heard>> /\ Call
      /\ free' + data' = free + data /\ free' \in Nat /\ data' \in Nat
  <2>1. free \in Nat /\ data \in Nat
    BY DEF IInv, CountInv
  <2>2. CASE DataTaken
    BY <2>1, <2>2 DEF DataTaken
  <2>3. CASE DataFreed
    BY <2>1, <2>3 DEF DataFreed
  <2> QED
    BY <2>2, <2>3
<1>2. calls' \in 0 .. MaxCalls /\ ~gone
  BY <1>1, CallCounts DEF IInv, TreeTypes
<1>3. CountInv'
  <2>1. free + data + Cardinality(FolderClusters) = Clusters /\ IsFiniteSet(FolderClusters)
    BY DEF IInv, CountInv
  <2>2. FolderClusters' = FolderClusters
    BY <1>1 DEF FolderClusters, ClustersOf
  <2> QED
    BY <1>1, <2>1, <2>2 DEF CountInv
<1> QED
  BY <1>1, <1>2, <1>3, NothingMoves DEF IInv

\* An entry of a file is added: the tree and the listing are the same.
LEMMA CreateStep ==
  ASSUME IInv, NEW p \in Path, Create(p)  PROVE IInv'
<1> DEFINE d == ParentFolder(p)
           r == AddEntry(d, LastName(p), NoFolder, free)
<1>1. /\ ~gone /\ d # NoFolder /\ calls' \in 0 .. MaxCalls
      /\ slots' = [slots EXCEPT ![d] = r.slots] /\ free' = free - r.taken
      /\ UNCHANGED <<data, iter, gone, lost, moved, heard>>
  BY CallCounts DEF IInv, TreeTypes, Create, Call
<1>2. /\ TreeTypes /\ DirInv /\ CountInv /\ TreeInv /\ ListInv /\ slots \in [Folder -> Seq(Slot)]
      /\ free \in Nat
  BY DEF IInv, DirInv, CountInv
<1>3. d \in Live /\ d \in Folder /\ slots[d] # << >>
  BY <1>1, <1>2, ParentIs, LiveIs DEF Used
<1>4. /\ r.taken \in 0 .. free /\ Sound(r.slots) /\ r.slots # << >>
      /\ Len(r.slots) = Len(slots[d]) + r.taken * PerCluster
      /\ EntriesKept(slots[d], r.slots) /\ LinksKept(slots[d], r.slots)
  BY <1>2, <1>3, AddTo, PathParts
<1> HIDE DEF d, r
<1>5. /\ DOMAIN slots' = Folder /\ slots' = [x \in Folder |-> slots'[x]]
      /\ slots'[d] = r.slots /\ \A x \in Folder \ {d} : slots'[x] = slots[x]
  BY <1>1, <1>2, <1>3
<1>6. DirInv'
  BY <1>2, <1>4, <1>5, DirsKept
<1>7. CountInv'
  <2>1. free' \in Nat /\ data' \in Nat /\ free' + data' + r.taken = free + data /\ r.taken \in Nat
    BY <1>1, <1>2, <1>4 DEF CountInv
  <2> QED
    BY <1>2, <1>3, <1>4, <1>5, <2>1, CountOfLengths
<1>8. TreeInv'
  <2>1. \A x \in Folder : LinksKept(slots[x], slots'[x]) /\ (slots'[x] = << >> <=> slots[x] = << >>)
    <3> TAKE x \in Folder
    <3>1. CASE x = d
      BY <3>1, <1>3, <1>4, <1>5
    <3>2. CASE x # d
      BY <3>2, <1>5 DEF LinksKept, DotsKept
    <3> QED
      BY <3>1, <3>2
  <2> QED
    BY <1>1, <1>2, <1>6, <2>1, TreeKept
<1>9. TreeTypes'
  BY <1>1, <1>2 DEF TreeTypes, ListType, ScalarInv
<1>10. ListInv'
  <2>1. iter.dir \in Used => /\ slots'[iter.dir] # << >>
                             /\ \A j \in Entries(slots[iter.dir]) :
                                  j \in Entries(slots'[iter.dir]) /\ slots'[iter.dir][j] = slots[iter.dir][j]
    BY <1>3, <1>4, <1>5 DEF Used, EntriesKept
  <2> QED
    BY <1>1, <1>2, <1>9, <2>1, ListKept DEF TreeTypes
<1> QED
  BY <1>6, <1>7, <1>8, <1>9, <1>10 DEF IInv

LEMMA UnlinkStep ==
  ASSUME IInv, NEW p \in Path, Unlink(p)  PROVE IInv'
<1> DEFINE f == FromPath(p)
           d == f.dir
           e == EntryAt(f)
           t == Removed(slots[d], f.at)
<1>1. /\ ~gone /\ f.found /\ ~IsDirectory(e) /\ calls' \in 0 .. MaxCalls
      /\ slots' = [slots EXCEPT ![d] = t] /\ Forgets(d, e)
      /\ UNCHANGED <<free, data, iter, gone, lost, moved>>
  BY CallCounts DEF IInv, TreeTypes, Unlink, Call
<1>2. /\ TreeTypes /\ DirInv /\ CountInv /\ TreeInv /\ ListInv /\ slots \in [Folder -> Seq(Slot)]
  BY DEF IInv, DirInv
<1>3. /\ d \in Live /\ d \in Folder /\ slots[d] # << >> /\ f.at \in Entries(slots[d])
      /\ e = slots[d][f.at].of /\ ~IsDot(e) /\ e \in EntryRecord
  <2>1. d \in Live /\ f.at \in Entries(slots[d]) /\ e = slots[d][f.at].of /\ ~IsDot(e) /\ e \in EntryRecord
    BY <1>1, <1>2, FromPathIs
  <2> QED
    BY <1>1, <1>2, <2>1, LiveIs DEF Used
<1>4. Sound(slots[d])
  BY <1>2, <1>3 DEF DirInv, Sound
<1> HIDE DEF f
<1>5. Sound(t) /\ t # << >> /\ Len(t) = Len(slots[d]) /\ OneLess(slots[d], t, f.at)
  BY <1>3, <1>4, RemoveFrom
<1> HIDE DEF d, e, t
<1>6. /\ DOMAIN slots' = Folder /\ slots' = [x \in Folder |-> slots'[x]]
      /\ slots'[d] = t /\ \A x \in Folder \ {d} : slots'[x] = slots[x]
  BY <1>1, <1>2, <1>3
<1>7. DirInv'
  BY <1>2, <1>5, <1>6, DirsKept
<1>8. CountInv'
  BY <1>1, <1>2, <1>5, <1>6, CountSame DEF CountInv
<1>9. LinksKept(slots[d], t)
  BY <1>1, <1>3, <1>5, LinksOfLessFile
<1>10. TreeInv'
  <2>1. \A x \in Folder : LinksKept(slots[x], slots'[x]) /\ (slots'[x] = << >> <=> slots[x] = << >>)
    <3> TAKE x \in Folder
    <3>1. CASE x = d
      BY <3>1, <1>3, <1>5, <1>6, <1>9
    <3>2. CASE x # d
      BY <3>2, <1>6 DEF LinksKept, DotsKept
    <3> QED
      BY <3>1, <3>2
  <2> QED
    BY <1>1, <1>2, <1>7, <2>1, TreeKept
<1>11. /\ heard'.told = heard.told /\ heard'.twice = heard.twice /\ heard'.stays \subseteq heard.stays
       /\ heard' \in [stays : SUBSET EntryRecord, told : SUBSET EntryRecord, twice : BOOLEAN]
       /\ iter.dir = d => e \notin heard'.stays
  BY <1>1, <1>2 DEF Forgets, TreeTypes, ListType
<1>12. TreeTypes'
  BY <1>1, <1>2, <1>11 DEF TreeTypes, ListType, ScalarInv
<1>13. ListInv'
  <2>1. iter.dir \in Used => /\ slots'[iter.dir] # << >>
                             /\ \A j \in Entries(slots[iter.dir]) : slots[iter.dir][j].of \in heard'.stays =>
                                  j \in Entries(slots'[iter.dir]) /\ slots'[iter.dir][j] = slots[iter.dir][j]
    <3>1. CASE iter.dir = d
      BY <3>1, <1>3, <1>5, <1>6, <1>11 DEF OneLess
    <3>2. CASE iter.dir # d
      BY <3>2, <1>6 DEF Used
    <3> QED
      BY <3>1, <3>2
  <2> QED
    BY <1>1, <1>2, <1>11, <1>12, <2>1, ListKept DEF TreeTypes
<1> QED
  BY <1>7, <1>8, <1>10, <1>12, <1>13 DEF IInv

\* Where no cluster is free no directory is either; a new one has its two dots.
LEMMA FolderFree ==
  ASSUME DirInv, CountInv, free > 0  PROVE \E x \in Folder : slots[x] = << >>
<1> SUFFICES ASSUME \A x \in Folder : slots[x] # << >>  PROVE FALSE
  OBVIOUS
<1>1. ASSUME NEW x \in Folder  PROVE ClustersOf(x) \in Nat \ {0}
  <2>1. slots[x] \in Seq(Slot) /\ slots[x] # << >> /\ Len(slots[x]) % PerCluster = 0
    BY ReadableParts DEF DirInv
  <2>2. Len(slots[x]) \in Nat \ {0}
    BY <2>1
  <2>3. \A n \in Nat \ {0} : n % PerCluster = 0 => n \div PerCluster \in Nat \ {0}
    BY Constants
  <2> QED
    BY <2>1, <2>2, <2>3 DEF ClustersOf
<1> DEFINE first == Folder \X {1}
<1>2. first \subseteq FolderClusters
  <2> SUFFICES ASSUME NEW x \in Folder  PROVE <<x, 1>> \in FolderClusters
    OBVIOUS
  <2>1. 1 \in 1 .. ClustersOf(x)
    BY <1>1
  <2> QED
    BY <2>1 DEF FolderClusters
<1>3. IsFiniteSet(first) /\ Cardinality(first) = Cardinality(Folder) * 1
  <2>1. IsFiniteSet({1}) /\ Cardinality({1}) = 1
    BY FS_Singleton
  <2> QED
    BY <2>1, TreeAssumption, FS_Product
<1>4. Cardinality(Folder) \in Nat /\ Cardinality(Folder) >= Clusters
  BY TreeAssumption, FS_CardinalityType
<1>5. Cardinality(first) <= Cardinality(FolderClusters) /\ Cardinality(FolderClusters) \in Nat
  BY <1>2, FS_Subset, FS_CardinalityType DEF CountInv
<1> HIDE DEF first
<1>6. free \in Nat /\ data \in Nat /\ free + data + Cardinality(FolderClusters) = Clusters
  BY DEF CountInv
<1>7. Cardinality(FolderClusters) < Clusters
  BY <1>5, <1>6, TreeAssumption
<1> QED
  BY <1>3, <1>4, <1>5, <1>7, TreeAssumption

LEMMA Joined ==
  ASSUME NEW u \in Seq(Slot), NEW v \in Seq(Slot)
  PROVE  /\ u \o v \in Seq(Slot) /\ Len(u \o v) = Len(u) + Len(v)
         /\ \A i \in 1 .. Len(u) : (u \o v)[i] = u[i]
         /\ \A i \in 1 .. Len(u \o v) : i > Len(u) => (u \o v)[i] = v[i - Len(u)]
OBVIOUS

LEMMA NewDirectory ==
  ASSUME NEW x \in Folder, NEW d \in Folder
  PROVE  LET t == Dots(x, d) \o Blank(PerCluster - 2) IN
         /\ Sound(t) /\ t # << >> /\ Len(t) = PerCluster /\ LinkedOf(t) = {}
         /\ Knows(t, x, d, {})
<1> DEFINE a == Entry(".", ".", x)
           b == Entry("..", "..", d)
           n == PerCluster - 2
           t == Dots(x, d) \o Blank(n)
<1>1. n \in Nat
  BY Constants
<1>2. a \in EntryRecord /\ b \in EntryRecord /\ a.name = "." /\ b.name = ".." /\ b.sub = d
      /\ a.alias = "." /\ b.alias = ".."
  BY TreeAssumption DEF Entry, EntryRecord, DotNames
<1>3. Size(".") = 1 /\ Size("..") = 1
  BY SizeBounds, TreeAssumption DEF DotNames
<1>4. Part(a, 1) \in Slot /\ Part(b, 1) \in Slot /\ Last \in Slot
  BY <1>2, Constants DEF Part, Slot
<1>5. Dots(x, d) = <<Part(a, 1), Part(b, 1)>>
  BY DEF Dots
<1> HIDE DEF a, b, n
<1>6. Blank(n) \in Seq(Slot) /\ Len(Blank(n)) = n /\ \A i \in 1 .. n : Blank(n)[i] = Last
  <2>1. Blank(n) \in [1 .. n -> Slot]
    BY <1>4 DEF Blank
  <2> QED
    BY <1>1, <2>1 DEF Blank
<1>7. Dots(x, d) \in Seq(Slot) /\ Len(Dots(x, d)) = 2 /\ Dots(x, d)[1] = Part(a, 1) /\ Dots(x, d)[2] = Part(b, 1)
  BY <1>4, <1>5
<1> DEFINE u == Dots(x, d)
           v == Blank(n)
<1>20. t = u \o v /\ u \in Seq(Slot) /\ v \in Seq(Slot) /\ Len(u) = 2 /\ Len(v) = n
       /\ u[1] = Part(a, 1) /\ u[2] = Part(b, 1)
  BY <1>6, <1>7
<1> HIDE DEF t, u, v
<1>8. t \in Seq(Slot) /\ Len(t) = 2 + n
  <2>1. u \o v \in Seq(Slot) /\ Len(u \o v) = Len(u) + Len(v)
    BY <1>20, Joined
  <2> QED
    BY <2>1, <1>20, Zenon
<1>9. Len(t) = PerCluster
  BY <1>8, Constants DEF n
<1>10. t[1] = Part(a, 1) /\ t[2] = Part(b, 1)
  <2>1. t[1] = u[1] /\ t[2] = u[2]
    <3>1. 1 \in 1 .. 2 /\ 2 \in 1 .. 2
      OBVIOUS
    <3> QED
      BY <3>1, <1>20, Joined
  <2> QED
    BY <2>1, <1>20
<1>11. ASSUME NEW i \in 1 .. Len(t), i # 1, i # 2  PROVE t[i] = Last
  <2>1. i - 2 \in 1 .. n /\ i > 2 /\ i <= 2 + n
    BY <1>1, <1>8, <1>11
  <2>2. t[i] = v[i - 2]
    BY <1>1, <1>20, <1>8, <2>1
  <2> QED
    BY <2>1, <2>2, <1>6 DEF v
<1>12. Part(a, 1) # Last /\ Part(b, 1) # Last
  BY PartsOf, Marks
<1>13. ASSUME NEW i \in {1, 2}  PROVE Start(t, i) = i /\ Whole(t, i, i)
  <2>1. Size(t[i].of.name) = 1 /\ t[i].part = 1 /\ t[i] = Part(t[i].of, 1)
    BY <1>2, <1>3, <1>10, <1>13, PartsOf
  <2>2. Start(t, i) = i
    BY <2>1, <1>13 DEF Start
  <2>3. i >= 1 /\ i - i + 1 = 1 /\ \A k \in i .. i : k = i
    BY <1>13
  <2> QED
    BY <2>1, <2>2, <2>3 DEF Whole
<1>14. Readable(t)
  <2>1. ASSUME NEW i \in 1 .. Len(t), NEW k \in 1 .. Len(t), t[i] = Last, i <= k  PROVE t[k] = Last
    <3>1. i # 1 /\ i # 2
      BY <2>1, <1>10, <1>12
    <3>2. k # 1 /\ k # 2
      BY <3>1, <2>1, <1>9, Constants
    <3> QED
      BY <3>2, <1>11
  <2>2. ASSUME NEW i \in 1 .. Len(t), t[i] \notin {Last, Free}
        PROVE  \E j \in i .. Len(t) : i >= Start(t, j) /\ Whole(t, Start(t, j), j)
    <3>1. i \in {1, 2}
      BY <2>2, <1>11
    <3>2. i \in i .. Len(t) /\ i >= Start(t, i) /\ Whole(t, Start(t, i), i)
      BY <3>1, <1>13, <1>9, Constants
    <3> QED
      BY <3>2
  <2>3. Len(t) % PerCluster = 0
    BY <1>9, Constants
  <2> QED
    BY <2>1, <2>2, <2>3, <1>8, ReadableBy
<1>15. Entries(t) = {1, 2}
  <2>1. 1 \in 1 .. Len(t) /\ 2 \in 1 .. Len(t)
    BY <1>9, Constants
  <2>2. \A i \in 1 .. Len(t) : t[i].part = 1 <=> i \in {1, 2}
    BY <1>10, <1>11, PartsOf, Marks
  <2> QED
    BY <2>1, <2>2, <1>14, EntriesAre
<1>16. t[1].of = a /\ t[2].of = b
  BY <1>10, PartsOf
<1>17. Distinct(t)
  BY <1>2, <1>15, <1>16 DEF Distinct, NamesOf
<1>18. LinkedOf(t) = {} /\ Knows(t, x, d, {})
  BY <1>2, <1>15, <1>16 DEF LinkedOf, Knows, IsDot, DotNames
<1>19. t # << >>
  BY <1>8, <1>1
<1> QED
  BY <1>8, <1>9, <1>14, <1>17, <1>18, <1>19 DEF Sound, t, n

LEMMA CountOfTwo ==
  ASSUME DirInv, CountInv, NEW d \in Folder, NEW x \in Folder, x # d, NEW k \in Nat, NEW l \in Nat,
         Len(slots'[d]) = Len(slots[d]) + k * PerCluster,
         Len(slots'[x]) = Len(slots[x]) + l * PerCluster,
         \A y \in Folder \ {d, x} : Len(slots'[y]) = Len(slots[y]),
         free' \in Nat, data' \in Nat, free' + data' + k + l = free + data
  PROVE  CountInv'
<1>1. FolderClusters' = Pairs(Widths') /\ FolderClusters = Pairs(Widths)
  BY DEF FolderClusters, Pairs, Widths
<1>2. \A y \in Folder : /\ Widths'[y] = Len(slots'[y]) \div PerCluster
                        /\ Widths[y] = Len(slots[y]) \div PerCluster
  BY DEF Widths, ClustersOf
<1>3. /\ Len(slots[d]) \in Nat /\ Len(slots[d]) % PerCluster = 0
      /\ Len(slots[x]) \in Nat /\ Len(slots[x]) % PerCluster = 0
  BY ReadableParts DEF DirInv
<1>4. /\ Widths'[d] = Widths[d] + k /\ Widths[d] \in Nat
      /\ Widths'[x] = Widths[x] + l /\ Widths[x] \in Nat
  <2> DEFINE n == Len(slots[d])
             m == Len(slots[x])
  <2>0. n \in Nat /\ m \in Nat /\ n % PerCluster = 0 /\ m % PerCluster = 0
    BY <1>3
  <2> HIDE DEF n, m
  <2>3. /\ (n + k * PerCluster) \div PerCluster = n \div PerCluster + k /\ n \div PerCluster \in Nat
        /\ (m + l * PerCluster) \div PerCluster = m \div PerCluster + l /\ m \div PerCluster \in Nat
    BY <2>0, ClustersGrow
  <2>1. Widths'[d] = Widths[d] + k /\ Widths[d] \in Nat
    BY <1>2, <2>3, Zenon DEF n
  <2>2. Widths'[x] = Widths[x] + l /\ Widths[x] \in Nat
    BY <1>2, <2>3, Zenon DEF m
  <2> QED
    BY <2>1, <2>2
<1> DEFINE mid == [y \in Folder |-> IF y = d THEN Widths[d] + k ELSE Widths[y]]
<1>5. /\ mid[d] = Widths[d] + k /\ \A y \in Folder \ {d} : mid[y] = Widths[y]
      /\ mid[x] \in Nat /\ Widths'[x] = mid[x] + l /\ \A y \in Folder \ {x} : Widths'[y] = mid[y]
  <2>1. mid[d] = Widths[d] + k /\ \A y \in Folder \ {d} : mid[y] = Widths[y]
    OBVIOUS
  <2>2. \A y \in Folder \ {x} : Widths'[y] = mid[y]
    BY <1>2, <1>4
  <2> QED
    BY <1>4, <2>1, <2>2
<1> HIDE DEF mid
<1>6. IsFiniteSet(Pairs(mid)) /\ Cardinality(Pairs(mid)) = Cardinality(Pairs(Widths)) + k
  BY <1>1, <1>4, <1>5, Widened DEF CountInv
<1>7. IsFiniteSet(Pairs(Widths')) /\ Cardinality(Pairs(Widths')) = Cardinality(Pairs(mid)) + l
  <2> DEFINE v == Widths'
  <2>1. /\ v[x] = mid[x] + l /\ mid[x] \in Nat /\ \A y \in Folder \ {x} : v[y] = mid[y]
        /\ IsFiniteSet(Pairs(mid))
    BY <1>5, <1>6
  <2> HIDE DEF v
  <2>2. IsFiniteSet(Pairs(v)) /\ Cardinality(Pairs(v)) = Cardinality(Pairs(mid)) + l
    BY <2>1, Widened
  <2> QED
    BY <2>2 DEF v
<1>8. Cardinality(Pairs(Widths)) \in Nat
  BY <1>1, FS_CardinalityType DEF CountInv
<1> DEFINE f2 == free'
           d2 == data'
           c2 == Cardinality(Pairs(Widths'))
           cm == Cardinality(Pairs(mid))
           c1 == Cardinality(Pairs(Widths))
<1>9. /\ f2 \in Nat /\ d2 \in Nat /\ f2 + d2 + k + l = free + data
      /\ cm = c1 + k /\ c2 = cm + l /\ c1 \in Nat
      /\ free \in Nat /\ data \in Nat /\ free + data + c1 = Clusters
  BY <1>1, <1>6, <1>7, <1>8 DEF CountInv
<1> HIDE DEF f2, d2, c2, cm, c1
<1>10. f2 + d2 + c2 = Clusters
  BY <1>9
<1> QED
  BY <1>1, <1>7, <1>9, <1>10 DEF CountInv, f2, d2, c2

\* An entry of a directory that comes or goes, and the entries of the others.
LEMMA OneLinkOfMore ==
  ASSUME NEW s, NEW t, NEW x, NEW y, MoreLink(s, t, x),
         IF y = x THEN y \notin SubsOf(s) ELSE OneLink(s, y)
  PROVE  OneLink(t, y)
<1>1. PICK j : /\ j \notin LinkedOf(s) /\ LinkedOf(t) = LinkedOf(s) \cup {j} /\ t[j].of.sub = x
               /\ \A k \in LinkedOf(s) : t[k] = s[k]
  BY DEF MoreLink
<1>2. CASE y = x
  <2>1. \A k \in LinkedOf(t) : t[k].of.sub = y <=> k = j
    BY <1>1, <1>2 DEF SubsOf
  <2> QED
    BY <1>1, <2>1 DEF OneLink
<1>3. CASE y # x
  <2>1. PICK i \in LinkedOf(s) : \A k \in LinkedOf(s) : s[k].of.sub = y <=> k = i
    BY <1>3 DEF OneLink
  <2>2. \A k \in LinkedOf(t) : t[k].of.sub = y <=> k = i
    BY <1>1, <1>3, <2>1
  <2> QED
    BY <1>1, <2>1, <2>2 DEF OneLink
<1> QED
  BY <1>2, <1>3

LEMMA OneLinkOfLess ==
  ASSUME NEW s, NEW t, NEW j, NEW y, OneLess(s, t, j), s[j].of.sub # y, OneLink(s, y)
  PROVE  OneLink(t, y)
<1>1. PICK i \in LinkedOf(s) : \A k \in LinkedOf(s) : s[k].of.sub = y <=> k = i
  BY DEF OneLink
<1>2. i # j /\ i \in LinkedOf(t)
  BY <1>1 DEF OneLess, LinkedOf
<1>3. \A k \in LinkedOf(t) : k \in LinkedOf(s) /\ t[k] = s[k]
  BY DEF OneLess, LinkedOf
<1>4. \A k \in LinkedOf(t) : t[k].of.sub = y <=> k = i
  BY <1>1, <1>3
<1> QED
  BY <1>2, <1>4 DEF OneLink

LEMMA HangsStill ==
  ASSUME NEW y \in Folder, NEW p \in Folder, HangsIn(y, p),
         OneLink(slots'[p], y), DotsKept(slots[y], slots'[y]), y \in moved => y \in moved',
         \A q \in Folder \ {p} : y \in SubsOf(slots'[q]) => y \in SubsOf(slots[q])
  PROVE  HangsIn(y, p)'
<1>1. Knows(slots'[y], y, p, moved')
  BY KnowsKept DEF HangsIn
<1> QED
  BY <1>1 DEF HangsIn

\* A new directory in d, and one that could not be entered there.
LEMMA TreeGrows ==
  ASSUME DirInv, DirInv', TreeInv, ~gone, NEW d \in Live, NEW x \in Folder \ Used,
         MoreLink(slots[d], slots'[d], x), slots'[d] # << >>, slots'[x] # << >>,
         LinkedOf(slots'[x]) = {}, Knows(slots'[x], x, d, {}),
         \A q \in Folder \ {d, x} : slots'[q] = slots[q],
         UNCHANGED <<lost, moved>>
  PROVE  TreeInv'
<1>1. d \in Folder /\ d # x /\ x # Root /\ slots[x] = << >> /\ x \notin lost /\ d \in Used
  BY LiveIs DEF Used, TreeInv
<1>2. /\ SubsOf(slots'[d]) = SubsOf(slots[d]) \cup {x} /\ SubsOf(slots'[x]) = {}
      /\ \A q \in Folder \ {d, x} : SubsOf(slots'[q]) = SubsOf(slots[q])
      /\ SubsOf(slots[x]) = {}
  <2>1. Entries(<< >>) = {}
    BY BlankDirectory, Constants DEF Entries
  <2> QED
    BY <1>1, <2>1 DEF MoreLink, SubsOf, LinkedOf
<1>3. Used' = Used \cup {x}
  BY <1>1 DEF Used
<1>4. Live' = Live \cup {x}
  <2>1. /\ Kids \in Graph /\ \A q \in Folder : Kids[q] = SubsOf(slots[q])
        /\ Live = Reach(Kids, {Root})
    BY KidsAre, LiveIs
  <2>2. /\ Kids' \in Graph /\ \A q \in Folder : Kids'[q] = SubsOf(slots'[q])
        /\ Live' = Reach(Kids', {Root})
    BY KidsAreNext
  <2>3. /\ d \in Reach(Kids, {Root}) /\ Kids[x] = {} /\ Kids'[d] = Kids[d] \cup {x}
        /\ \A q \in Folder \ {d} : Kids'[q] = Kids[q]
    BY <1>1, <1>2, <2>1, <2>2
  <2> DEFINE old == Kids
             new == Kids'
  <2> HIDE DEF old, new
  <2>4. Reach(new, {Root}) = Reach(old, {Root}) \cup {x}
    BY <2>1, <2>2, <2>3, LeafAdded, Constants DEF old, new
  <2> QED
    BY <2>1, <2>2, <2>4 DEF old, new
<1>5. HangsIn(x, d)'
  <2>1. \A q \in Folder : x \notin SubsOf(slots[q])
    BY LiveIs
  <2>2. OneLink(slots'[d], x)
    BY <1>1, <2>1, OneLinkOfMore
  <2>3. Knows(slots'[x], x, d, moved')
    BY DEF Knows
  <2>4. \A q \in Folder \ {d} : x \notin SubsOf(slots'[q])
    BY <1>2, <2>1
  <2> QED
    BY <2>2, <2>3, <2>4 DEF HangsIn
<1>6. ASSUME NEW y \in Live \ {Root}  PROVE \E p \in Live : HangsIn(y, p)'
  <2>1. PICK p \in Live : HangsIn(y, p)
    BY <1>6, LiveIs
  <2>2. p \in Folder /\ y \in Folder /\ y # x /\ p # x
    BY <1>1, LiveIs
  <2>3. OneLink(slots'[p], y)
    <3>1. OneLink(slots[p], y)
      BY <2>1 DEF HangsIn
    <3>2. CASE p = d
      BY <3>1, <3>2, <2>2, OneLinkOfMore
    <3>3. CASE p # d
      BY <3>1, <3>3, <2>2
    <3> QED
      BY <3>2, <3>3
  <2>4. DotsKept(slots[y], slots'[y])
    BY <2>2 DEF MoreLink, DotsKept
  <2>5. \A q \in Folder \ {p} : y \in SubsOf(slots'[q]) => y \in SubsOf(slots[q])
    BY <1>2, <2>2
  <2> QED
    BY <2>1, <2>2, <2>3, <2>4, <2>5, HangsStill
<1>7. \A q \in Folder : SubsOf(slots'[q]) \subseteq Used' \ {Root}
  BY <1>1, <1>2, <1>3, LiveIs
<1>8. \A y \in Live' \ {Root} : \E p \in Live' : HangsIn(y, p)'
  BY <1>1, <1>4, <1>5, <1>6
<1> QED
  BY <1>1, <1>3, <1>4, <1>7, <1>8, LiveIs DEF TreeInv

LEMMA TreeLoses ==
  ASSUME DirInv, DirInv', TreeInv, ~gone, NEW d \in Live, NEW x \in Folder \ Used,
         LinksKept(slots[d], slots'[d]), slots'[d] # << >>, slots'[x] # << >>,
         Entries(slots'[x]) = {}, \A q \in Folder \ {d, x} : slots'[q] = slots[q],
         lost' = lost \cup {x}, moved' = moved
  PROVE  TreeInv'
<1>1. d \in Folder /\ d # x /\ x # Root /\ slots[x] = << >> /\ d \in Used /\ x \notin Live
  BY LiveIs DEF Used, TreeInv
<1>2. \A q \in Folder : LinksKept(slots[q], slots'[q])
  <2>1. Entries(<< >>) = {}
    BY DEF Entries
  <2>2. LinksKept(slots[x], slots'[x])
    BY <1>1, <2>1 DEF LinksKept, LinkedOf, DotsKept
  <2>3. \A q \in Folder \ {d, x} : LinksKept(slots[q], slots'[q])
    BY DEF LinksKept, DotsKept
  <2> QED
    BY <2>2, <2>3
<1>3. Used' = Used \cup {x}
  BY <1>1 DEF Used
<1>4. \A q \in Folder : SubsOf(slots'[q]) = SubsOf(slots[q])
  BY <1>2, SubsKept
<1>5. Live' = Live
  <2>1. Kids' = [q \in Folder |-> SubsOf(slots'[q])] /\ Kids = [q \in Folder |-> SubsOf(slots[q])]
    BY DEF Kids, SubsOf, SubFolders, Linked, LinkedOf
  <2>2. Kids' = Kids
    BY <1>4, <2>1
  <2> QED
    BY <2>2, KidsAreNext, LiveIs
<1>6. ASSUME NEW y \in Live \ {Root}, NEW p \in Live, HangsIn(y, p)  PROVE HangsIn(y, p)'
  <2>1. y \in Folder /\ p \in Folder
    BY LiveIs
  <2>2. OneLink(slots'[p], y)
    BY <1>2, <1>6, <2>1, OneLinkKept DEF HangsIn
  <2>3. DotsKept(slots[y], slots'[y])
    BY <1>2, <2>1 DEF LinksKept
  <2> QED
    BY <1>4, <1>6, <2>1, <2>2, <2>3, HangsStill
<1>7. \A y \in Live \ {Root} : \E p \in Live : HangsIn(y, p)'
  BY <1>6, LiveIs
<1>8. \A y \in Live' \ {Root} : \E p \in Live' : HangsIn(y, p)'
  BY <1>5, <1>7
<1> QED
  BY <1>1, <1>3, <1>4, <1>5, <1>8, LiveIs DEF TreeInv

LEMMA MkdirStep ==
  ASSUME IInv, NEW p \in Path, Mkdir(p)  PROVE IInv'
<1> DEFINE d == ParentFolder(p)
           x == CHOOSE y \in Folder : slots[y] = << >>
           r == AddEntry(d, LastName(p), x, free - 1)
           born == IF r.ok THEN Dots(x, d) \o Blank(PerCluster - 2) ELSE Blank(PerCluster)
<1>1. /\ ~gone /\ d # NoFolder /\ calls' \in 0 .. MaxCalls /\ free > 0
      /\ slots' = [slots EXCEPT ![d] = r.slots, ![x] = born]
      /\ free' = free - 1 - r.taken
      /\ lost' = IF r.ok THEN lost ELSE lost \cup {x}
      /\ UNCHANGED <<data, iter, gone, moved, heard>>
  BY CallCounts DEF IInv, TreeTypes, Mkdir, Call
<1>2. /\ TreeTypes /\ DirInv /\ CountInv /\ TreeInv /\ ListInv /\ slots \in [Folder -> Seq(Slot)]
      /\ free \in Nat /\ data \in Nat
  BY DEF IInv, DirInv, CountInv
<1>3. d \in Live /\ d \in Folder /\ slots[d] # << >>
  BY <1>1, <1>2, ParentIs, LiveIs DEF Used
<1>4. x \in Folder /\ slots[x] = << >> /\ x # d /\ x \notin Used /\ x # NoFolder
  <2>1. \E y \in Folder : slots[y] = << >>
    BY <1>1, <1>2, FolderFree
  <2>2. x \in Folder /\ slots[x] = << >>
    BY <2>1
  <2> HIDE DEF x, d
  <2> QED
    BY <2>2, <1>3, Constants DEF Used
<1> HIDE DEF x
<1>5. /\ r.ok \in BOOLEAN /\ r.taken \in 0 .. free - 1 /\ Sound(r.slots) /\ r.slots # << >>
      /\ Len(r.slots) = Len(slots[d]) + r.taken * PerCluster
      /\ EntriesKept(slots[d], r.slots)
      /\ ~r.ok => LinksKept(slots[d], r.slots)
      /\ r.ok => MoreLink(slots[d], r.slots, x)
  <2>1. free - 1 \in Nat
    BY <1>1, <1>2
  <2> QED
    BY <1>2, <1>3, <1>4, <2>1, AddTo, PathParts
<1>6. /\ Sound(born) /\ born # << >> /\ Len(born) = PerCluster
      /\ r.ok => LinkedOf(born) = {} /\ Knows(born, x, d, {})
      /\ ~r.ok => Entries(born) = {}
  <2>1. CASE r.ok
    BY <2>1, <1>3, <1>4, NewDirectory
  <2>2. CASE ~r.ok
    <3>1. born = Blank(1 * PerCluster)
      BY <2>2, Constants
    <3>2. 1 \in Nat /\ 1 * PerCluster = PerCluster
      BY Constants
    <3>3. /\ Readable(born) /\ Distinct(born) /\ Len(born) = PerCluster /\ Entries(born) = {}
      BY <3>1, <3>2, BlankDirectory
    <3> HIDE DEF born
    <3>4. born \in Seq(Slot) /\ born # << >>
      BY <3>3, ReadableParts, Constants
    <3> QED
      BY <2>2, <3>3, <3>4 DEF Sound
  <2> QED
    BY <2>1, <2>2
<1> HIDE DEF d, r, born
<1>7. /\ DOMAIN slots' = Folder /\ slots' = [y \in Folder |-> slots'[y]]
      /\ slots'[d] = r.slots /\ slots'[x] = born /\ \A y \in Folder \ {d, x} : slots'[y] = slots[y]
  BY <1>1, <1>2, <1>3, <1>4
<1>8. DirInv'
  BY <1>2, <1>5, <1>6, <1>7, DirsKept
<1>9. CountInv'
  <2>1. r.taken \in Nat /\ free' \in Nat /\ data' \in Nat /\ free' + data' + r.taken + 1 = free + data
    BY <1>1, <1>2, <1>5
  <2>2. Len(slots'[x]) = Len(slots[x]) + 1 * PerCluster
    <3>1. Len(slots[x]) = 0 /\ Len(slots'[x]) = PerCluster /\ 0 + 1 * PerCluster = PerCluster
      BY <1>4, <1>6, <1>7, Constants
    <3> QED
      BY <3>1
  <2>3. /\ Len(slots'[d]) = Len(slots[d]) + r.taken * PerCluster
        /\ \A y \in Folder \ {d, x} : Len(slots'[y]) = Len(slots[y])
    BY <1>5, <1>7
  <2> DEFINE k == r.taken
  <2>4. k \in Nat /\ free' + data' + k + 1 = free + data /\ Len(slots'[d]) = Len(slots[d]) + k * PerCluster
    BY <2>1, <2>3
  <2>5. DirInv /\ CountInv /\ d \in Folder /\ x \in Folder /\ x # d /\ 1 \in Nat
    BY <1>2, <1>3, <1>4
  <2>6. free' \in Nat /\ data' \in Nat /\ \A y \in Folder \ {d, x} : Len(slots'[y]) = Len(slots[y])
    BY <2>1, <2>3
  <2> HIDE DEF k
  <2> QED
    BY <2>2, <2>4, <2>5, <2>6, CountOfTwo
<1>10. TreeInv'
  <2>1. CASE r.ok
    BY <2>1, <1>1, <1>2, <1>3, <1>4, <1>5, <1>6, <1>7, <1>8, TreeGrows
  <2>2. CASE ~r.ok
    BY <2>2, <1>1, <1>2, <1>3, <1>4, <1>5, <1>6, <1>7, <1>8, TreeLoses
  <2> QED
    BY <2>1, <2>2
<1>11. TreeTypes'
  BY <1>1, <1>2, <1>4 DEF TreeTypes, ListType, ScalarInv
<1>12. ListInv'
  <2>1. iter.dir \in Used => /\ slots'[iter.dir] # << >>
                             /\ \A j \in Entries(slots[iter.dir]) :
                                  j \in Entries(slots'[iter.dir]) /\ slots'[iter.dir][j] = slots[iter.dir][j]
    BY <1>4, <1>5, <1>7 DEF Used, EntriesKept
  <2> QED
    BY <1>1, <1>2, <1>11, <2>1, ListKept DEF TreeTypes
<1> QED
  BY <1>8, <1>9, <1>10, <1>11, <1>12 DEF IInv

\* The one entry that leads to a directory.
LEMMA HangsWhere ==
  ASSUME DirInv, TreeInv, ~gone, NEW d \in Live, NEW j \in LinkedOf(slots[d])
  PROVE  LET x == slots[d][j].of.sub IN
         /\ x \in Live \ {Root} /\ HangsIn(x, d)
         /\ \A k \in LinkedOf(slots[d]) : slots[d][k].of.sub = x => k = j
<1> DEFINE x == slots[d][j].of.sub
<1>1. x \in Live \ {Root}
  BY SubIsLive
<1>2. x \in SubsOf(slots[d])
  BY DEF SubsOf
<1>3. slots[d][j].of.sub = x
  OBVIOUS
<1> HIDE DEF x
<1>4. PICK p \in Live : HangsIn(x, p)
  BY <1>1, LiveIs
<1>5. p = d
  BY <1>2, <1>4, LiveIs DEF HangsIn
<1>6. PICK i \in LinkedOf(slots[d]) : \A k \in LinkedOf(slots[d]) : slots[d][k].of.sub = x <=> k = i
  BY <1>4, <1>5 DEF HangsIn, OneLink
<1>7. i = j
  BY <1>3, <1>6
<1> QED
  BY <1>1, <1>4, <1>5, <1>6, <1>7 DEF x

\* A directory without entries that goes.
LEMMA TreeLoosens ==
  ASSUME DirInv, DirInv', TreeInv, ~gone, NEW d \in Live, NEW j \in LinkedOf(slots[d]),
         NEW x, x = slots[d][j].of.sub, LinkedOf(slots[x]) = {},
         OneLess(slots[d], slots'[d], j), slots'[d] # << >>, slots'[x] = << >>,
         \A q \in Folder \ {d, x} : slots'[q] = slots[q],
         lost' = lost, moved' = moved \ {x}
  PROVE  TreeInv'
<1>1. /\ x \in Live \ {Root} /\ HangsIn(x, d) /\ d \in Folder /\ x \in Folder /\ x # d
      /\ \A k \in LinkedOf(slots[d]) : slots[d][k].of.sub = x => k = j
  BY HangsWhere, LiveIs
<1>2. /\ SubsOf(slots'[d]) = SubsOf(slots[d]) \ {x} /\ DotsKept(slots[d], slots'[d])
      /\ SubsOf(slots[x]) = {} /\ SubsOf(slots'[x]) = {}
      /\ \A q \in Folder \ {d, x} : SubsOf(slots'[q]) = SubsOf(slots[q])
  <2>1. Entries(<< >>) = {}
    BY DEF Entries
  <2>2. SubsOf(slots[x]) = {} /\ SubsOf(slots'[x]) = {}
    BY <2>1 DEF SubsOf, LinkedOf
  <2>3. SubsOf(slots'[d]) = SubsOf(slots[d]) \ {x} /\ DotsKept(slots[d], slots'[d])
    BY <1>1, LinksOfLessFolder
  <2> QED
    BY <2>2, <2>3
<1>3. Used' = Used \ {x} /\ x \notin lost
  <2>1. \A q \in Live : slots[q] # << >>
    BY LiveIs DEF Used
  <2> QED
    BY <1>1, <2>1, LiveIs DEF Used
<1>4. \A q \in Folder \ {d} : x \notin SubsOf(slots[q])
  BY <1>1 DEF HangsIn
<1>5. Live' = Live \ {x}
  <2>1. /\ Kids \in Graph /\ \A q \in Folder : Kids[q] = SubsOf(slots[q])
        /\ Live = Reach(Kids, {Root})
    BY KidsAre, LiveIs
  <2>2. /\ Kids' \in Graph /\ \A q \in Folder : Kids'[q] = SubsOf(slots'[q])
        /\ Live' = Reach(Kids', {Root})
    BY KidsAreNext
  <2>3. /\ Kids[x] = {} /\ Kids'[d] = Kids[d] \ {x}
        /\ \A q \in Folder \ {d} : Kids'[q] = Kids[q]
        /\ \A q \in Reach(Kids, {Root}) \ {d} : x \notin Kids[q]
    <3>1. \A q \in Folder \ {d, x} : Kids'[q] = Kids[q]
      BY <1>2, <2>1, <2>2
    <3>2. Kids[x] = {} /\ Kids'[x] = {} /\ Kids'[d] = Kids[d] \ {x}
      BY <1>1, <1>2, <2>1, <2>2
    <3>3. \A q \in Live \ {d} : x \notin Kids[q]
      <4>1. Live \subseteq Folder
        BY LiveIs
      <4>2. \A q \in Folder \ {d} : x \notin Kids[q]
        BY <1>4, <2>1
      <4> QED
        BY <4>1, <4>2
    <3> QED
      BY <2>1, <3>1, <3>2, <3>3
  <2> DEFINE old == Kids
             new == Kids'
  <2> HIDE DEF old, new
  <2>4. Reach(new, {Root}) = Reach(old, {Root}) \ {x}
    BY <1>1, <2>1, <2>2, <2>3, LeafRemoved, Constants DEF old, new
  <2> QED
    BY <2>1, <2>2, <2>4 DEF old, new
<1>6. ASSUME NEW y \in Live \ {Root, x}  PROVE \E p \in Live \ {x} : HangsIn(y, p)'
  <2>1. PICK p \in Live : HangsIn(y, p)
    BY <1>6, LiveIs
  <2>2. p \in Folder /\ y \in Folder /\ y # x
    BY <1>6, LiveIs
  <2>3. OneLink(slots[p], y)
    BY <2>1 DEF HangsIn
  <2>4. p # x
    BY <2>3 DEF OneLink
  <2>5. OneLink(slots'[p], y)
    <3>1. CASE p = d
      BY <2>2, <2>3, <3>1, OneLinkOfLess
    <3>2. CASE p # d
      BY <2>2, <2>3, <2>4, <3>2
    <3> QED
      BY <3>1, <3>2
  <2>6. DotsKept(slots[y], slots'[y])
    BY <1>2, <2>2 DEF DotsKept
  <2>7. \A q \in Folder \ {p} : y \in SubsOf(slots'[q]) => y \in SubsOf(slots[q])
    BY <1>2
  <2>8. HangsIn(y, p)'
    BY <2>1, <2>2, <2>5, <2>6, <2>7, HangsStill
  <2> QED
    BY <2>4, <2>8
<1>7. \A q \in Folder : SubsOf(slots'[q]) \subseteq Used' \ {Root}
  BY <1>2, <1>3, <1>4, LiveIs
<1>8. \A y \in Live' \ {Root} : \E p \in Live' : HangsIn(y, p)'
  BY <1>5, <1>6
<1> QED
  BY <1>1, <1>3, <1>5, <1>7, <1>8, LiveIs DEF TreeInv

LEMMA RmdirStep ==
  ASSUME IInv, NEW p \in Path, Rmdir(p)  PROVE IInv'
<1> DEFINE f == FromPath(p)
           d == f.dir
           e == EntryAt(f)
           x == e.sub
           t == Removed(slots[d], f.at)
<1>1. /\ ~gone /\ f.found /\ IsDirectory(e) /\ Childless(slots[x]) /\ calls' \in 0 .. MaxCalls
      /\ slots' = [slots EXCEPT ![d] = Removed(@, f.at), ![x] = << >>]
      /\ free' = free + ClustersOf(x)
      /\ iter' = IF iter.dir = x THEN [iter EXCEPT !.loose = TRUE] ELSE iter
      /\ moved' = moved \ {x} /\ Forgets(d, e)
      /\ UNCHANGED <<data, gone, lost>>
  BY CallCounts DEF IInv, TreeTypes, Rmdir, Call
<1>2. /\ TreeTypes /\ DirInv /\ CountInv /\ TreeInv /\ ListInv /\ slots \in [Folder -> Seq(Slot)]
  BY DEF IInv, DirInv
<1>3. /\ d \in Live /\ d \in Folder /\ slots[d] # << >> /\ f.at \in LinkedOf(slots[d])
      /\ f.at \in Entries(slots[d]) /\ x = slots[d][f.at].of.sub
      /\ e = slots[d][f.at].of /\ e \in EntryRecord
  <2>1. /\ d \in Live /\ f.at \in Entries(slots[d]) /\ e = slots[d][f.at].of /\ e \in EntryRecord
        /\ f.at \in LinkedOf(slots[d])
    BY <1>1, <1>2, FromPathIs
  <2> QED
    BY <1>1, <1>2, <2>1, LiveIs DEF Used
<1>4. Sound(slots[d])
  BY <1>2, <1>3 DEF DirInv, Sound
<1> HIDE DEF f
<1>5. Sound(t) /\ t # << >> /\ Len(t) = Len(slots[d]) /\ OneLess(slots[d], t, f.at)
  BY <1>3, <1>4, RemoveFrom
<1>6. LinkedOf(slots[x]) = {}
  BY <1>1 DEF Childless, LinkedOf
<1>7. x \in Folder /\ x # d /\ x \in Live /\ slots[x] # << >>
  <2>1. x \in Live
    BY <1>1, <1>2, <1>3, HangsWhere
  <2>2. x # d
    BY <1>3, <1>6
  <2> QED
    BY <1>1, <1>2, <2>1, <2>2, LiveIs DEF Used
<1>8. Removed(slots[d], f.at) = t
  OBVIOUS
<1> HIDE DEF d, e, t, x
<1>9. /\ DOMAIN slots' = Folder /\ slots' = [y \in Folder |-> slots'[y]]
      /\ slots'[d] = t /\ slots'[x] = << >> /\ \A y \in Folder \ {d, x} : slots'[y] = slots[y]
  BY <1>1, <1>2, <1>3, <1>7, <1>8
<1>10. Sound(<< >>) /\ Len(<< >>) = 0
  <2>1. 0 % PerCluster = 0
    BY Constants
  <2>2. Readable(<< >>)
    BY <2>1 DEF Readable
  <2> QED
    BY <2>2 DEF Sound, Distinct, Entries
<1>11. DirInv'
  BY <1>2, <1>5, <1>9, <1>10, DirsKept
<1>12. CountInv'
  <2>1. Len(slots'[x]) = 0 /\ \A y \in Folder \ {x} : Len(slots'[y]) = Len(slots[y])
    BY <1>5, <1>9, <1>10
  <2> QED
    BY <1>1, <1>2, <1>7, <2>1, CountWithout
<1>13. TreeInv'
  <2> DEFINE j == f.at
  <2>1. j \in LinkedOf(slots[d]) /\ x = slots[d][j].of.sub /\ OneLess(slots[d], slots'[d], j)
    BY <1>3, <1>5, <1>9
  <2> HIDE DEF j
  <2>2. /\ DirInv /\ DirInv' /\ TreeInv /\ ~gone /\ d \in Live /\ LinkedOf(slots[x]) = {}
        /\ slots'[d] # << >> /\ slots'[x] = << >> /\ \A y \in Folder \ {d, x} : slots'[y] = slots[y]
        /\ lost' = lost /\ moved' = moved \ {x}
    BY <1>1, <1>2, <1>3, <1>5, <1>6, <1>9, <1>11
  <2> QED
    BY <2>1, <2>2, TreeLoosens
<1>14. /\ heard'.told = heard.told /\ heard'.twice = heard.twice /\ heard'.stays \subseteq heard.stays
       /\ heard' \in [stays : SUBSET EntryRecord, told : SUBSET EntryRecord, twice : BOOLEAN]
       /\ iter.dir = d => e \notin heard'.stays
  BY <1>1, <1>2 DEF Forgets, TreeTypes, ListType
<1>15. ListType'
  <2>1. CASE iter.dir = x
    <3>1. iter' = [iter EXCEPT !.loose = TRUE]
      BY <2>1, <1>1
    <3>2. /\ iter'.on = iter.on /\ iter'.valid = iter.valid /\ iter'.loose = TRUE
          /\ iter'.dir = iter.dir /\ iter'.at = iter.at /\ iter'.e = iter.e
          /\ DOMAIN iter' = DOMAIN iter
      BY <3>1, <1>2 DEF TreeTypes, ListType
    <3> QED
      BY <3>2, <1>2, <1>14 DEF TreeTypes, ListType
  <2>2. CASE iter.dir # x
    BY <2>2, <1>1, <1>2, <1>14 DEF TreeTypes, ListType
  <2> QED
    BY <2>1, <2>2
<1>16. TreeTypes'
  BY <1>1, <1>2, <1>15 DEF TreeTypes, ScalarInv
<1>17. ListInv'
  <2>1. CASE iter.dir = x
    <3>1. iter'.loose = TRUE
      BY <2>1, <1>1, <1>2 DEF TreeTypes, ListType
    <3> QED
      BY <3>1 DEF ListInv
  <2>2. CASE iter.dir # x
    <3>1. iter.dir \in Used => /\ slots'[iter.dir] # << >>
                               /\ \A j \in Entries(slots[iter.dir]) : slots[iter.dir][j].of \in heard'.stays =>
                                    j \in Entries(slots'[iter.dir]) /\ slots'[iter.dir][j] = slots[iter.dir][j]
      <4>1. CASE iter.dir = d
        BY <4>1, <1>3, <1>5, <1>9, <1>14 DEF OneLess
      <4>2. CASE iter.dir # d
        BY <4>2, <2>2, <1>9 DEF Used
      <4> QED
        BY <4>1, <4>2
    <3>2. iter' = iter /\ gone' = gone
      BY <1>1, <2>2
    <3> QED
      BY <1>1, <1>2, <1>14, <1>16, <3>1, <3>2, ListKept DEF TreeTypes
  <2> QED
    BY <2>1, <2>2
<1> QED
  BY <1>11, <1>12, <1>13, <1>16, <1>17 DEF IInv

LEMMA RmdirRootStep ==
  ASSUME IInv, RmdirRoot  PROVE IInv'
<1>1. /\ ~gone /\ calls' \in 0 .. MaxCalls /\ slots' = [slots EXCEPT ![Root] = << >>]
      /\ free' = free + ClustersOf(Root) /\ gone' = TRUE
      /\ UNCHANGED <<data, iter, lost, moved, heard>>
  BY CallCounts DEF IInv, TreeTypes, RmdirRoot, Call
<1>2. /\ TreeTypes /\ DirInv /\ CountInv /\ TreeInv /\ ListInv /\ slots \in [Folder -> Seq(Slot)]
  BY DEF IInv, DirInv
<1>3. /\ DOMAIN slots' = Folder /\ slots' = [y \in Folder |-> slots'[y]]
      /\ slots'[Root] = << >> /\ \A y \in Folder \ {Root} : slots'[y] = slots[y]
  BY <1>1, <1>2, Constants
<1>4. Sound(<< >>) /\ Len(<< >>) = 0
  <2>1. 0 % PerCluster = 0
    BY Constants
  <2>2. Readable(<< >>)
    BY <2>1 DEF Readable
  <2> QED
    BY <2>2 DEF Sound, Distinct, Entries
<1>5. DirInv'
  BY <1>2, <1>3, <1>4, DirsKept
<1>6. CountInv'
  <2>1. Len(slots'[Root]) = 0 /\ \A y \in Folder \ {Root} : Len(slots'[y]) = Len(slots[y])
    BY <1>3, <1>4
  <2> QED
    BY <1>1, <1>2, <2>1, CountWithout, Constants
<1>7. TreeInv'
  BY <1>1 DEF TreeInv
<1>8. TreeTypes'
  BY <1>1, <1>2 DEF TreeTypes, ListType, ScalarInv
<1>9. ListInv'
  BY <1>1, <1>2 DEF ListInv
<1> QED
  BY <1>5, <1>6, <1>7, <1>8, <1>9 DEF IInv

LEMMA OneParent ==
  ASSUME DirInv, TreeInv, ~gone
  PROVE  /\ Kids \in Graph /\ Live = Reach(Kids, {Root})
         /\ \A q \in Folder : Kids[q] = SubsOf(slots[q])
         /\ Hung(Kids, Root)
<1>1. /\ Kids \in Graph /\ Live = Reach(Kids, {Root}) /\ Live \subseteq Folder
      /\ \A q \in Folder : Kids[q] = SubsOf(slots[q]) /\ Root \notin Kids[q]
  BY KidsAre, LiveIs
<1>2. ASSUME NEW y \in Live, NEW q \in Live, NEW q2 \in Folder, y \in Kids[q] \cap Kids[q2]
      PROVE  q = q2
  <2>1. y \in SubsOf(slots[q]) /\ y \in SubsOf(slots[q2]) /\ y # Root /\ q \in Folder
    BY <1>1, <1>2
  <2>2. PICK p \in Live : HangsIn(y, p)
    BY <2>1, LiveIs
  <2> QED
    BY <2>1, <2>2 DEF HangsIn
<1> QED
  BY <1>1, <1>2 DEF Hung

\* A directory that gets another name, and one that moves.
LEMMA TreeRelinks ==
  ASSUME DirInv, DirInv', TreeInv, ~gone, NEW d \in Live, NEW j \in LinkedOf(slots[d]),
         NEW x, x = slots[d][j].of.sub, NEW t, MoreLink(slots[d], t, x), OneLess(t, slots'[d], j),
         slots'[d] # << >>, \A q \in Folder \ {d} : slots'[q] = slots[q],
         lost' = lost, moved' = moved
  PROVE  TreeInv'
<1>1. /\ x \in Live \ {Root} /\ HangsIn(x, d) /\ d \in Folder /\ x \in Folder /\ d \in Used
      /\ \A k \in LinkedOf(slots[d]) : slots[d][k].of.sub = x => k = j
  BY HangsWhere, LiveIs
<1>2. PICK i : /\ i \notin LinkedOf(slots[d]) /\ LinkedOf(t) = LinkedOf(slots[d]) \cup {i} /\ t[i].of.sub = x
               /\ \A k \in LinkedOf(slots[d]) : t[k] = slots[d][k]
               /\ SubsOf(t) = SubsOf(slots[d]) \cup {x}
               /\ DotsKept(slots[d], t)
  BY DEF MoreLink
<1>3. /\ j \in LinkedOf(t) /\ i # j /\ t[j].of.sub = x
      /\ LinkedOf(slots'[d]) = LinkedOf(t) \ {j} /\ \A k \in LinkedOf(slots'[d]) : slots'[d][k] = t[k]
      /\ DotsKept(t, slots'[d])
  <2>1. j \in LinkedOf(t) /\ i # j /\ t[j].of.sub = x
    BY <1>2
  <2> QED
    BY <2>1, LinksOfLessFolder
<1>4. \A k \in LinkedOf(slots'[d]) : slots'[d][k].of.sub = x <=> k = i
  BY <1>1, <1>2, <1>3
<1>5. OneLink(slots'[d], x) /\ DotsKept(slots[d], slots'[d])
  <2>1. i \in LinkedOf(slots'[d])
    BY <1>2, <1>3
  <2> QED
    BY <1>2, <1>3, <1>4, <2>1 DEF OneLink, DotsKept
<1>6. \A q \in Folder : SubsOf(slots'[q]) = SubsOf(slots[q])
  <2>1. SubsOf(slots'[d]) \subseteq SubsOf(slots[d])
    <3>1. SubsOf(slots'[d]) \subseteq SubsOf(t)
      BY <1>3 DEF SubsOf
    <3>2. x \in SubsOf(slots[d])
      BY DEF SubsOf
    <3> QED
      BY <1>2, <3>1, <3>2
  <2>2. ASSUME NEW k \in LinkedOf(slots[d])  PROVE slots[d][k].of.sub \in SubsOf(slots'[d])
    <3>1. CASE k = j
      <4>1. i \in LinkedOf(slots'[d]) /\ slots'[d][i].of.sub = x
        BY <1>2, <1>3
      <4> QED
        BY <3>1, <4>1 DEF SubsOf
    <3>2. CASE k # j
      <4>1. k \in LinkedOf(slots'[d]) /\ slots'[d][k] = slots[d][k]
        BY <3>2, <1>2, <1>3
      <4> QED
        BY <4>1 DEF SubsOf
    <3> QED
      BY <3>1, <3>2
  <2>3. SubsOf(slots[d]) \subseteq SubsOf(slots'[d])
    BY <2>2 DEF SubsOf
  <2>4. SubsOf(slots'[d]) = SubsOf(slots[d])
    BY <2>1, <2>3
  <2> QED
    BY <2>4
<1>7. Used' = Used
  BY <1>1 DEF Used
<1>8. Live' = Live
  <2>1. Kids' = [q \in Folder |-> SubsOf(slots'[q])] /\ Kids = [q \in Folder |-> SubsOf(slots[q])]
    BY DEF Kids, SubsOf, SubFolders, Linked, LinkedOf
  <2>2. Kids' = Kids
    BY <1>6, <2>1
  <2> QED
    BY <2>2, KidsAreNext, LiveIs
<1>9. ASSUME NEW y \in Live \ {Root}, NEW p \in Live, HangsIn(y, p)  PROVE HangsIn(y, p)'
  <2>1. y \in Folder /\ p \in Folder
    BY LiveIs
  <2>2. OneLink(slots'[p], y)
    <3>1. OneLink(slots[p], y)
      BY <1>9 DEF HangsIn
    <3>2. CASE p = d /\ y # x
      BY <1>3, <3>1, <3>2, OneLinkOfMore, OneLinkOfLess
    <3>3. CASE p = d /\ y = x
      BY <1>5, <3>3
    <3>4. CASE p # d
      BY <2>1, <3>1, <3>4
    <3> QED
      BY <3>2, <3>3, <3>4
  <2>3. DotsKept(slots[y], slots'[y])
    BY <1>5, <2>1 DEF DotsKept
  <2> QED
    BY <1>6, <1>9, <2>1, <2>2, <2>3, HangsStill
<1>10. \A y \in Live' \ {Root} : \E p \in Live' : HangsIn(y, p)'
  <2>1. \A y \in Live \ {Root} : \E p \in Live : HangsIn(y, p)'
    BY <1>9, LiveIs
  <2> QED
    BY <1>8, <2>1
<1> QED
  BY <1>6, <1>7, <1>8, <1>10, LiveIs DEF TreeInv

LEMMA TreeMoves ==
  ASSUME DirInv, DirInv', TreeInv, ~gone, NEW q \in Live, NEW d \in Live, q # d,
         NEW j \in LinkedOf(slots[q]), NEW x, x = slots[q][j].of.sub,
         MoreLink(slots[d], slots'[d], x), OneLess(slots[q], slots'[q], j),
         slots'[d] # << >>, slots'[q] # << >>,
         \A y \in Folder \ {q, d} : slots'[y] = slots[y],
         lost' = IF d \in Under({x}) THEN lost \cup Under({x}) ELSE lost, moved' = moved \cup {x}
  PROVE  TreeInv'
<1> DEFINE below == Reach(Kids, {x})
<1>1. /\ x \in Live \ {Root} /\ HangsIn(x, q) /\ d \in Folder /\ q \in Folder /\ x \in Folder
      /\ d \in Used /\ q \in Used
      /\ \A k \in LinkedOf(slots[q]) : slots[q][k].of.sub = x => k = j
  BY HangsWhere, LiveIs
<1>2. /\ Kids \in Graph /\ Live = Reach(Kids, {Root})
      /\ \A z \in Folder : Kids[z] = SubsOf(slots[z])
      /\ Hung(Kids, Root)
  BY OneParent
<1>3. /\ Kids' \in Graph /\ \A z \in Folder : Kids'[z] = SubsOf(slots'[z])
      /\ Live' = Reach(Kids', {Root})
  BY KidsAreNext
<1>4. /\ SubsOf(slots'[q]) = SubsOf(slots[q]) \ {x} /\ DotsKept(slots[q], slots'[q])
      /\ SubsOf(slots'[d]) = SubsOf(slots[d]) \cup {x} /\ DotsKept(slots[d], slots'[d])
      /\ x \in SubsOf(slots[q]) /\ x \notin SubsOf(slots[d])
  <2>1. SubsOf(slots'[q]) = SubsOf(slots[q]) \ {x} /\ DotsKept(slots[q], slots'[q])
    BY <1>1, LinksOfLessFolder
  <2>2. SubsOf(slots'[d]) = SubsOf(slots[d]) \cup {x} /\ DotsKept(slots[d], slots'[d])
    BY DEF MoreLink
  <2>3. x \in SubsOf(slots[q])
    BY DEF SubsOf
  <2>4. x \notin SubsOf(slots[d])
    BY <1>1 DEF HangsIn
  <2> QED
    BY <2>1, <2>2, <2>3, <2>4
<1>5. Live' = IF d \in below THEN Live \ below ELSE Live
  <2> DEFINE old == Kids
             new == Kids'
  <2>1. /\ old \in Graph /\ new \in Graph /\ Hung(old, Root)
        /\ Root \in Folder /\ x \in Folder /\ q \in Folder
    BY <1>1, <1>2, <1>3, Constants
  <2>2. Relinked(old, new, Root, q, d, x)
    BY <1>1, <1>2, <1>3, <1>4 DEF Relinked
  <2> HIDE DEF old, new
  <2>3. /\ d \in Reach(old, {x}) => Reach(new, {Root}) = Reach(old, {Root}) \ Reach(old, {x})
        /\ d \notin Reach(old, {x}) => Reach(new, {Root}) = Reach(old, {Root})
    BY ONLY <2>1, <2>2, Moved DEF old, new
  <2> QED
    BY <1>2, <1>3, <2>3 DEF old, new
<1>6. below \subseteq Live /\ x \in below /\ ClosedIn(Kids, below)
  <2>1. ClosedIn(Kids, Live) /\ Live \subseteq Folder
    BY <1>2, LiveIs DEF ClosedIn
  <2>2. {x} \in SUBSET Folder
    BY <1>1
  <2>3. below \subseteq Live
    BY <1>1, <2>1, ReachFrom
  <2>4. {x} \subseteq below /\ ClosedIn(Kids, below)
    BY <1>2, <2>2, ReachIs
  <2> QED
    BY <2>3, <2>4
<1>7. Under({x}) = below
  BY KidsAre
<1> HIDE DEF below
<1>8. Used' = Used
  BY <1>1 DEF Used
<1>9. lost' \subseteq Used' /\ Live' = Used' \ lost' /\ Root \in Used'
  BY <1>5, <1>6, <1>7, <1>8, LiveIs
<1>10. \A z \in Folder : SubsOf(slots'[z]) \subseteq Used' \ {Root}
  <2>1. \A z \in Folder : SubsOf(slots'[z]) \subseteq SubsOf(slots[z]) \cup {x}
    BY <1>4
  <2>2. x \in Used \ {Root}
    BY <1>1, LiveIs
  <2> QED
    BY <1>8, <2>1, <2>2, LiveIs
<1>11. ASSUME x \in Live'  PROVE d \in Live' /\ HangsIn(x, d)'
  <2>1. d \in Live'
    BY <1>5, <1>6, <1>11
  <2>2. OneLink(slots'[d], x)
    BY <1>4, OneLinkOfMore
  <2>3. Knows(slots'[x], x, d, moved')
    <3>1. DotsKept(slots[x], slots'[x])
      BY <1>1, <1>4 DEF DotsKept
    <3>2. x \in moved' /\ Knows(slots[x], x, q, moved)
      BY <1>1 DEF HangsIn
    <3> QED
      BY <3>1, <3>2 DEF Knows, DotsKept
  <2>4. \A z \in Folder \ {d} : x \notin SubsOf(slots'[z])
    <3>1. \A z \in Folder \ {q} : x \notin SubsOf(slots[z])
      BY <1>1 DEF HangsIn
    <3> QED
      BY <1>4, <3>1
  <2> QED
    BY <2>1, <2>2, <2>3, <2>4 DEF HangsIn
<1>12. ASSUME NEW y \in Live' \ {Root, x}  PROVE \E p \in Live' : HangsIn(y, p)'
  <2>1. y \in Live /\ y \in Folder
    BY <1>5, <1>12, LiveIs
  <2>2. PICK p \in Live : HangsIn(y, p)
    BY <1>12, <2>1, LiveIs
  <2>3. p \in Folder /\ OneLink(slots[p], y)
    BY <2>2, LiveIs DEF HangsIn
  <2>4. p \in Live'
    <3>1. y \in Kids[p]
      BY <1>2, <2>3 DEF OneLink, SubsOf
    <3>2. p \in below => y \in below
      BY <1>6, <3>1 DEF ClosedIn
    <3> QED
      BY <1>5, <1>12, <3>2
  <2>5. OneLink(slots'[p], y)
    <3>1. CASE p = q
      BY <1>12, <2>3, <3>1, OneLinkOfLess
    <3>2. CASE p = d
      BY <1>12, <2>3, <3>2, OneLinkOfMore
    <3>3. CASE p # q /\ p # d
      BY <2>3, <3>3
    <3> QED
      BY <3>1, <3>2, <3>3
  <2>6. DotsKept(slots[y], slots'[y])
    BY <1>4, <2>1 DEF DotsKept
  <2>7. \A z \in Folder \ {p} : y \in SubsOf(slots'[z]) => y \in SubsOf(slots[z])
    BY <1>4, <1>12
  <2>8. HangsIn(y, p)'
    BY <2>1, <2>2, <2>3, <2>5, <2>6, <2>7, HangsStill
  <2> QED
    BY <2>4, <2>8
<1>13. \A y \in Live' \ {Root} : \E p \in Live' : HangsIn(y, p)'
  BY <1>11, <1>12
<1> QED
  BY <1>9, <1>10, <1>13 DEF TreeInv

LEMMA RenameStep ==
  ASSUME IInv, NEW p \in Path, NEW n \in Path, Rename(p, n)  PROVE IInv'
<1> DEFINE f == FromPath(p)
           q == f.dir
           j == f.at
           e == EntryAt(f)
           x == e.sub
           d == ParentFolder(n)
           r == AddEntry(d, LastName(n), x, free)
           m == IF d = q THEN r.slots ELSE slots[q]
           t == Removed(m, j)
<1>1. /\ ~gone /\ f.found /\ d # NoFolder /\ calls' \in 0 .. MaxCalls
      /\ slots' = IF r.ok THEN [[slots EXCEPT ![d] = r.slots] EXCEPT ![q] = Removed(@, j)]
                  ELSE [slots EXCEPT ![d] = r.slots]
      /\ free' = free - r.taken
      /\ r.ok /\ IsDirectory(e) => /\ moved' = IF d = q THEN moved ELSE moved \cup {x}
                                   /\ lost' = IF d \in Under({x}) THEN lost \cup Under({x}) ELSE lost
      /\ ~(r.ok /\ IsDirectory(e)) => UNCHANGED <<moved, lost>>
      /\ IF r.ok THEN Forgets(q, e) ELSE heard' = heard
      /\ UNCHANGED <<data, iter, gone>>
  BY CallCounts DEF IInv, TreeTypes, Rename, Call
<1>2. /\ TreeTypes /\ DirInv /\ CountInv /\ TreeInv /\ ListInv /\ slots \in [Folder -> Seq(Slot)]
      /\ free \in Nat /\ data \in Nat
  BY DEF IInv, DirInv, CountInv
<1>3. /\ q \in Live /\ q \in Folder /\ slots[q] # << >> /\ j \in Entries(slots[q])
      /\ e = slots[q][j].of /\ ~IsDot(e) /\ e \in EntryRecord
      /\ IsDirectory(e) => j \in LinkedOf(slots[q]) /\ x \in Folder
      /\ x \in Folder \cup {NoFolder} /\ (IsDirectory(e) <=> x # NoFolder)
      /\ x = slots[q][j].of.sub
  <2>1. /\ q \in Live /\ j \in Entries(slots[q]) /\ e = slots[q][j].of /\ ~IsDot(e) /\ e \in EntryRecord
        /\ IsDirectory(e) => j \in LinkedOf(slots[q]) /\ x \in Live \ {Root}
    BY <1>1, <1>2, FromPathIs
  <2> HIDE DEF f
  <2>2. x \in Folder \cup {NoFolder} /\ (IsDirectory(e) <=> x # NoFolder)
    BY <2>1, EntryParts DEF IsDirectory
  <2> QED
    BY <1>1, <1>2, <2>1, <2>2, LiveIs DEF Used
<1> HIDE DEF f
<1>4. d \in Live /\ d \in Folder /\ slots[d] # << >>
  BY <1>1, <1>2, ParentIs, LiveIs DEF Used
<1>5. /\ r.ok \in BOOLEAN /\ r.taken \in 0 .. free /\ Sound(r.slots) /\ r.slots # << >>
      /\ Len(r.slots) = Len(slots[d]) + r.taken * PerCluster
      /\ EntriesKept(slots[d], r.slots)
      /\ ~r.ok \/ x = NoFolder => LinksKept(slots[d], r.slots)
      /\ r.ok /\ x # NoFolder => MoreLink(slots[d], r.slots, x)
  <2> HIDE DEF q, j, e, x, d
  <2> QED
    BY <1>2, <1>3, <1>4, AddTo, PathParts
<1> HIDE DEF q, j, e, x, d, r
<1>6. Sound(m) /\ m # << >> /\ j \in Entries(m) /\ m[j] = slots[q][j]
  <2>1. CASE d = q
    BY <2>1, <1>3, <1>5 DEF EntriesKept
  <2>2. CASE d # q
    BY <2>2, <1>2, <1>3 DEF DirInv, Sound
  <2> QED
    BY <2>1, <2>2
<1>7. Sound(t) /\ t # << >> /\ Len(t) = Len(m) /\ OneLess(m, t, j)
  <2> HIDE DEF m
  <2> QED
    BY <1>6, RemoveFrom
<1>8. /\ DOMAIN slots' = Folder /\ slots' = [y \in Folder |-> slots'[y]]
      /\ r.ok => slots'[q] = t
      /\ ~(r.ok /\ d = q) => slots'[d] = r.slots
      /\ \A y \in Folder \ {d, q} : slots'[y] = slots[y]
      /\ ~r.ok => \A y \in Folder \ {d} : slots'[y] = slots[y]
  <2> HIDE DEF t
  <2>1. r.ok => slots'[q] = t
    BY <1>1, <1>2, <1>3, <1>4 DEF t, m
  <2> QED
    BY <2>1, <1>1, <1>2, <1>3, <1>4
<1>9. m = IF d = q THEN r.slots ELSE slots[q]
  OBVIOUS
<1> HIDE DEF m, t
<1>10. DirInv'
  <2>1. \A y \in Folder : slots'[y] = slots[y] \/ Sound(slots'[y])
    BY <1>3, <1>4, <1>5, <1>7, <1>8
  <2> QED
    BY <1>2, <1>8, <2>1, DirsKept
<1>11. CountInv'
  <2>1. free' \in Nat /\ data' \in Nat /\ free' + data' + r.taken = free + data /\ r.taken \in Nat
    BY <1>1, <1>2, <1>5
  <2>2. Len(slots'[d]) = Len(slots[d]) + r.taken * PerCluster
    BY <1>5, <1>7, <1>8, <1>9
  <2>3. \A y \in Folder \ {d} : Len(slots'[y]) = Len(slots[y])
    BY <1>3, <1>7, <1>8, <1>9
  <2> DEFINE k == r.taken
  <2>4. k \in Nat /\ free' + data' + k = free + data /\ Len(slots'[d]) = Len(slots[d]) + k * PerCluster
    BY <2>1, <2>2
  <2> HIDE DEF k
  <2> QED
    BY <1>2, <1>4, <2>1, <2>3, <2>4, CountOfLengths
<1>12. slots'[d] # << >> /\ slots'[q] # << >>
  BY <1>3, <1>4, <1>5, <1>7, <1>8
<1>13. TreeInv'
  <2>1. CASE ~(r.ok /\ IsDirectory(e))
    <3>1. ASSUME NEW y \in Folder  PROVE LinksKept(slots[y], slots'[y])
      <4>1. CASE y # d /\ (y # q \/ ~r.ok)
        BY <4>1, <1>8 DEF LinksKept, DotsKept
      <4>2. CASE y = d /\ ~(r.ok /\ d = q)
        BY <4>2, <2>1, <1>3, <1>5, <1>8
      <4>3. CASE r.ok /\ y = q
        <5>1. LinksKept(m, t)
          BY <4>3, <2>1, <1>3, <1>6, <1>7, LinksOfLessFile
        <5>2. LinksKept(slots[q], m)
          <6>1. CASE d = q
            BY <6>1, <4>3, <2>1, <1>3, <1>5, <1>9
          <6>2. CASE d # q
            BY <6>2, <1>9 DEF LinksKept, DotsKept
          <6> QED
            BY <6>1, <6>2
        <5> QED
          BY <4>3, <5>1, <5>2, <1>8, LinksOfTwo
      <4> QED
        BY <4>1, <4>2, <4>3
    <3>2. \A y \in Folder : slots'[y] = << >> <=> slots[y] = << >>
      BY <1>3, <1>4, <1>8, <1>12
    <3> QED
      BY <2>1, <3>1, <3>2, <1>1, <1>2, <1>10, TreeKept
  <2>2. CASE r.ok /\ IsDirectory(e) /\ d = q
    <3>1. d \notin Under({x})
      <4>1. /\ Kids \in Graph /\ Live = Reach(Kids, {Root}) /\ Hung(Kids, Root)
            /\ \A y \in Folder : Kids[y] = SubsOf(slots[y])
        BY <1>1, <1>2, OneParent
      <4>2. x \in SubsOf(slots[q])
        BY <1>3, <2>2 DEF SubsOf
      <4>3. x \in Kids[q] /\ x # Root
        BY <4>1, <4>2, <1>1, <1>2, <1>3, LiveIs
      <4>4. q \in Reach(Kids, {Root})
        BY <4>1, <1>3
      <4>5. q \notin Reach(Kids, {x})
        BY ONLY <4>1, <4>3, <4>4, NoCycle, Constants
      <4> QED
        BY <4>5, <2>2, <1>2, KidsAre
    <3>2. MoreLink(slots[d], m, x) /\ OneLess(m, slots'[d], j) /\ j \in LinkedOf(slots[d])
      BY <2>2, <1>3, <1>5, <1>7, <1>8, <1>9
    <3>3. /\ x = slots[d][j].of.sub /\ slots'[d] # << >> /\ \A y \in Folder \ {d} : slots'[y] = slots[y]
          /\ lost' = lost /\ moved' = moved
      BY <2>2, <3>1, <1>1, <1>3, <1>8, <1>12
    <3> QED
      BY <3>2, <3>3, <1>1, <1>2, <1>4, <1>10, TreeRelinks
  <2>3. CASE r.ok /\ IsDirectory(e) /\ d # q
    <3>1. MoreLink(slots[d], slots'[d], x) /\ OneLess(slots[q], slots'[q], j) /\ j \in LinkedOf(slots[q])
      BY <2>3, <1>3, <1>5, <1>7, <1>8, <1>9
    <3>2. /\ x = slots[q][j].of.sub /\ \A y \in Folder \ {q, d} : slots'[y] = slots[y]
          /\ lost' = IF d \in Under({x}) THEN lost \cup Under({x}) ELSE lost
          /\ moved' = moved \cup {x} /\ q # d
      BY <2>3, <1>1, <1>3, <1>8
    <3> QED
      BY <3>1, <3>2, <1>1, <1>2, <1>3, <1>4, <1>10, <1>12, TreeMoves
  <2> QED
    BY <2>1, <2>2, <2>3
<1>14. /\ heard'.told = heard.told /\ heard'.twice = heard.twice /\ heard'.stays \subseteq heard.stays
       /\ heard' \in [stays : SUBSET EntryRecord, told : SUBSET EntryRecord, twice : BOOLEAN]
       /\ r.ok /\ iter.dir = q => e \notin heard'.stays
  BY <1>1, <1>2 DEF Forgets, TreeTypes, ListType
<1>15. TreeTypes'
  <2>1. lost' \subseteq Folder /\ moved' \subseteq Folder
    BY <1>1, <1>2, <1>3 DEF TreeTypes, ScalarInv, Under
  <2> QED
    BY <2>1, <1>1, <1>2, <1>14 DEF TreeTypes, ListType, ScalarInv
<1>16. ListInv'
  <2>1. ASSUME NEW k \in Entries(slots[iter.dir]), slots[iter.dir][k].of \in heard'.stays,
               iter.dir \in Used
        PROVE  k \in Entries(slots'[iter.dir]) /\ slots'[iter.dir][k] = slots[iter.dir][k]
    <3>1. CASE iter.dir # d /\ (iter.dir # q \/ ~r.ok)
      BY <3>1, <2>1, <1>8 DEF Used
    <3>2. CASE iter.dir = d /\ ~(r.ok /\ d = q)
      BY <3>2, <2>1, <1>5, <1>8 DEF EntriesKept
    <3>3. CASE r.ok /\ iter.dir = q
      <4>1. k \in Entries(m) /\ m[k] = slots[q][k]
        BY <3>3, <2>1, <1>5, <1>9 DEF EntriesKept
      <4>2. k # j
        BY <3>3, <2>1, <1>3, <1>14
      <4> QED
        BY <3>3, <4>1, <4>2, <1>7, <1>8 DEF OneLess
    <3> QED
      BY <3>1, <3>2, <3>3
  <2>2. iter.dir \in Used => slots'[iter.dir] # << >>
    BY <1>8, <1>12 DEF Used
  <2> QED
    BY <1>1, <1>2, <1>14, <1>15, <2>1, <2>2, ListKept DEF TreeTypes
<1> QED
  BY <1>10, <1>11, <1>13, <1>15, <1>16 DEF IInv

\* A listing reads ahead: no entry stands between where it was and where it is.
LEMMA NextEntryIs ==
  ASSUME NEW s, Readable(s), NEW from \in Nat
  PROVE  LET j == NextEntry(s, from) IN
         /\ j = 0 => \A k \in Entries(s) : k <= from
         /\ j # 0 => /\ j \in Entries(s) /\ j > from
                     /\ \A k \in Entries(s) : k > from => k >= j
<1> DEFINE ends == {j \in from + 1 .. Len(s) : s[j].part = 1 /\ \A k \in from + 1 .. j : s[k] # Last}
<1>1. Len(s) \in Nat /\ Entries(s) \subseteq 1 .. Len(s)
  BY EntryFacts, ReadableParts
<1>2. ends = {j \in Entries(s) : j > from}
  <2>1. ASSUME NEW j \in ends  PROVE j \in Entries(s) /\ j > from
    <3>1. j \in 1 .. Len(s) /\ j > from /\ s[j].part = 1
      BY <1>1
    <3> QED
      BY <3>1, EntriesAre
  <2>2. ASSUME NEW j \in Entries(s), j > from  PROVE j \in ends
    <3>1. j \in from + 1 .. Len(s) /\ s[j].part = 1
      BY <1>1, <2>2, EntryFacts
    <3>2. ASSUME NEW k \in from + 1 .. j  PROVE s[k] # Last
      <4>1. k \in 1 .. j
        BY <3>1
      <4> QED
        BY <2>2, <4>1 DEF Entries
    <3> QED
      BY <3>1, <3>2
  <2> QED
    BY <2>1, <2>2
<1>3. NextEntry(s, from) = IF ends = {} THEN 0 ELSE Min(ends)
  BY DEF NextEntry
<1> HIDE DEF ends
<1>4. CASE ends = {}
  <2>1. ASSUME NEW k \in Entries(s)  PROVE k <= from
    <3>1. ~(k > from) /\ k \in Nat
      BY <1>1, <1>2, <1>4
    <3> QED
      BY <3>1
  <2> QED
    BY <1>3, <1>4, <2>1
<1>5. CASE ends # {}
  <2>1. ends \in SUBSET Nat
    BY <1>1, <1>2
  <2>2. Min(ends) \in ends /\ \A k \in ends : Min(ends) <= k
    BY <1>5, <2>1, MinOf
  <2>3. Min(ends) # 0 /\ Min(ends) \in Nat
    BY <1>1, <1>2, <2>2
  <2> QED
    BY <1>1, <1>2, <1>3, <1>5, <2>2, <2>3
<1> QED
  BY <1>4, <1>5

ListRecord(i) ==
  /\ i.on \in BOOLEAN /\ i.valid \in BOOLEAN /\ i.loose \in BOOLEAN /\ i.dir \in Folder /\ i.at \in Nat
  /\ i.valid => i.e \in EntryRecord
  /\ DOMAIN i = {"on", "dir", "valid", "at", "e", "loose"}

LEMMA AheadIs ==
  ASSUME DirInv, NEW i, ListRecord(i), NEW from \in Nat
  PROVE  LET a == Ahead(i, from)
             s == slots[i.dir] IN
         /\ ListRecord(a) /\ a.on = i.on /\ a.loose = i.loose /\ a.dir = i.dir
         /\ ~a.valid => \A k \in Entries(s) : k <= from
         /\ a.valid => /\ a.at \in Entries(s) /\ a.at > from /\ a.e = s[a.at].of
                       /\ \A k \in Entries(s) : k > from => k >= a.at
<1> DEFINE a == Ahead(i, from)
           s == slots[i.dir]
           j == NextEntry(s, from)
<1>1. Readable(s)
  BY DEF DirInv, ListRecord
<1>2. a = IF j = 0 THEN [i EXCEPT !.valid = FALSE] ELSE [i EXCEPT !.valid = TRUE, !.at = j, !.e = s[j].of]
  BY DEF Ahead
<1> HIDE DEF a, s
<1>3. /\ j = 0 => \A k \in Entries(s) : k <= from
      /\ j # 0 => /\ j \in Entries(s) /\ j > from
                  /\ \A k \in Entries(s) : k > from => k >= j
  BY <1>1, NextEntryIs
<1> HIDE DEF j
<1>4. CASE j = 0
  <2>1. /\ a.on = i.on /\ a.dir = i.dir /\ a.valid = FALSE /\ a.at = i.at /\ a.loose = i.loose
        /\ DOMAIN a = DOMAIN i
    BY <1>2, <1>4 DEF ListRecord
  <2> QED
    BY <1>3, <1>4, <2>1 DEF ListRecord, a, s
<1>5. CASE j # 0
  <2>1. /\ a.on = i.on /\ a.dir = i.dir /\ a.valid = TRUE /\ a.at = j /\ a.loose = i.loose
        /\ a.e = s[j].of /\ DOMAIN a = DOMAIN i
    BY <1>2, <1>5 DEF ListRecord
  <2>2. j \in Nat /\ s[j].of \in EntryRecord
    BY <1>1, <1>3, <1>5, EntryFacts
  <2> QED
    BY <1>3, <1>5, <2>1, <2>2 DEF ListRecord, a, s
<1> QED
  BY <1>4, <1>5

LEMMA OneOfAKind ==
  ASSUME NEW s, Distinct(s), NEW j \in Entries(s), NEW k \in Entries(s), s[j].of = s[k].of
  PROVE  j = k
BY DEF Distinct, NamesOf

LEMMA RestSame ==
  ASSUME IInv, UNCHANGED <<slots, free, data, gone, lost, moved>>
  PROVE  DirInv' /\ CountInv' /\ TreeInv'
<1>1. DirInv' /\ TreeInv'
  BY TreeSame DEF IInv, DirInv
<1>2. FolderClusters' = FolderClusters
  BY DEF FolderClusters, ClustersOf
<1> QED
  BY <1>1, <1>2 DEF IInv, CountInv

LEMMA BegunStep ==
  ASSUME IInv, ~gone, NEW d \in Folder, slots[d] # << >>, Begun(d), calls' \in 0 .. MaxCalls,
         UNCHANGED <<slots, free, data, gone, lost, moved>>
  PROVE  IInv'
<1> DEFINE i == [NoListing EXCEPT !.on = TRUE, !.dir = d]
           a == Ahead(i, 0)
           s == slots[d]
<1>1. /\ TreeTypes /\ DirInv /\ ListInv /\ Readable(s) /\ Distinct(s)
  BY DEF IInv, DirInv
<1>2. /\ iter' = a
      /\ heard' = [stays |-> {s[j].of : j \in Entries(s)}, told |-> {}, twice |-> FALSE]
  BY DEF Begun, NothingHeard
<1>3. ListRecord(i) /\ i.on = TRUE /\ i.loose = FALSE /\ i.dir = d
  BY DEF NoListing, ListRecord
<1> HIDE DEF i
<1>4. 0 \in Nat
  OBVIOUS
<1>5. /\ ListRecord(a) /\ a.on = TRUE /\ a.loose = FALSE /\ a.dir = d
      /\ ~a.valid => \A k \in Entries(s) : k <= 0
      /\ a.valid => /\ a.at \in Entries(s) /\ a.at > 0 /\ a.e = s[a.at].of
                    /\ \A k \in Entries(s) : k > 0 => k >= a.at
  BY <1>1, <1>3, <1>4, AheadIs
<1> HIDE DEF a, s
<1>6. \A k \in Entries(s) : k \in Nat /\ k > 0 /\ s[k].of \in EntryRecord
  <2> TAKE k \in Entries(s)
  <2>1. k \in 1 .. Len(s) /\ Len(s) \in Nat /\ s[k].of \in EntryRecord
    BY <1>1, EntryFacts, ReadableParts
  <2> QED
    BY <2>1
<1>7. /\ ~a.valid => Entries(s) = {}
      /\ a.valid => \A k \in Entries(s) : k >= a.at
  BY <1>5, <1>6
<1>8. heard'.stays = {s[j].of : j \in Entries(s)} /\ heard'.told = {} /\ heard'.twice = FALSE
  BY <1>2
<1>9. heard' \in [stays : SUBSET EntryRecord, told : SUBSET EntryRecord, twice : BOOLEAN]
  BY <1>2, <1>6
<1>10. TreeTypes'
  BY <1>1, <1>2, <1>5, <1>9 DEF TreeTypes, ListType, ScalarInv, ListRecord
<1>11. ASSUME NEW e \in heard'.stays  PROVE Stands(slots[iter.dir], e)'
  <2>1. PICK j \in Entries(s) : s[j].of = e
    BY <1>8, <1>11
  <2>2. a.valid => /\ ~(j < a.at)
                   /\ a.e = e <=> j = a.at
    <3>1. a.valid => j >= a.at /\ a.at \in Nat /\ j \in Nat
      BY <1>5, <1>6, <1>7
    <3>2. a.valid => (a.e = e <=> j = a.at)
      BY <1>1, <1>5, <2>1, OneOfAKind
    <3> QED
      BY <3>1, <3>2
  <2>3. slots'[iter'.dir] = s
    BY <1>2, <1>5 DEF s
  <2>4. iter'.valid => /\ e \in heard'.told <=> j < iter'.at
                       /\ iter'.e = e <=> j = iter'.at
    BY <1>2, <1>8, <2>2
  <2> QED
    BY <2>1, <2>3, <2>4 DEF Stands
<1>12. ListInv'
  <2>1. iter'.dir \in Used'
    BY <1>2, <1>5 DEF Used
  <2>2. ~iter'.valid => heard'.stays \subseteq heard'.told
    BY <1>2, <1>7, <1>8
  <2> QED
    BY <1>8, <1>11, <2>1, <2>2 DEF ListInv
<1> QED
  BY <1>10, <1>12, RestSame DEF IInv

LEMMA DiropenStep ==
  ASSUME IInv, NEW p \in Path \cup {<< >>}, Diropen(p)  PROVE IInv'
<1>1. /\ ~gone /\ calls' \in 0 .. MaxCalls /\ UNCHANGED <<slots, free, data, gone, lost, moved>>
      /\ DirInv /\ TreeInv
  BY CallCounts DEF IInv, TreeTypes, Diropen, Call
<1>2. \A d \in Live : d \in Folder /\ slots[d] # << >>
  BY <1>1, LiveIs DEF Used
<1>3. CASE p = << >>
  BY <1>1, <1>2, <1>3, LiveIs, BegunStep DEF Diropen
<1>4. CASE p # << >>
  <2> DEFINE f == FromPath(p)
             d == EntryAt(f).sub
  <2>1. f.found /\ IsDirectory(EntryAt(f)) /\ Begun(d)
    BY <1>4 DEF Diropen
  <2>2. p \in Path
    BY <1>4
  <2>3. d \in Live
    BY <1>1, <2>1, <2>2, FromPathIs
  <2> HIDE DEF f
  <2> QED
    BY <1>1, <1>2, <2>1, <2>3, BegunStep
<1> QED
  BY <1>3, <1>4

LEMMA DirresetStep ==
  ASSUME IInv, Dirreset  PROVE IInv'
<1>1. /\ ~gone /\ calls' \in 0 .. MaxCalls /\ UNCHANGED <<slots, free, data, gone, lost, moved>>
      /\ iter.on /\ ~iter.loose /\ Begun(iter.dir)
  BY CallCounts DEF IInv, TreeTypes, Dirreset, Call
<1>2. iter.dir \in Folder /\ slots[iter.dir] # << >>
  BY <1>1 DEF IInv, TreeTypes, ListType, ListInv, Used
<1> QED
  BY <1>1, <1>2, BegunStep

LEMMA DircloseStep ==
  ASSUME IInv, Dirclose  PROVE IInv'
<1>1. TreeTypes'
  BY DEF IInv, TreeTypes, ListType, ScalarInv, Dirclose, NoListing, NothingHeard
<1>2. ListInv'
  BY DEF ListInv, Dirclose, NoListing
<1> QED
  BY <1>1, <1>2, RestSame DEF IInv, Dirclose

LEMMA DirnextStep ==
  ASSUME IInv, Dirnext  PROVE IInv'
<1> DEFINE s == slots[iter.dir]
           a == Ahead(iter, iter.at)
<1>1. /\ ~gone /\ iter.on /\ iter.valid
      /\ heard' = [heard EXCEPT !.told = @ \cup {iter.e},
                                !.twice = @ \/ (iter.e \in heard.told \cap heard.stays)]
      /\ iter' = IF iter.loose THEN [iter EXCEPT !.valid = FALSE] ELSE a
      /\ UNCHANGED <<slots, free, data, calls, gone, lost, moved>>
  BY DEF Dirnext
<1>2. /\ TreeTypes /\ DirInv /\ ListInv /\ ListType
  BY DEF IInv, TreeTypes
<1>3. ListRecord(iter) /\ iter.e \in EntryRecord
  BY <1>1, <1>2 DEF ListRecord, ListType
<1>4. Readable(s) /\ Distinct(s)
  BY <1>3, <1>2 DEF DirInv, ListRecord
<1>5. /\ ListRecord(a) /\ a.on = iter.on /\ a.loose = iter.loose /\ a.dir = iter.dir
      /\ ~a.valid => \A k \in Entries(s) : k <= iter.at
      /\ a.valid => /\ a.at \in Entries(s) /\ a.at > iter.at /\ a.e = s[a.at].of
                    /\ \A k \in Entries(s) : k > iter.at => k >= a.at
  <2>1. iter.at \in Nat
    BY <1>3 DEF ListRecord
  <2> QED
    BY <1>2, <1>3, <2>1, AheadIs
<1> HIDE DEF a, s
<1>6. /\ heard'.stays = heard.stays /\ heard'.told = heard.told \cup {iter.e}
      /\ heard'.twice = (heard.twice \/ (iter.e \in heard.told \cap heard.stays))
      /\ heard' \in [stays : SUBSET EntryRecord, told : SUBSET EntryRecord, twice : BOOLEAN]
  BY <1>1, <1>2, <1>3 DEF ListType
<1>7. ListRecord(iter')
  <2>1. CASE iter.loose
    <3>1. /\ iter'.on = iter.on /\ iter'.valid = FALSE /\ iter'.loose = iter.loose
          /\ iter'.dir = iter.dir /\ iter'.at = iter.at /\ DOMAIN iter' = DOMAIN iter
      BY <2>1, <1>1, <1>3 DEF ListRecord
    <3> QED
      BY <3>1, <1>3 DEF ListRecord
  <2>2. CASE ~iter.loose
    BY <2>2, <1>1, <1>5
  <2> QED
    BY <2>1, <2>2
<1>8. TreeTypes'
  BY <1>1, <1>2, <1>6, <1>7 DEF TreeTypes, ListType, ScalarInv, ListRecord
<1>9. CASE iter.loose
  <2>1. iter'.loose
    BY <1>9, <1>1, <1>3 DEF ListRecord
  <2>2. ListInv'
    BY <2>1 DEF ListInv
  <2> QED
    BY <1>1, <1>8, <2>2, RestSame DEF IInv
<1>10. CASE ~iter.loose
  <2>1. /\ ~heard.twice /\ iter.dir \in Used /\ \A e \in heard.stays : Stands(s, e)
    BY <1>1, <1>2, <1>10 DEF ListInv, s
  <2>2. iter' = a /\ iter.at \in Nat /\ \A k \in Entries(s) : k \in Nat
    BY <1>1, <1>3, <1>4, <1>10, EntryFacts DEF ListRecord
  <2>3. ASSUME NEW e \in heard.stays
        PROVE  \E j \in Entries(s) : /\ s[j].of = e /\ (e \in heard.told <=> j < iter.at)
                                     /\ (iter.e = e <=> j = iter.at)
    BY <1>1, <2>1, <2>3 DEF Stands
  <2>4. ~heard'.twice
    <3>1. ASSUME iter.e \in heard.told, iter.e \in heard.stays  PROVE FALSE
      BY <2>2, <2>3, <3>1
    <3> QED
      BY <1>6, <2>1, <3>1
  <2>5. ASSUME NEW e \in heard.stays
        PROVE  \E j \in Entries(s) :
                 /\ s[j].of = e
                 /\ ~a.valid => e \in heard'.told
                 /\ a.valid => (e \in heard'.told <=> j < a.at) /\ (a.e = e <=> j = a.at)
    <3>1. PICK j \in Entries(s) : /\ s[j].of = e /\ (e \in heard.told <=> j < iter.at)
                                  /\ (iter.e = e <=> j = iter.at)
      BY <2>3, <2>5
    <3>2. e \in heard'.told <=> j <= iter.at
      BY <1>6, <2>2, <3>1
    <3>3. ~a.valid => e \in heard'.told
      BY <1>5, <3>2
    <3>4. a.valid => (e \in heard'.told <=> j < a.at)
      <4>1. a.valid => a.at \in Nat /\ j \in Nat /\ a.at > iter.at /\ (j > iter.at => j >= a.at)
        BY <1>5, <2>2
      <4> QED
        BY <2>2, <3>2, <4>1
    <3>5. a.valid => (a.e = e <=> j = a.at)
      BY <1>4, <1>5, <3>1, OneOfAKind
    <3> QED
      BY <3>1, <3>3, <3>4, <3>5
  <2>6. slots'[iter'.dir] = s /\ iter'.dir \in Used'
    BY <1>1, <1>5, <2>1, <2>2 DEF s, Used
  <2>7. \A e \in heard'.stays : Stands(slots[iter.dir], e)'
    BY <1>6, <2>2, <2>5, <2>6 DEF Stands
  <2>8. ~iter'.valid => heard'.stays \subseteq heard'.told
    BY <1>6, <2>2, <2>5
  <2>9. ListInv'
    BY <2>4, <2>6, <2>7, <2>8 DEF ListInv
  <2> QED
    BY <1>1, <1>8, <2>9, RestSame DEF IInv
<1> QED
  BY <1>9, <1>10

-----------------------------------------------------------------------------
(***************************************************************************)
(* The invariant holds, and with it the properties.                        *)
(***************************************************************************)
LEMMA InitHolds ==
  ASSUME Init  PROVE IInv
<1>1. /\ slots = [d \in Folder |-> IF d = Root THEN Blank(PerCluster) ELSE << >>]
      /\ free = Clusters - 1 /\ data = 0
      /\ iter = NoListing /\ calls = 0 /\ gone = FALSE
      /\ lost = {} /\ moved = {} /\ heard = NothingHeard
  BY DEF Init
<1>2. /\ Root \in Folder /\ slots[Root] = Blank(PerCluster) /\ \A d \in Folder \ {Root} : slots[d] = << >>
      /\ DOMAIN slots = Folder /\ slots = [d \in Folder |-> slots[d]]
  BY <1>1, Constants
<1>3. /\ Sound(slots[Root]) /\ Entries(slots[Root]) = {} /\ Len(slots[Root]) = PerCluster
      /\ slots[Root] # << >>
  <2> DEFINE s == Blank(1 * PerCluster)
  <2>1. 1 \in Nat /\ 1 * PerCluster = PerCluster
    BY Constants
  <2>2. Readable(s) /\ Entries(s) = {} /\ Distinct(s) /\ Len(s) = PerCluster
    BY <2>1, BlankDirectory
  <2>3. slots[Root] = s
    BY <1>2, <2>1
  <2> HIDE DEF s
  <2>4. s \in Seq(Slot) /\ s # << >>
    BY <2>2, ReadableParts, Constants
  <2> QED
    BY <2>2, <2>3, <2>4 DEF Sound
<1>4. Sound(<< >>) /\ Entries(<< >>) = {} /\ Len(<< >>) = 0
  <2>1. 0 % PerCluster = 0
    BY Constants
  <2>2. Readable(<< >>)
    BY <2>1 DEF Readable
  <2> QED
    BY <2>2 DEF Sound, Distinct, Entries
<1>5. DirInv
  <2>1. \A d \in Folder : Sound(slots[d])
    BY <1>2, <1>3, <1>4
  <2>2. slots \in [Folder -> Seq(Slot)]
    BY <1>2, <2>1 DEF Sound
  <2> QED
    BY <2>1, <2>2 DEF DirInv, Sound
<1>6. CountInv
  <2>1. ClustersOf(Root) = 1 /\ \A d \in Folder \ {Root} : ClustersOf(d) = 0
    <3>1. PerCluster \div PerCluster = 1 /\ 0 \div PerCluster = 0
      BY Constants
    <3> QED
      BY <1>2, <1>3, <1>4, <3>1 DEF ClustersOf
  <2>2. FolderClusters = {<<Root, 1>>}
    <3>1. \A d \in Folder : {d} \X (1 .. ClustersOf(d)) = IF d = Root THEN {<<Root, 1>>} ELSE {}
      <4> TAKE d \in Folder
      <4>1. CASE d = Root
        <5>1. 1 .. ClustersOf(d) = {1}
          BY <2>1, <4>1
        <5> QED
          BY <4>1, <5>1
      <4>2. CASE d # Root
        <5>1. 1 .. ClustersOf(d) = {}
          BY <2>1, <4>2
        <5> QED
          BY <4>2, <5>1
      <4> QED
        BY <4>1, <4>2
    <3> QED
      BY <1>2, <3>1 DEF FolderClusters
  <2>3. IsFiniteSet(FolderClusters) /\ Cardinality(FolderClusters) = 1
    BY <2>2, FS_Singleton
  <2>4. Clusters \in Nat \ {0}
    BY TreeAssumption
  <2> QED
    BY <1>1, <2>3, <2>4 DEF CountInv
<1>7. TreeInv
  <2>1. \A d \in Folder : SubsOf(slots[d]) = {}
    BY <1>2, <1>3, <1>4 DEF SubsOf, LinkedOf
  <2>2. Live = {Root}
    <3>1. /\ Kids \in Graph /\ \A d \in Folder : Kids[d] = {}
          /\ Live = Reach(Kids, {Root})
      BY <1>5, <2>1, KidsAre DEF Live
    <3>2. ClosedIn(Kids, {Root}) /\ {Root} \in SUBSET Folder
      BY <1>2, <3>1 DEF ClosedIn
    <3>3. Live \subseteq {Root}
      BY <1>2, <3>1, <3>2, ReachFrom
    <3>4. {Root} \subseteq Live
      BY <3>1, <3>2, ReachIs
    <3> QED
      BY <3>3, <3>4
  <2>3. Used = {Root}
    BY <1>2, <1>3 DEF Used
  <2> QED
    BY <1>1, <2>1, <2>2, <2>3 DEF TreeInv
<1>8. TreeTypes /\ ListInv
  <2>1. /\ iter.on = FALSE /\ iter.valid = FALSE /\ iter.loose = FALSE /\ iter.dir = NoFolder /\ iter.at = 0
        /\ DOMAIN iter = {"on", "dir", "valid", "at", "e", "loose"}
    BY <1>1 DEF NoListing
  <2>2. heard \in [stays : SUBSET EntryRecord, told : SUBSET EntryRecord, twice : BOOLEAN]
    BY <1>1 DEF NothingHeard
  <2>3. ScalarInv
    <3>1. calls \in 0 .. MaxCalls
      BY <1>1, TreeAssumption
    <3>2. gone \in BOOLEAN /\ lost \subseteq Folder /\ moved \subseteq Folder
      BY <1>1
    <3> QED
      BY <3>1, <3>2 DEF ScalarInv
  <2>4. iter.on \in BOOLEAN /\ iter.valid \in BOOLEAN /\ iter.loose \in BOOLEAN /\ ~iter.on /\ ~iter.valid
    BY <2>1
  <2>5. iter.at \in Nat
    BY <2>1
  <2>6. ListType
    BY <2>1, <2>2, <2>4, <2>5, Zenon DEF ListType
  <2> QED
    BY <2>3, <2>4, <2>6 DEF TreeTypes, ListInv
<1> QED
  BY <1>5, <1>6, <1>7, <1>8 DEF IInv

LEMMA NextHolds ==
  ASSUME IInv, [Next]_vars  PROVE IInv'
<1>1. CASE \E p \in Path : Create(p) \/ Mkdir(p) \/ Unlink(p) \/ Rmdir(p) \/ Diropen(p)
  BY <1>1, CreateStep, MkdirStep, UnlinkStep, RmdirStep, DiropenStep
<1>2. CASE \E p, q \in Path : Rename(p, q)
  BY <1>2, RenameStep
<1>3. CASE DataTaken \/ DataFreed
  BY <1>3, DataStep
<1>4. CASE RmdirRoot
  BY <1>4, RmdirRootStep
<1>5. CASE Diropen(<< >>)
  BY <1>5, DiropenStep
<1>6. CASE Dirreset \/ Dirnext \/ Dirclose
  BY <1>6, DirresetStep, DirnextStep, DircloseStep
<1>7. CASE UNCHANGED vars
  <2>1. /\ UNCHANGED <<slots, iter, gone, lost, moved, heard>> /\ calls' = calls
        /\ UNCHANGED <<slots, free, data, gone, lost, moved>>
    BY <1>7 DEF vars
  <2>2. calls' \in 0 .. MaxCalls
    BY <2>1 DEF IInv, TreeTypes, ScalarInv
  <2> QED
    BY <2>1, <2>2, NothingMoves, RestSame DEF IInv
<1> QED
  BY <1>1, <1>2, <1>3, <1>4, <1>5, <1>6, <1>7 DEF Next, Done

\* The directories, the clusters, the tree and the listing keep together.
THEOREM Invariance == Spec => []IInv
<1>1. Init => IInv
  BY InitHolds
<1>2. IInv /\ [Next]_vars => IInv'
  BY NextHolds
<1> QED
  BY <1>1, <1>2, PTL DEF Spec

\* Directories stay readable through any adding, removing and growing, on a
\* full disc too: an entry is never cut, and nothing follows the end mark.
THEOREM TypeCorrect == Spec => []TypeOK
<1>1. ASSUME IInv  PROVE TypeOK
  <2>1. slots \in [Folder -> Seq(Slot)] /\ \A d \in Folder : Readable(slots[d])
    BY <1>1 DEF IInv, DirInv
  <2>2. free \in 0 .. Clusters /\ data \in 0 .. Clusters
    <3> DEFINE c == Cardinality(FolderClusters)
    <3>1. free \in Nat /\ data \in Nat /\ c \in Nat /\ free + data + c = Clusters
      BY <1>1, FS_CardinalityType DEF IInv, CountInv
    <3> HIDE DEF c
    <3>2. Clusters \in Nat
      BY TreeAssumption
    <3> QED
      BY <3>1, <3>2
  <2> QED
    BY <1>1, <2>1, <2>2 DEF IInv, TreeTypes, ListType, ScalarInv, TypeOK
<1> QED
  BY <1>1, Invariance, PTL

\* No two entries of a directory answer to one name.
THEOREM NamesStayUnique == Spec => []NamesUnique
<1>1. ASSUME IInv  PROVE NamesUnique
  <2>1. \A d \in Used : Distinct(slots[d])
    BY <1>1 DEF IInv, DirInv, Used
  <2> QED
    BY <2>1 DEF NamesUnique, Distinct, NamesOf
<1> QED
  BY <1>1, Invariance, PTL

\* Every directory that is not lost hangs in the tree by one entry and knows its
\* parent unless it was moved, and no cluster is counted twice or forgotten.
THEOREM TreeStaysIntact == Spec => []TreeIntact
<1>1. ASSUME IInv  PROVE TreeIntact
  <2> SUFFICES ASSUME ~gone  PROVE TreeIntact!2
    BY DEF TreeIntact
  <2>1. DirInv /\ TreeInv /\ free + data + Cardinality(FolderClusters) = Clusters
    BY <1>1 DEF IInv, CountInv
  <2>2. Under({Root}) = Used \ lost
    BY <2>1 DEF TreeInv, Live
  <2>3. ASSUME NEW d \in Used \ (lost \cup {Root})
        PROVE  \E p \in Used \ lost :
                 /\ Cardinality({j \in Linked(p) : slots[p][j].of.sub = d}) = 1
                 /\ \A q \in Used \ {p} : d \notin SubFolders(q)
                 /\ d \in moved \/ slots[d][2].of.sub = p
    <3>1. PICK p \in Live : HangsIn(d, p)
      BY <2>1, <2>3, LiveIs
    <3>2. PICK j \in LinkedOf(slots[p]) : \A k \in LinkedOf(slots[p]) : slots[p][k].of.sub = d <=> k = j
      BY <3>1 DEF HangsIn, OneLink
    <3>3. {k \in Linked(p) : slots[p][k].of.sub = d} = {j}
      BY <3>2, LinksAre
    <3>4. Cardinality({k \in Linked(p) : slots[p][k].of.sub = d}) = 1
      BY <3>3, FS_Singleton
    <3>5. \A q \in Used \ {p} : d \notin SubFolders(q)
      BY <3>1, LinksAre DEF HangsIn, Used
    <3>6. d \in moved \/ slots[d][2].of.sub = p
      BY <3>1 DEF HangsIn, Knows
    <3>7. p \in Used \ lost
      BY <2>1, <3>1, LiveIs
    <3> QED
      BY <3>4, <3>5, <3>6, <3>7
  <2> QED
    BY <2>1, <2>2, <2>3
<1> QED
  BY <1>1, Invariance, PTL

\* A listing that came to its end has told every entry that stayed, and none of
\* them twice, whatever happened to the directory between its calls.
THEOREM ListingsComplete == Spec => []ListingComplete
<1>1. ASSUME IInv  PROVE ListingComplete
  BY <1>1 DEF IInv, ListInv, ListingComplete
<1> QED
  BY <1>1, Invariance, PTL
=============================================================================
