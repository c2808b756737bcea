------------------------------- MODULE FatTree -------------------------------
(***************************************************************************)
(* Directories of libfat (fat/directory.c, fat/fatdir.c): each is a chain  *)
(* of clusters read as one sequence of slots.  An entry takes one slot, or *)
(* for a long name several, whose last one holds the 8.3 alias and the     *)
(* cluster.  Every call holds the partition's lock from its start to its   *)
(* end, so it is one action; what a listing keeps between its calls is     *)
(* iter.  Names are compared without case, so a name stands for all its    *)
(* spellings; which clusters a chain is made of is FatFile's matter.       *)
(***************************************************************************)
EXTENDS Integers, Sequences, FiniteSets, FiniteSetsExt

CONSTANTS
  Folder,      \* what may be the first cluster of a directory, Root among them
  Root,        \* rootDirCluster
  Name,        \* file names, aliases included, "." and ".." excluded
  Alias,       \* long name -> the aliases it may get, in the order they are tried
  PerCluster,  \* entries of a cluster
  LongSlots,   \* slots of an entry with a long name
  Clusters,    \* clusters of the disc
  Path,        \* the paths of the calls, of one or two names
  MaxCalls     \* bound on the calls of a behaviour

NoFolder == "none"
DotNames == {".", ".."}

\* Any cluster may become a directory's first, so that there are enough of them.
ASSUME TreeAssumption ==
  /\ Root \in Folder /\ NoFolder \notin Folder /\ DotNames \cap Name = {}
  /\ IsFiniteSet(Folder) /\ Cardinality(Folder) >= Clusters
  /\ DOMAIN Alias \subseteq Name
  /\ \A n \in DOMAIN Alias : Alias[n] \in Seq((Name \ DOMAIN Alias) \cup {n})
  /\ \A p \in Path : Len(p) \in 1 .. 2 /\ \A i \in 1 .. Len(p) : p[i] \in Name
  /\ PerCluster \in Nat /\ PerCluster >= 2 /\ LongSlots \in Nat /\ LongSlots >= 2
  /\ Clusters \in Nat \ {0} /\ MaxCalls \in Nat

VARIABLES
  slots,    \* directory -> its slots; <<>> for a cluster that is none
  free,     \* free clusters
  data,     \* clusters of files
  iter,     \* a DIR_STATE_STRUCT
  calls,
  gone,     \* the cluster of the root was given back
  lost,     \* history: directories no entry leads to
  moved,    \* history: directories given another parent
  heard     \* history: what the listing has told, and what it must

vars == <<slots, free, data, iter, calls, gone, lost, moved, heard>>

(***************************************************************************)
(* Slots: DIR_ENTRY_LAST, DIR_ENTRY_FREE, and the parts of entries, which  *)
(* count down to 1.                                                        *)
(***************************************************************************)
Entry(name, alias, sub) == [name |-> name, alias |-> alias, sub |-> sub]
Part(e, k) == [part |-> k, of |-> e]
Last == Part(Entry("last", "last", NoFolder), 0)
Free == Part(Entry("free", "free", NoFolder), 0)
Dots(self, parent) == <<Part(Entry(".", ".", self), 1), Part(Entry("..", "..", parent), 1)>>
IsDot(e) == e.name \in DotNames
IsDirectory(e) == e.sub # NoFolder
Size(name) == IF name \in DOMAIN Alias THEN LongSlots ELSE 1
Blank(n) == [i \in 1 .. n |-> Last]

\* The parts i .. j of a directory are the whole of the entry in slot j.
Whole(s, i, j) ==
  /\ i >= 1 /\ s[j].part = 1 /\ j - i + 1 = Size(s[j].of.name)
  /\ \A k \in i .. j : s[k] = Part(s[j].of, j - k + 1)

\* _FAT_directory_getNextEntry from position i: the next slot that ends an
\* entry, 0 at the end mark or the end of the chain.
NextEntryBeyond(s, i) ==    \* (faulty: one slot too far)
  LET ends == {j \in i + 2 .. Len(s) : s[j].part = 1 /\ \A k \in i + 1 .. j : s[k] # Last}
  IN IF ends = {} THEN 0 ELSE Min(ends)
NextEntry(s, i) ==
  LET ends == {j \in i + 1 .. Len(s) : s[j].part = 1 /\ \A k \in i + 1 .. j : s[k] # Last}
  IN IF ends = {} THEN 0 ELSE Min(ends)
EntryStart(s, i, j) ==
  LET long == j - Size(s[j].of.name) + 1 IN
  IF long > i /\ Whole(s, long, j) THEN long ELSE j
\* Its name, which is the alias when the long name was not met.
Shown(s, i, j) == IF EntryStart(s, i, j) = j THEN s[j].of.alias ELSE s[j].of.name

\* All entries, by the slots they end in.
Entries(s) == {j \in 1 .. Len(s) : s[j].part = 1 /\ \A k \in 1 .. j : s[k] # Last}
Answers(s, j, name) == name \in {Shown(s, 0, j), s[j].of.alias}
EntryExists(s, name) == \E j \in Entries(s) : Answers(s, j, name)

(***************************************************************************)
(* _FAT_directory_entryFromPath: the directory and the slot of an entry.   *)
(* A file in the middle of a path is passed over.                          *)
(***************************************************************************)
NotFound == [found |-> FALSE, dir |-> NoFolder, at |-> 0]
Find(d, name, follow) ==
  LET js == {j \in Entries(slots[d]) :
               Answers(slots[d], j, name) /\ (follow => IsDirectory(slots[d][j].of))}
  IN IF js = {} THEN NotFound ELSE [found |-> TRUE, dir |-> d, at |-> Min(js)]

\* (paths have at most two names)
FromPath(path) ==
  IF Len(path) = 1 THEN Find(Root, path[1], FALSE)
  ELSE LET up == Find(Root, path[1], TRUE) IN
       IF up.found THEN Find(slots[up.dir][up.at].of.sub, path[2], FALSE) ELSE NotFound
EntryAt(f) == slots[f.dir][f.at].of

\* The directory a new entry has to go in.
ParentFolder(path) ==
  IF Len(path) = 1 THEN Root
  ELSE LET f == Find(Root, path[1], TRUE) IN IF f.found THEN EntryAt(f).sub ELSE NoFolder
LastName(path) == path[Len(path)]

(***************************************************************************)
(* _FAT_directory_addEntry: the alias, a gap, and the parts written.       *)
(***************************************************************************)
\* The first alias that no name and no alias of the directory has.
AliasNotName(s, a) == \A j \in Entries(s) : Shown(s, 0, j) # a   \* (faulty: not with aliases)
AliasUnused(s, a) == ~EntryExists(s, a)
Aliases(s, name) ==
  IF name \notin DOMAIN Alias THEN {name}
  ELSE LET is == {i \in DOMAIN Alias[name] : AliasUnused(s, Alias[name][i])}
       IN IF is = {} THEN {} ELSE {Alias[name][Min(is)]}

\* _FAT_directory_findEntryGap: n free slots in a row, or the slots from the
\* end mark on, with one more for the new mark; the directory grows while
\* there are clusters.  A run of free slots before the mark counts.
RunNotReset(s, i, n) == s[i] = Free    \* (faulty: a used slot does not end a run)
Run(s, i, n) == \A k \in i .. i + n - 1 : s[k] = Free
EndMark(s) ==
  LET ms == {i \in 1 .. Len(s) : s[i] = Last} IN IF ms = {} THEN Len(s) + 1 ELSE Min(ms)
FreeBefore(s, e) == Min({i \in 1 .. e : \A k \in i .. e - 1 : s[k] = Free})

FindEntryGap(s, n, room) ==
  LET end == EndMark(s)
      runs == {i \in 1 .. end - 1 : i + n - 1 < end /\ Run(s, i, n)}
      start == FreeBefore(s, end)
      more == start + n - Len(s)
      wanted == IF more <= 0 THEN 0 ELSE (more + PerCluster - 1) \div PerCluster
      taken == IF wanted <= room THEN wanted ELSE room
      grown == s \o Blank(taken * PerCluster)
  IN
  IF runs # {} THEN [ok |-> TRUE, start |-> Min(runs), slots |-> s, taken |-> 0]
  ELSE [ok |-> taken = wanted, start |-> start, taken |-> taken,
        slots |-> [i \in 1 .. Len(grown) |-> IF i >= end THEN Last ELSE grown[i]]]

Added(s, e, room) ==
  LET n == Size(e.name)
      gap == FindEntryGap(s, n, room)
  IN [ok |-> gap.ok, taken |-> gap.taken,
      slots |-> IF gap.ok THEN [i \in 1 .. Len(gap.slots) |->
                                  IF i \in gap.start .. gap.start + n - 1
                                  THEN Part(e, n - (i - gap.start)) ELSE gap.slots[i]]
                ELSE gap.slots]

Refused(s) == [ok |-> FALSE, taken |-> 0, slots |-> s]
AddEntry(d, name, sub, room) ==
  LET s == slots[d] IN
  IF EntryExists(s, name) \/ Aliases(s, name) = {} THEN Refused(s)
  ELSE Added(s, Entry(name, CHOOSE a \in Aliases(s, name) : TRUE, sub), room)

\* _FAT_directory_removeEntry
Removed(s, j) ==
  [i \in 1 .. Len(s) |-> IF i \in EntryStart(s, 0, j) .. j THEN Free ELSE s[i]]

(***************************************************************************)
(* The tree, for the properties and for what a move loses.                 *)
(***************************************************************************)
Linked(d) == {j \in Entries(slots[d]) : IsDirectory(slots[d][j].of) /\ ~IsDot(slots[d][j].of)}
SubFolders(d) == {slots[d][j].of.sub : j \in Linked(d)}
Used == {d \in Folder : slots[d] # <<>>}
\* What can be reached from some directories: the least set that is closed.
Closed(ds) == \A d \in ds : SubFolders(d) \subseteq ds
Under(ds) == {x \in Folder : \A S \in SUBSET Folder : ds \subseteq S /\ Closed(S) => x \in S}
ClustersOf(d) == Len(slots[d]) \div PerCluster
FolderClusters == UNION {{d} \X (1 .. ClustersOf(d)) : d \in Folder}

(***************************************************************************)
(* Calls.  One that fails before it writes anything is no step.            *)
(***************************************************************************)
Call == ~gone /\ calls < MaxCalls /\ calls' = calls + 1    \* (the bound)

\* Files of all directories get clusters and give them back (FatFile).
DataTaken == Call /\ free > 0 /\ free' = free - 1 /\ data' = data + 1
             /\ UNCHANGED <<slots, iter, gone, lost, moved, heard>>
DataFreed == Call /\ data > 0 /\ free' = free + 1 /\ data' = data - 1
             /\ UNCHANGED <<slots, iter, gone, lost, moved, heard>>

\* _FAT_open_r of a file that is not there, with O_CREAT.
Create(path) ==
  LET d == ParentFolder(path)
      r == AddEntry(d, LastName(path), NoFolder, free)
  IN
  /\ Call
  /\ ~FromPath(path).found /\ d # NoFolder
  /\ slots' = [slots EXCEPT ![d] = r.slots]
  /\ free' = free - r.taken
  /\ UNCHANGED <<data, iter, gone, lost, moved, heard>>

\* The cluster is taken first, and kept when the entry cannot be added.
Mkdir(path) ==
  LET d == ParentFolder(path)
      new == CHOOSE x \in Folder : slots[x] = <<>>
      r == AddEntry(d, LastName(path), new, free - 1)
  IN
  /\ Call
  /\ ~FromPath(path).found /\ d # NoFolder
  /\ free > 0
  /\ slots' = [slots EXCEPT ![d] = r.slots,
               ![new] = IF r.ok THEN Dots(new, d) \o Blank(PerCluster - 2) ELSE Blank(PerCluster)]
  /\ free' = free - 1 - r.taken
  /\ lost' = IF r.ok THEN lost ELSE lost \cup {new}
  /\ UNCHANGED <<data, iter, gone, moved, heard>>

\* _FAT_unlinkCommon, for a file and for an empty directory.
ChildlessButOne(s) == Cardinality({j \in Entries(s) : ~IsDot(s[j].of)}) <= 1   \* (faulty)
Childless(s) == \A j \in Entries(s) : IsDot(s[j].of)
Forgets(d, e) ==    \* history: an entry leaves the directory being listed
  heard' = IF iter.dir = d THEN [heard EXCEPT !.stays = @ \ {e}] ELSE heard

Unlink(path) ==
  LET f == FromPath(path) IN
  /\ Call /\ f.found /\ ~IsDirectory(EntryAt(f))
  /\ slots' = [slots EXCEPT ![f.dir] = Removed(@, f.at)]
  /\ Forgets(f.dir, EntryAt(f))
  /\ UNCHANGED <<free, data, iter, gone, lost, moved>>

Rmdir(path) ==
  LET f == FromPath(path)
      d == EntryAt(f).sub
  IN
  /\ Call /\ f.found /\ IsDirectory(EntryAt(f))
  /\ Childless(slots[d])
  /\ slots' = [slots EXCEPT ![f.dir] = Removed(@, f.at), ![d] = <<>>]
  /\ free' = free + ClustersOf(d)
  /\ iter' = IF iter.dir = d THEN [iter EXCEPT !.loose = TRUE] ELSE iter
  /\ moved' = moved \ {d}
  /\ Forgets(f.dir, EntryAt(f))
  /\ UNCHANGED <<data, gone, lost>>

\* The path of the root is an empty directory when nothing is in it: its chain
\* is cleared like any other.
RmdirRoot ==
  /\ Call /\ Childless(slots[Root])
  /\ slots' = [slots EXCEPT ![Root] = <<>>]
  /\ free' = free + ClustersOf(Root)
  /\ gone' = TRUE
  /\ UNCHANGED <<data, iter, lost, moved, heard>>

\* A new entry with the old cluster is added, then the old one is removed; that
\* a directory may go below itself, or that its ".." stays, is not looked at.
Rename(path, new) ==
  LET f == FromPath(path)
      e == EntryAt(f)
      d == ParentFolder(new)
      r == AddEntry(d, LastName(new), e.sub, free)
      added == [slots EXCEPT ![d] = r.slots]
  IN
  /\ Call /\ f.found /\ ~FromPath(new).found /\ d # NoFolder
  /\ slots' = IF r.ok THEN [added EXCEPT ![f.dir] = Removed(@, f.at)] ELSE added
  /\ free' = free - r.taken
  /\ IF r.ok /\ IsDirectory(e)
     THEN /\ moved' = IF d = f.dir THEN moved ELSE moved \cup {e.sub}
          /\ lost' = IF d \in Under({e.sub}) THEN lost \cup Under({e.sub}) ELSE lost
     ELSE UNCHANGED <<moved, lost>>
  /\ IF r.ok THEN Forgets(f.dir, e) ELSE heard' = heard
  /\ UNCHANGED <<data, iter, gone>>

(***************************************************************************)
(* Listings.  The entry after the one just told is read ahead.             *)
(***************************************************************************)
NoListing == [on |-> FALSE, dir |-> NoFolder, valid |-> FALSE, at |-> 0,
              e |-> Entry("", "", NoFolder), loose |-> FALSE]
NothingHeard == [stays |-> {}, told |-> {}, twice |-> FALSE]

Ahead(i, from) ==
  LET s == slots[i.dir]
      j == NextEntry(s, from)
  IN IF j = 0 THEN [i EXCEPT !.valid = FALSE]
     ELSE [i EXCEPT !.valid = TRUE, !.at = j, !.e = s[j].of]

Begun(d) ==
  /\ iter' = Ahead([NoListing EXCEPT !.on = TRUE, !.dir = d], 0)
  /\ heard' = [NothingHeard EXCEPT !.stays = {slots[d][j].of : j \in Entries(slots[d])}]

Diropen(path) ==    \* <<>> for the root
  LET f == IF path = <<>> THEN NotFound ELSE FromPath(path)
      d == IF path = <<>> THEN Root ELSE EntryAt(f).sub
  IN
  /\ Call /\ ~iter.on
  /\ path = <<>> \/ (f.found /\ IsDirectory(EntryAt(f)))
  /\ Begun(d)
  /\ UNCHANGED <<slots, free, data, gone, lost, moved>>

Dirreset ==
  /\ Call /\ iter.on /\ ~iter.loose
  /\ Begun(iter.dir)
  /\ UNCHANGED <<slots, free, data, gone, lost, moved>>

\* The chain of a directory that was removed leads anywhere.
Dirnext ==
  /\ ~gone /\ iter.on /\ iter.valid
  /\ heard' = [heard EXCEPT !.told = @ \cup {iter.e},
                            !.twice = @ \/ (iter.e \in heard.told \cap heard.stays)]
  /\ iter' = IF iter.loose THEN [iter EXCEPT !.valid = FALSE] ELSE Ahead(iter, iter.at)
  /\ UNCHANGED <<slots, free, data, calls, gone, lost, moved>>

Dirclose ==
  /\ ~gone /\ iter.on
  /\ iter' = NoListing /\ heard' = NothingHeard
  /\ UNCHANGED <<slots, free, data, calls, gone, lost, moved>>

----------------------------------------------------------------------------
Init ==
  /\ slots = [d \in Folder |-> IF d = Root THEN Blank(PerCluster) ELSE <<>>]
  /\ free = Clusters - 1 /\ data = 0
  /\ iter = NoListing /\ calls = 0 /\ gone = FALSE
  /\ lost = {} /\ moved = {} /\ heard = NothingHeard

Done == (gone \/ calls = MaxCalls) /\ UNCHANGED vars

Next ==
  \/ \E p \in Path : Create(p) \/ Mkdir(p) \/ Unlink(p) \/ Rmdir(p) \/ Diropen(p)
  \/ \E p, q \in Path : Rename(p, q)
  \/ DataTaken \/ DataFreed \/ RmdirRoot \/ Diropen(<<>>) \/ Dirreset \/ Dirnext \/ Dirclose
  \/ Done

Spec == Init /\ [][Next]_vars

(***************************************************************************)
(* Properties.                                                             *)
(***************************************************************************)
\* What may stand in a slot: an entry has one of the aliases of its name.
EntryRecord == {e \in [name : Name \cup DotNames, alias : Name \cup DotNames, sub : Folder \cup {NoFolder}] :
                 IF e.name \in DOMAIN Alias THEN e.alias \in Range(Alias[e.name]) ELSE e.alias = e.name}
Slot == {Last, Free} \cup [part : 1 .. LongSlots, of : EntryRecord]

\* A directory is clusters of slots in which every entry is whole and nothing
\* but end marks follows the first one.
Readable(s) ==
  /\ s \in Seq(Slot) /\ Len(s) % PerCluster = 0
  /\ \A i \in 1 .. Len(s) :
       /\ s[i] = Last => \A k \in i .. Len(s) : s[k] = Last
       /\ s[i] \notin {Last, Free} =>
            \E j \in i .. Len(s) :
              LET start == j - Size(s[j].of.name) + 1 IN i >= start /\ Whole(s, start, j)

\* Types; and directories stay readable after any adding, removing and growing,
\* full discs included.
TypeOK ==
  /\ slots \in [Folder -> Seq(Slot)] /\ \A d \in Folder : Readable(slots[d])
  /\ free \in 0 .. Clusters /\ data \in 0 .. Clusters /\ calls \in 0 .. MaxCalls /\ gone \in BOOLEAN
  /\ iter.dir \in Folder \cup {NoFolder} /\ lost \subseteq Folder /\ moved \subseteq Folder
  /\ heard.stays \subseteq EntryRecord /\ heard.told \subseteq EntryRecord

\* No two entries of a directory answer to the same name, be it the name or the
\* alias of either (addEntry searches for both before it writes).
NamesUnique ==
  \A d \in Used : \A j, k \in Entries(slots[d]) :
    LET a == slots[d][j].of
        b == slots[d][k].of
    IN j # k => {a.name, a.alias} \cap {b.name, b.alias} = {}

\* Every directory hangs in the tree by one entry, knows its parent, and every
\* cluster is free, of a file or of a directory.  What mkdir keeps when it
\* fails and what is moved below itself is lost; a directory moved to another
\* parent keeps its "..".
TreeIntact == ~gone =>
  /\ free + data + Cardinality(FolderClusters) = Clusters
  /\ Under({Root}) = Used \ lost
  /\ \A d \in Used \ (lost \cup {Root}) :
       \E p \in Used \ lost :
         /\ Cardinality({j \in Linked(p) : slots[p][j].of.sub = d}) = 1
         /\ \A q \in Used \ {p} : d \notin SubFolders(q)
         /\ d \in moved \/ slots[d][2].of.sub = p

\* A listing that came to its end has told every entry that was there from its
\* beginning, and none of them twice, whatever was added, removed or renamed
\* between its calls; not if the directory itself was removed.
ListingComplete ==
  iter.on /\ ~iter.valid /\ ~iter.loose => heard.stays \subseteq heard.told /\ ~heard.twice
=============================================================================
