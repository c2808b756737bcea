---------------------------- MODULE FatFileProofs ----------------------------
(***************************************************************************)
(* What holds of FatFile for every size of the disc, number of handles and *)
(* names, and set of calls.                                                *)
(***************************************************************************)
EXTENDS FatFile, FiniteSetTheorems, TLAPS

-----------------------------------------------------------------------------
(***************************************************************************)
(* Arithmetic of sizes and positions.                                      *)
(***************************************************************************)

LEMMA Product ==
  ASSUME NEW a \in Nat, NEW b \in Nat  PROVE a * b \in Nat
OBVIOUS

LEMMA Division ==
  ASSUME NEW n \in Nat, NEW b \in Nat \ {0}
  PROVE  /\ n \div b \in Nat /\ n % b \in Nat /\ n % b \in 0 .. b - 1
         /\ (n \div b) * b \in Nat
         /\ n = (n \div b) * b + (n % b)
OBVIOUS

LEMMA BpcPositive == Bpc \in Nat /\ Bpc > 0
BY SizesAssumption DEF Bpc

LEMMA Constants ==
  /\ Last \in Nat /\ Last > 2
  /\ First = 2 /\ Free = 0 /\ Beyond = Last + 1 /\ Eof = Last + 3 /\ Error = Last + 4
  /\ Cluster = 2 .. Last /\ Link = {Free, Eof, Beyond} \cup Cluster
BY LastAssumption DEF First, Free, Beyond, Eof, Error, Cluster, Link

LEMMA Outside ==
  /\ Free \notin Cluster /\ Eof \notin Cluster /\ Beyond \notin Cluster /\ Error \notin Cluster
  /\ Free # Eof /\ Free # Beyond /\ Free # Error /\ Eof # Beyond /\ Eof # Error
  /\ Beyond # Error
  /\ Link \subseteq Nat /\ Cluster \subseteq Link
BY Constants

LEMMA SpotType ==
  ASSUME NEW c \in Link, NEW s \in Nat, NEW b \in 0 .. Bps - 1
  PROVE  /\ Position(c, s, b) \in Spot
         /\ Position(c, s, b).cluster = c /\ Position(c, s, b).sector = s
         /\ Position(c, s, b).byte = b
BY DEF Position, Spot

LEMMA SpotParts ==
  ASSUME NEW p \in Spot
  PROVE  p.cluster \in Link /\ p.sector \in Nat /\ p.byte \in 0 .. Bps - 1
BY DEF Spot

\* A position whose cluster is another, or whose sector or byte is.
LEMMA SpotChanged ==
  ASSUME NEW p \in Spot, NEW c \in Link, NEW s \in Nat, NEW b \in 0 .. Bps - 1
  PROVE  /\ [p EXCEPT !.cluster = c] \in Spot /\ [p EXCEPT !.sector = s] \in Spot
         /\ [p EXCEPT !.byte = b] \in Spot
         /\ [p EXCEPT !.cluster = c, !.sector = s] \in Spot
         /\ [p EXCEPT !.sector = s, !.cluster = c] \in Spot
BY DEF Spot

LEMMA PositionsAreSpots == ASSUME NEW p \in Positions PROVE p \in Spot
BY SizesAssumption DEF Positions, Spot

LEMMA EndPositionType ==
  ASSUME NEW c \in Link, NEW n \in Nat
  PROVE  EndPosition(c, n) \in Spot /\ EndPosition(c, n).cluster = c
<1>1. n % Bpc \in Nat
  BY BpcPositive, Division
<1>2. (n % Bpc) \div Bps \in Nat /\ n % Bps \in 0 .. Bps - 1
  BY <1>1, SizesAssumption, Division
<1>3. (IF n > 0 /\ n % Bpc = 0 THEN Spc ELSE (n % Bpc) \div Bps) \in Nat
  BY <1>2, SizesAssumption
<1> QED
  BY <1>2, <1>3, SpotType DEF EndPosition

LEMMA AfterType ==
  ASSUME NEW p \in Spot, NEW n \in Nat
  PROVE  After(p, n) \in Spot /\ After(p, n).cluster = p.cluster
<1>1. p.cluster \in Link /\ p.sector \in Nat /\ p.byte \in 0 .. Bps - 1 /\ Bps \in Nat /\ Bps > 0
  BY SpotParts, SizesAssumption
<1>2. CASE p.byte + n >= Bps
  <2>1. p.sector + 1 \in Nat /\ 0 \in 0 .. Bps - 1
    BY <1>1
  <2> QED
    BY <1>1, <1>2, <2>1, SpotType DEF After
<1>3. CASE ~(p.byte + n >= Bps)
  <2>1. p.byte + n \in 0 .. Bps - 1
    BY <1>1, <1>3
  <2> QED
    BY <1>1, <1>3, <2>1, SpotType DEF After
<1> QED
  BY <1>2, <1>3

\* A first part ends the call or the sector.
LEMMA PartFacts ==
  ASSUME NEW p \in Spot, NEW n \in Nat
  PROVE  /\ Part(p, n) \in Nat /\ n - Part(p, n) \in Nat
         /\ n - Part(p, n) > 0 => After(p, Part(p, n)).byte = 0
<1>1. p.cluster \in Link /\ p.sector \in Nat /\ p.byte \in 0 .. Bps - 1 /\ Bps \in Nat /\ Bps > 0
  BY SpotParts, SizesAssumption
<1> DEFINE m == Part(p, n)
<1>2. m \in Nat /\ n - m \in Nat /\ (n - m > 0 => p.byte + m = Bps \/ p.byte + m = 0)
  BY <1>1 DEF Part, Least
<1>3. ASSUME n - m > 0 PROVE After(p, m).byte = 0
  <2>1. CASE p.byte + m = Bps
    BY <1>1, <2>1 DEF After, Position
  <2>2. CASE p.byte + m = 0
    BY <1>1, <2>2 DEF After, Position
  <2> QED
    BY <1>2, <1>3, <2>1, <2>2
<1> QED
  BY <1>2, <1>3

LEMMA ToEdgeFacts ==
  ASSUME NEW p \in Spot, NEW n \in Nat
  PROVE  ToEdge(p, n) \in Nat /\ ToEdge(p, n) * Bps \in Nat /\ n - ToEdge(p, n) * Bps \in Nat
<1>1. p.sector \in Nat /\ Bps \in Nat \ {0} /\ Spc \in Nat
  BY SpotParts, SizesAssumption
<1>2. CASE p.sector <= Spc /\ n > (Spc - p.sector) * Bps
  <2>1. Spc - p.sector \in Nat
    BY <1>1, <1>2
  <2>2. (Spc - p.sector) * Bps \in Nat
    BY <1>1, <2>1, Product
  <2>3. ToEdge(p, n) = Spc - p.sector
    BY <1>2 DEF ToEdge
  <2>4. n - (Spc - p.sector) * Bps \in Nat
    BY <1>2, <2>2
  <2> QED
    BY <2>1, <2>2, <2>3, <2>4
<1>3. CASE ~(p.sector <= Spc /\ n > (Spc - p.sector) * Bps)
  <2>1. ToEdge(p, n) = n \div Bps
    BY <1>3 DEF ToEdge
  <2>2. n \div Bps \in Nat /\ (n \div Bps) * Bps \in Nat /\ n % Bps \in Nat
        /\ n = (n \div Bps) * Bps + (n % Bps)
    BY <1>1, Division, Zenon
  <2>3. n - (n \div Bps) * Bps \in Nat
    BY <2>2
  <2> QED
    BY <2>1, <2>2, <2>3
<1> QED
  BY <1>2, <1>3

LEMMA BySectorsType ==
  ASSUME NEW p \in Spot, NEW s \in Nat
  PROVE  BySectors(p, s) \in Spot /\ BySectors(p, s).cluster = p.cluster
         /\ BySectors(p, s).byte = p.byte
<1>1. p.sector + s \in Nat
  BY SpotParts
<1> QED
  BY <1>1 DEF BySectors, Spot

LEMMA HeadOfCluster ==
  ASSUME NEW p \in Spot
  PROVE  AtHead(p) \in Spot /\ OnSector(p) \in Spot /\ OnSector(AtHead(p)) \in Spot
<1>1. 0 \in Nat /\ 0 \in 0 .. Bps - 1
  BY SizesAssumption
<1>2. AtHead(p) \in Spot /\ OnSector(p) \in Spot
  BY <1>1, SpotParts, SpotChanged DEF AtHead, OnSector
<1>3. OnSector(AtHead(p)) \in Spot
  BY <1>1, <1>2, SpotParts, SpotChanged DEF OnSector
<1> QED
  BY <1>2, <1>3

TransferRecord == [h : Handle, off : Nat, n : Nat \ {0}, at : Nat]

LEMMA TransferType ==
  ASSUME NEW h \in Handle, NEW p \in Spot, NEW off \in Nat, NEW n \in Nat
  PROVE  Transfer(h, p, off, n) \subseteq TransferRecord
<1>0. \A b \in 0 .. Bps - 1 : b \in Nat
  BY SizesAssumption
<1>1. p.cluster \in Nat /\ p.sector \in Nat /\ p.byte \in Nat /\ Bps \in Nat /\ Bpc \in Nat
  BY <1>0, SpotParts, Outside, BpcPositive, SizesAssumption
<1>2. p.cluster * Bpc \in Nat /\ p.sector * Bps \in Nat
  BY <1>1, Product
<1>3. p.cluster * Bpc + p.sector * Bps + p.byte \in Nat
  BY <1>1, <1>2
<1> QED
  BY <1>3 DEF Transfer, TransferRecord

-----------------------------------------------------------------------------
(***************************************************************************)
(* The types, and what a call under way has of its file and of its         *)
(* numbers: whatever a conflict has done to the chains.                    *)
(***************************************************************************)
PlaceType == place \in [Cluster -> [of : Name \cup {"none"}, rank : Nat]]

Entries ==
  \A n \in Name :
    /\ dir[n] # NoEntry => dir[n].start \in Cluster \cup {Free}
    /\ dir[n].size > 0 => dir[n].start \in Cluster

HandleOK(g) ==
  /\ g.inUse => g.name \in Name
  /\ g.append => g.write
  /\ g.size > 0 => g.start # Free
Handles == \A h \in Handle : HandleOK(file[h])

WalkOK(o, g) ==
  /\ o.then # "none"
  /\ o.then = "append" => g.write /\ g.append
  /\ o.then # "append" => g.start # Free
  /\ o.then \in {"extend", "trim"} => g.write
  /\ o.then = "extend" => o.goal > g.size /\ (o.len > 0 => ~g.append)

ReadOK(o, g) ==
  /\ g.start # Free /\ o.remain <= o.len
  /\ o.remain > 0 => o.pos.byte = 0 \/ ~o.ok

RunOK(o) ==
  /\ o.pc = "rchunk" /\ o.ok /\ o.chunk > 0 => o.chunk + Bpc <= o.remain
  /\ o.pc = "rget" => o.ok /\ o.pos.byte = 0 /\ o.chunk <= o.remain
  /\ o.pc = "group" => o.pos.byte = 0 /\ o.chunk <= o.remain

\* What the call o has of its file g.
CallOK(o, g) ==
  /\ o.pc \notin {"idle", "clear"} => o.h \in Handle /\ g.inUse
  /\ o.pc = "walk" => WalkOK(o, g)
  /\ o.pc = "zero" => g.write /\ g.start # Free /\ (o.len > 0 => ~g.append)
  /\ o.pc \in {"head", "chunk", "group"} => g.write /\ g.start # Free /\ o.remain <= o.len
  /\ o.pc \in {"rchunk", "rget"} => ReadOK(o, g)
  /\ o.pc = "chunk" /\ o.ok /\ o.remain > 0 => o.pos.byte = 0
  /\ RunOK(o)

TableOK == TableType /\ PlaceType
DiscOK ==
  /\ dir \in [Name -> [start : Cluster \cup {Free, Eof}, size : Nat]]
  /\ Entries
  /\ fsInfo \in 0 .. Last - 1 + Overhead
FilesOK == file \in [Handle -> FileStruct] /\ Handles
OpOK == op \in Stack /\ CallOK(op, f)
NotesOK ==
  /\ conflict \in BOOLEAN /\ lost \cup uneven \subseteq Name
  /\ loose \cup astray \cup misled \subseteq Handle
IoOK == io \subseteq TransferRecord

TypeInv ==
  TableOK /\ DiscOK /\ FilesOK /\ OpOK /\ NotesOK /\ IoOK /\ calls \in 0 .. MaxCalls

\* The table's operations keep its type.
LEMMA NextType == ASSUME TableType, NEW c  PROVE NextOf(c) \in Link
BY DEF TableType, NextOf, Link

LEMMA LinkedType ==
  ASSUME TableType, NEW c, NEW got \in Link
  PROVE  Linked(c, got) \in [Cluster -> Link]
BY DEF Linked, TableType, Link

LEMMA TakenType ==
  ASSUME PlaceType, NEW c, NEW got, NEW n \in Name \cup {"none"}
  PROVE  Taken(c, got, n) \in [Cluster -> [of : Name \cup {"none"}, rank : Nat]]
<1>1. ASSUME NEW d \in Cluster
      PROVE  (IF d = got THEN [of |-> n, rank |-> IF c \in Cluster THEN place[c].rank + 1 ELSE 0]
              ELSE place[d]) \in [of : Name \cup {"none"}, rank : Nat]
  <2>1. (IF c \in Cluster THEN place[c].rank + 1 ELSE 0) \in Nat
    BY DEF PlaceType
  <2> QED
    BY <2>1 DEF PlaceType
<1> QED
  BY <1>1 DEF Taken

LEMMA LinkFreeType ==
  ASSUME TableType, PlaceType, NEW c, NEW n \in Name \cup {"none"}, NEW got,
         LinkFree(c, n, got)
  PROVE  TableType' /\ PlaceType' /\ got \in Results
<1>1. CASE UNCHANGED table /\ got \in Results
  BY <1>1 DEF table, TableType, PlaceType
<1>2. CASE c > Last /\ got = Error /\ UNCHANGED table
  BY <1>1, <1>2 DEF Results
<1>3. CASE c <= Last /\ NextOf(c) \in Cluster /\ got = NextOf(c) /\ UNCHANGED table
  BY <1>1, <1>3 DEF Results
<1>4. CASE /\ Found(got)
           /\ fat' = Linked(c, got)
           /\ firstFree' = got
           /\ numberFree' = Less(numberFree)
           /\ miscounted' = (miscounted \/ got = Beyond)
           /\ place' = Taken(c, got, n)
           /\ UNCHANGED tail
  <2>1. got \in Cluster \cup {Beyond}
    BY <1>4 DEF Found, FreeClusters
  <2>2. fat' \in [Cluster -> Link] /\ PlaceType'
    BY <1>4, <2>1, LinkedType, TakenType DEF Link, PlaceType
  <2>3. firstFree' \in First .. Beyond
    BY <1>4, <2>1, Constants
  <2>4. numberFree' \in 0 .. Last - 1 + Overhead
    BY <1>4, Constants, OverheadAssumption DEF TableType, Less
  <2> QED
    BY <1>4, <2>1, <2>2, <2>3, <2>4 DEF TableType, Results
<1>5. CASE /\ got = Error
           /\ firstFree' = Beyond
           /\ UNCHANGED <<fat, numberFree, tail, miscounted, place>>
  <2>1. firstFree' \in First .. Beyond
    BY <1>5, Constants
  <2> QED
    BY <1>5, <2>1 DEF TableType, PlaceType, Results
<1> QED
  BY <1>2, <1>3, <1>4, <1>5 DEF LinkFree

LEMMA StartClearType ==
  ASSUME TableType, NEW c, StartClear(c)
  PROVE  firstFree' \in First .. Beyond
BY Constants DEF StartClear, IsValid, TableType

LEMMA ClearLinkType ==
  ASSUME TableType, PlaceType, NEW c, ClearLink(c)
  PROVE  TableType' /\ PlaceType'
<1>1. fat' \in [Cluster -> Link]
  BY DEF ClearLink, Cleared, TableType, Link
<1>2. numberFree' \in 0 .. Last - 1 + Overhead
  BY Constants, OverheadAssumption DEF ClearLink, TableType, More
<1>3. PlaceType'
  BY DEF ClearLink, PlaceType, NoPlace
<1>4. miscounted' \in BOOLEAN /\ firstFree' = firstFree /\ tail' = tail
  BY DEF ClearLink, TableType
<1> QED
  BY <1>1, <1>2, <1>3, <1>4 DEF TableType

LEMMA MarkEndType ==
  ASSUME TableType, NEW c  PROVE MarkEnd(c) \in [Cluster -> Link]
BY DEF MarkEnd, TableType, Link

LEMMA RecountType == Recount \in 0 .. Last - 1 /\ IsFiniteSet(Cluster) /\ IsFiniteSet(FreeClusters)
                     /\ Cardinality(Cluster) = Last - 1
<1>1. IsFiniteSet(Cluster) /\ Cardinality(Cluster) = Last - 1
  BY Constants, FS_Interval
<1>2. FreeClusters \in SUBSET Cluster
  BY DEF FreeClusters
<1>3. IsFiniteSet(FreeClusters) /\ Cardinality(FreeClusters) <= Last - 1
  BY <1>1, <1>2, FS_Subset
<1>4. Cardinality(FreeClusters) \in Nat
  BY <1>3, FS_CardinalityType
<1> QED
  BY <1>1, <1>3, <1>4, Constants DEF Recount

LEMMA FromInfoType ==
  ASSUME NEW n \in 0 .. Last - 1 + Overhead
  PROVE  FromInfo(n) \in 0 .. Last - 1 + Overhead
<1>1. Recount \in 0 .. Last - 1 + Overhead
  BY RecountType, OverheadAssumption, Constants
<1> QED
  BY <1>1 DEF FromInfo

-----------------------------------------------------------------------------
(***************************************************************************)
(* What the actions leave alone, and what they set, keeps its type.        *)
(***************************************************************************)
LEMMA TypeInvGivesTypeOK == TypeInv => TypeOK
BY DEF TypeInv, TypeOK, TableOK, DiscOK, FilesOK, OpOK, NotesOK, IoOK, TransferRecord

LEMMA TableSame == ASSUME TableOK, UNCHANGED table  PROVE TableOK'
BY DEF TableOK, TableType, PlaceType, table

LEMMA DiscSame == ASSUME DiscOK, UNCHANGED <<dir, fsInfo>>  PROVE DiscOK'
BY DEF DiscOK, Entries

LEMMA FilesSame == ASSUME FilesOK, UNCHANGED file  PROVE FilesOK'
BY DEF FilesOK, Handles

LEMMA NotesSame == ASSUME NotesOK, UNCHANGED notes  PROVE NotesOK'
BY DEF NotesOK, notes

LEMMA NoIoType == ASSUME NoIo  PROVE IoOK'
BY DEF NoIo, IoOK

LEMMA CallsType ==
  ASSUME calls \in 0 .. MaxCalls, calls' = calls \/ Call
  PROVE  calls' \in 0 .. MaxCalls
BY CallsAssumption DEF Call

LEMMA IdleFacts ==
  /\ Idle \in Stack /\ Idle.pc = "idle"
  /\ \A g : CallOK(Idle, g)
<1>1. 0 \in 0 .. Bps - 1 /\ 0 \in Nat /\ Free \in Link
  BY SizesAssumption DEF Link
<1>2. Idle \in Stack
  BY <1>1, SpotType DEF Idle, Stack
<1>3. Idle.pc = "idle"
  BY DEF Idle
<1> QED
  BY <1>2, <1>3 DEF CallOK, RunOK

LEMMA IdleEnds == ASSUME op' = Idle  PROVE OpOK'
BY IdleFacts DEF OpOK

LEMMA ClearingFacts ==
  ASSUME NEW c \in Link
  PROVE  /\ Clearing(c) \in Stack /\ Clearing(c).pc = "clear" /\ Clearing(c).tip = c
         /\ \A g : CallOK(Clearing(c), g)
<1>1. Clearing(c) \in Stack /\ Clearing(c).pc = "clear" /\ Clearing(c).tip = c
  BY IdleFacts DEF Clearing, Stack
<1> QED
  BY <1>1 DEF CallOK, RunOK

LEMMA ClearingType == ASSUME NEW c \in Link, op' = Clearing(c)  PROVE OpOK'
BY ClearingFacts DEF OpOK

LEMMA BecomesType ==
  ASSUME FilesOK, NEW h \in Handle, NEW g \in FileStruct, HandleOK(g), Becomes(h, g)
  PROVE  /\ FilesOK' /\ file'[h] = g
         /\ \A j \in Handle \ {h} : file'[j] = file[j]
BY DEF FilesOK, Handles, Becomes

\* A call under way has its handle, and its file is well formed.
LEMMA CallFile ==
  ASSUME TypeInv, op.pc \notin {"idle", "clear"}
  PROVE  /\ op.h \in Handle /\ f = file[op.h] /\ f \in FileStruct /\ HandleOK(f)
         /\ f.inUse /\ f.name \in Name
BY DEF TypeInv, OpOK, CallOK, FilesOK, Handles, HandleOK, f

LEMMA OpFields ==
  ASSUME TypeInv
  PROVE  /\ op.tip \in Link /\ op.left \in Int /\ op.pos \in Spot /\ op.len \in Nat
         /\ op.remain \in Nat /\ op.off \in Nat /\ op.end \in Link /\ op.next \in Link
         /\ op.chunk \in Nat /\ op.goal \in Nat /\ op.ok \in BOOLEAN /\ op \in Stack
BY DEF TypeInv, OpOK, Stack

LEMMA FileFields ==
  ASSUME NEW g \in FileStruct
  PROVE  /\ g.inUse \in BOOLEAN /\ g.name \in Name \cup {"none"} /\ g.read \in BOOLEAN
         /\ g.write \in BOOLEAN /\ g.append \in BOOLEAN /\ g.size \in Nat
         /\ g.start \in Cluster \cup {Free} /\ g.cur \in Nat /\ g.modified \in BOOLEAN
         /\ g.rw \in Spot /\ g.ap \in Spot
BY DEF FileStruct

LEMMA NextInLink == ASSUME TypeInv, NEW c  PROVE NextOf(c) \in Link
BY NextType DEF TypeInv, TableOK

-----------------------------------------------------------------------------
(***************************************************************************)
(* Each action keeps the types.                                            *)
(***************************************************************************)
LEMMA StepFrame ==
  ASSUME TypeInv, UNCHANGED <<dir, fsInfo>>, calls' = calls \/ Call,
         TableOK', FilesOK', OpOK', NotesOK', IoOK'
  PROVE  TypeInv'
BY DiscSame, CallsType DEF TypeInv

LEMMA TypeOfClear == ASSUME TypeInv, Clear  PROVE TypeInv'
<1>1. TableOK'
  BY ClearLinkType DEF Clear, TypeInv, TableOK
<1>2. NextOf(op.tip) \in Link
  BY NextInLink
<1>3. OpOK'
  BY <1>2, IdleEnds, ClearingType DEF Clear
<1>4. FilesOK' /\ NotesOK' /\ IoOK'
  BY FilesSame, NotesSame, NoIoType DEF Clear, TypeInv
<1> QED
  BY <1>1, <1>3, <1>4, StepFrame DEF Clear, At

LEMMA TypeOfWalk == ASSUME TypeInv, Walk  PROVE TypeInv'
<1>1. op.pc = "walk" /\ file' = file /\ f \in FileStruct
  BY CallFile DEF Walk, At
<1>2. NextOf(op.tip) \in Link /\ (IF ToTheEnd THEN op.left ELSE op.left - 1) \in Int
  BY NextInLink, OpFields
<1>3. /\ op' \in Stack /\ op'.pc = op.pc /\ op'.h = op.h /\ op'.then = op.then
      /\ op'.goal = op.goal /\ op'.len = op.len
  BY <1>2, OpFields DEF Walk, Stack
<1>4. CallOK(op', f')
  BY <1>1, <1>3 DEF TypeInv, OpOK, CallOK, WalkOK, RunOK, f
<1>5. TableOK' /\ FilesOK' /\ NotesOK' /\ IoOK'
  BY TableSame, FilesSame, NotesSame, NoIoType DEF Walk, TypeInv
<1> QED
  BY <1>3, <1>4, <1>5, StepFrame DEF Walk, At, OpOK

LEMMA TypeOfOpenAppended == ASSUME TypeInv, OpenAppended  PROVE TypeInv'
<1>1. op.h \in Handle /\ f \in FileStruct /\ HandleOK(f) /\ op.tip \in Link
  BY CallFile, OpFields DEF OpenAppended, Walked, At
<1> DEFINE p == EndPosition(op.tip, f.size)
           g == [f EXCEPT !.ap = p]
<1>2. p \in Spot
  BY <1>1, FileFields, EndPositionType
<1> HIDE DEF p
<1>3. g \in FileStruct /\ HandleOK(g)
  BY <1>1, <1>2 DEF FileStruct, HandleOK
<1>4. FilesOK'
  BY <1>1, <1>3, BecomesType DEF OpenAppended, TypeInv, p
<1>5. TableOK' /\ OpOK' /\ NotesOK' /\ IoOK'
  BY TableSame, IdleEnds, NotesSame, NoIoType DEF OpenAppended, TypeInv
<1> QED
  BY <1>4, <1>5, StepFrame DEF OpenAppended, Walked, At

LEMMA TypeOfOpen ==
  ASSUME TypeInv, NEW h \in Handle, NEW n \in Name, NEW m \in Mode, Open(h, n, m)
  PROVE  TypeInv'
<1> DEFINE known == dir[n] # NoEntry
           old == IF known THEN dir[n] ELSE Entry(Free, 0)
           cut == Truncates(m) /\ old.start # Free
           start == CutStart(cut, old.start)
           g == [Closed EXCEPT
                   !.inUse = TRUE, !.name = n, !.read = Reads(m), !.write = Writes(m),
                   !.append = Appends(m), !.size = IF cut THEN 0 ELSE old.size,
                   !.start = start, !.modified = cut \/ ~known,
                   !.rw = Position(start, 0, 0), !.ap = Position(start, 0, 0)]
           o == [Idle EXCEPT !.pc = "walk", !.then = "append", !.h = h, !.tip = start]
<1>1. /\ Call /\ dir' = [dir EXCEPT ![n] = old] /\ Becomes(h, g)
      /\ op' = IF cut THEN Clearing(old.start) ELSE IF Appends(m) THEN o ELSE Idle
      /\ IF cut THEN StartClear(old.start) ELSE UNCHANGED firstFree
      /\ UNCHANGED <<fat, numberFree, tail, miscounted, place, fsInfo, astray, misled, lost, uneven>>
      /\ NoIo
  BY DEF Open
<1>2. /\ old \in [start : Cluster \cup {Free, Eof}, size : Nat]
      /\ old.start \in Cluster \cup {Free} /\ (old.size > 0 => old.start \in Cluster)
  BY Outside DEF Entry, TypeInv, DiscOK, Entries
<1>3. start \in Cluster \cup {Free} /\ (~cut => start = old.start) /\ old.start \in Link
  BY <1>2 DEF CutStart, Link
<1> HIDE DEF old, start, known
<1>4. Position(start, 0, 0) \in Spot
  <2>1. 0 \in Nat /\ 0 \in 0 .. Bps - 1 /\ start \in Link
    BY <1>3, SizesAssumption DEF Link
  <2> QED
    BY <2>1, SpotType
<1>5. (IF cut THEN 0 ELSE old.size) \in Nat /\ (cut \/ ~known) \in BOOLEAN
      /\ Reads(m) \in BOOLEAN /\ Writes(m) \in BOOLEAN /\ Appends(m) \in BOOLEAN
  BY <1>2 DEF known, Reads, Writes, Appends
<1> HIDE DEF cut
<1>6. /\ g \in FileStruct /\ g.name = n /\ g.start = start /\ g.inUse = TRUE
      /\ g.write = Writes(m) /\ g.append = Appends(m)
      /\ g.size = IF cut THEN 0 ELSE old.size
  BY <1>3, <1>4, <1>5 DEF FileStruct, Closed
<1> HIDE DEF g
<1>7. HandleOK(g)
  <2>1. Appends(m) => Writes(m)
    BY DEF Appends, Writes
  <2>2. g.size > 0 => g.start # Free
    BY <1>2, <1>3, <1>6, Outside
  <2> QED
    BY <1>6, <2>1, <2>2 DEF HandleOK
<1>8. FilesOK' /\ file'[h] = g
  BY <1>1, <1>6, <1>7, BecomesType DEF TypeInv
<1>9. OpOK'
  <2>1. CASE cut
    BY <1>1, <1>3, <2>1, ClearingType
  <2>2. CASE ~cut /\ Appends(m)
    <3>1. start \in Link
      BY <1>3 DEF Link
    <3>2. o \in Stack /\ o.pc = "walk" /\ o.then = "append" /\ o.h = h
      BY <3>1, IdleFacts DEF Stack
    <3>3. CallOK(o, g)
      BY <1>6, <2>2, <3>2 DEF CallOK, WalkOK, RunOK, Appends, Writes
    <3>4. op' = o
      BY <1>1, <2>2
    <3> HIDE DEF o
    <3> QED
      BY <1>8, <3>2, <3>3, <3>4 DEF OpOK, f
  <2>3. CASE ~cut /\ ~Appends(m)
    BY <1>1, <2>3, IdleEnds
  <2> QED
    BY <2>1, <2>2, <2>3
<1>10. TableOK'
  <2>1. firstFree' \in First .. Beyond
    BY <1>1, StartClearType DEF TypeInv, TableOK, TableType
  <2> QED
    BY <1>1, <2>1 DEF TypeInv, TableOK, TableType, PlaceType
<1>11. DiscOK'
  BY <1>1, <1>2 DEF TypeInv, DiscOK, Entries
<1>12. NotesOK'
  <2>1. conflict' \in BOOLEAN /\ loose' \subseteq Handle
    BY DEF Open, OpenOn, TypeInv, NotesOK
  <2> QED
    BY <1>1, <2>1 DEF TypeInv, NotesOK
<1>13. IoOK' /\ calls' \in 0 .. MaxCalls
  BY <1>1, NoIoType, CallsType DEF TypeInv
<1> QED
  BY <1>8, <1>9, <1>10, <1>11, <1>12, <1>13 DEF TypeInv

EntryOK(e) ==
  /\ e \in [start : Cluster \cup {Free, Eof}, size : Nat]
  /\ e # NoEntry => e.start \in Cluster \cup {Free}
  /\ e.size > 0 => e.start \in Cluster

LEMMA SyncedType ==
  ASSUME TypeInv, NEW n \in Name, NEW h \in Handle
  PROVE  EntryOK(Synced(n, h))
<1>1. EntryOK(dir[n])
  BY DEF TypeInv, DiscOK, Entries, EntryOK
<1>2. file[h] \in FileStruct /\ HandleOK(file[h])
  BY DEF TypeInv, FilesOK, Handles
<1>3. EntryOK(Entry(file[h].start, file[h].size))
  BY <1>2, FileFields DEF EntryOK, Entry, HandleOK
<1> QED
  BY <1>1, <1>3 DEF Synced, SyncEntry

LEMMA DirChanged ==
  ASSUME TypeInv, NEW n \in Name, NEW e, EntryOK(e), dir' = [dir EXCEPT ![n] = e],
         fsInfo' = fsInfo
  PROVE  DiscOK'
BY DEF TypeInv, DiscOK, Entries, EntryOK

LEMMA ClosedType == Closed \in FileStruct /\ HandleOK(Closed)
<1>1. Position(Free, 0, 0) \in Spot
  <2>1. 0 \in Nat /\ 0 \in 0 .. Bps - 1 /\ Free \in Link
    BY SizesAssumption DEF Link
  <2> QED
    BY <2>1, SpotType
<1> QED
  BY <1>1 DEF Closed, FileStruct, HandleOK

\* An operation that begins outside a call and leaves no call behind.
LEMMA OpSame == ASSUME TypeInv, op.pc = "idle", UNCHANGED op  PROVE OpOK'
BY DEF TypeInv, OpOK, CallOK, RunOK

LEMMA TypeOfClose == ASSUME TypeInv, NEW h \in Handle, Close(h)  PROVE TypeInv'
<1>1. file[h].name \in Name /\ Call
  BY DEF Close, TypeInv, FilesOK, Handles, HandleOK
<1>2. DiscOK'
  BY <1>1, SyncedType, DirChanged DEF Close
<1>3. FilesOK'
  BY ClosedType, BecomesType DEF Close, TypeInv
<1>4. NotesOK'
  BY <1>1 DEF Close, TypeInv, NotesOK
<1>5. TableOK' /\ OpOK' /\ IoOK' /\ calls' \in 0 .. MaxCalls
  BY <1>1, TableSame, OpSame, NoIoType, CallsType DEF Close, Call, TypeInv
<1> QED
  BY <1>2, <1>3, <1>4, <1>5 DEF TypeInv

LEMMA TypeOfFsync == ASSUME TypeInv, NEW h \in Handle, Fsync(h)  PROVE TypeInv'
<1>1. file[h].name \in Name /\ Call /\ file[h] \in FileStruct /\ HandleOK(file[h])
  BY DEF Fsync, TypeInv, FilesOK, Handles, HandleOK
<1>2. DiscOK'
  BY <1>1, SyncedType, DirChanged DEF Fsync
<1> DEFINE g == [file[h] EXCEPT !.modified = FALSE]
<1>3. g \in FileStruct /\ HandleOK(g)
  BY <1>1 DEF FileStruct, HandleOK
<1>4. FilesOK'
  BY <1>3, BecomesType DEF Fsync, TypeInv
<1>5. TableOK' /\ OpOK' /\ IoOK' /\ NotesOK' /\ calls' \in 0 .. MaxCalls
  BY <1>1, TableSame, OpSame, NoIoType, NotesSame, CallsType DEF Fsync, Call, TypeInv
<1> QED
  BY <1>2, <1>4, <1>5 DEF TypeInv

LEMMA OverEdgeType ==
  ASSUME TypeInv, NEW p \in Spot
  PROVE  OverEdge(p) \in Spot /\ OverEdge(p).byte = p.byte
<1>1. NextOf(p.cluster) \in Link /\ 0 \in Nat /\ p.byte \in 0 .. Bps - 1
  BY NextInLink, SpotParts
<1>2. [p EXCEPT !.sector = 0, !.cluster = NextOf(p.cluster)] \in Spot
      /\ [p EXCEPT !.sector = 0, !.cluster = NextOf(p.cluster)].byte = p.byte
  BY <1>1 DEF Spot
<1> QED
  BY <1>2 DEF OverEdge

LEMMA TypeOfReadBegin ==
  ASSUME TypeInv, NEW h \in Handle, NEW n \in Lens, ReadBegin(h, n)
  PROVE  TypeInv'
<1> DEFINE g == file[h]
           len == Least(n, g.size - g.cur)
           part == Part(g.rw, len)
           p == After(g.rw, part)
           sectors == ToEdge(p, len - part)
           rest == len - part - sectors * Bps
           q == BySectors(p, sectors)
           started == [Idle EXCEPT !.pc = "rchunk", !.h = h, !.len = len]
           ahead == [started EXCEPT !.pos = OverEdge(q), !.remain = rest,
                       !.off = g.cur + len - rest, !.ok = ~EdgeFails(q, rest),
                       !.next = OverEdge(q).cluster]
           failed == [started EXCEPT !.pos = p, !.remain = len - part,
                        !.off = g.cur + part, !.ok = FALSE]
<1>1. /\ Call /\ g.inUse /\ g.cur < g.size /\ g.start # Free
      /\ UNCHANGED <<table, dir, file, fsInfo, conflict, loose, misled, lost, uneven>>
      /\ astray' \in {astray, astray \cup {h}}
  BY DEF ReadBegin
<1>2. PICK good \in Outcome(sectors) :
        /\ io' = Transfer(h, g.rw, g.cur, part)
                 \cup IF good THEN Transfer(h, p, g.cur + part, sectors * Bps) ELSE {}
        /\ op' = IF good THEN ahead ELSE failed
  BY DEF ReadBegin
<1>3. g \in FileStruct /\ g.size \in Nat /\ g.cur \in Nat /\ g.rw \in Spot /\ n \in Nat
  BY FileFields, CallsAssumption DEF TypeInv, FilesOK
<1>4. len \in Nat
  BY <1>1, <1>3 DEF Least
<1> HIDE DEF len
<1>5. part \in Nat /\ len - part \in Nat /\ (len - part > 0 => p.byte = 0)
  BY <1>3, <1>4, PartFacts
<1>6. p \in Spot
  BY <1>3, <1>5, AfterType
<1> HIDE DEF part, p
<1>7. sectors \in Nat /\ sectors * Bps \in Nat /\ rest \in Nat
  BY <1>5, <1>6, ToEdgeFacts
<1>8. q \in Spot /\ q.byte = p.byte
  BY <1>6, <1>7, BySectorsType
<1>9. rest <= len - part
  BY <1>5, <1>7
<1> HIDE DEF sectors, rest, q
<1>10. OverEdge(q) \in Spot /\ OverEdge(q).byte = p.byte /\ OverEdge(q).cluster \in Link
  BY <1>8, OverEdgeType, SpotParts
<1>11. g.cur + len - rest \in Nat /\ g.cur + part \in Nat /\ rest <= len /\ len - part <= len
       /\ (rest > 0 => len - part > 0)
  BY <1>3, <1>4, <1>5, <1>7, <1>9
<1>12. (~EdgeFails(q, rest)) \in BOOLEAN
  BY DEF EdgeFails
<1> HIDE DEF g
<1>13. /\ ahead \in Stack /\ ahead.pc = "rchunk" /\ ahead.h = h /\ ahead.remain = rest
       /\ ahead.len = len /\ ahead.pos = OverEdge(q) /\ ahead.chunk = 0
  BY <1>4, <1>7, <1>10, <1>11, <1>12, IdleFacts DEF Stack, Idle
<1>14. /\ failed \in Stack /\ failed.pc = "rchunk" /\ failed.h = h /\ failed.remain = len - part
       /\ failed.len = len /\ failed.ok = FALSE /\ failed.chunk = 0
  BY <1>4, <1>5, <1>6, <1>11, IdleFacts DEF Stack, Idle
<1> HIDE DEF ahead, failed
<1>15. CallOK(ahead, g)
  BY <1>1, <1>5, <1>10, <1>11, <1>13 DEF CallOK, ReadOK, RunOK
<1>16. CallOK(failed, g)
  BY <1>1, <1>11, <1>14 DEF CallOK, ReadOK, RunOK
<1>17. OpOK'
  <2>1. CASE good
    BY <1>1, <1>2, <1>13, <1>15, <2>1 DEF OpOK, f, g
  <2>2. CASE ~good
    BY <1>1, <1>2, <1>14, <1>16, <2>2 DEF OpOK, f, g
  <2> QED
    BY <2>1, <2>2
<1>18. IoOK'
  <2>1. Transfer(h, g.rw, g.cur, part) \subseteq TransferRecord
    BY <1>3, <1>5, TransferType
  <2>2. Transfer(h, p, g.cur + part, sectors * Bps) \subseteq TransferRecord
    BY <1>6, <1>7, <1>11, TransferType
  <2> QED
    BY <1>2, <2>1, <2>2 DEF IoOK
<1>19. TableOK' /\ FilesOK' /\ NotesOK'
  BY <1>1, TableSame, FilesSame DEF TypeInv, NotesOK
<1> QED
  BY <1>1, <1>17, <1>18, <1>19, StepFrame

LEMMA TypeOfReadGroup == ASSUME TypeInv, ReadGroup  PROVE TypeInv'
<1> DEFINE next == NextOf(op.next)
           chunk == op.chunk + Bpc
           on == next = op.next + 1 /\ InRun(chunk) /\ chunk + Bpc <= op.remain
<1>1. /\ op.pc = "rchunk" /\ op.ok /\ op.remain >= Bpc
      /\ op' = [op EXCEPT !.end = op.next, !.next = next, !.chunk = chunk,
                  !.pc = IF on THEN "rchunk" ELSE "rget"]
  BY DEF ReadGroup, At
<1>2. next \in Link /\ chunk \in Nat /\ op.remain \in Nat /\ op.chunk \in Nat /\ Bpc \in Nat
      /\ Bpc > 0
  BY NextInLink, OpFields, BpcPositive
<1>3. /\ op.h \in Handle /\ f.inUse /\ f.start # Free /\ op.remain <= op.len
      /\ (op.remain > 0 => op.pos.byte = 0)
      /\ (op.chunk > 0 => op.chunk + Bpc <= op.remain)
  BY <1>1 DEF TypeInv, OpOK, CallOK, ReadOK, RunOK
<1>4. op.pos.byte = 0
  BY <1>1, <1>2, <1>3
<1>5. chunk <= op.remain /\ (on => chunk + Bpc <= op.remain)
  BY <1>1, <1>2, <1>3
<1> HIDE DEF next, chunk, on
<1>6. /\ op' \in Stack /\ op'.pc = (IF on THEN "rchunk" ELSE "rget") /\ op'.h = op.h
      /\ op'.chunk = chunk /\ op'.remain = op.remain /\ op'.len = op.len
      /\ op'.pos = op.pos /\ op'.ok = op.ok
  BY <1>1, <1>2, OpFields DEF Stack
<1>7. file' = file
  BY DEF ReadGroup
<1>8. f' = f
  BY <1>6, <1>7 DEF f
<1>9. CallOK(op', f)
  BY <1>1, <1>3, <1>4, <1>5, <1>6 DEF CallOK, ReadOK, RunOK
<1>10. TableOK' /\ FilesOK' /\ NotesOK' /\ IoOK'
  BY TableSame, FilesSame, NotesSame, NoIoType DEF ReadGroup, TypeInv
<1> QED
  BY <1>6, <1>8, <1>9, <1>10, StepFrame DEF ReadGroup, At, OpOK

LEMMA TypeOfReadGet == ASSUME TypeInv, ReadGet  PROVE TypeInv'
<1>1. op.pc = "rget" /\ file' = file
  BY DEF ReadGet, At
<1>2. /\ op.h \in Handle /\ f.inUse /\ f.start # Free /\ op.remain <= op.len
      /\ op.ok /\ op.pos.byte = 0 /\ op.chunk <= op.remain
  BY <1>1 DEF TypeInv, OpOK, CallOK, ReadOK, RunOK
<1>3. /\ op.remain \in Nat /\ op.chunk \in Nat /\ op.off \in Nat /\ op.len \in Nat
      /\ op.pos \in Spot /\ op.end \in Link /\ op.next \in Link /\ op \in Stack
  BY OpFields
<1>4. Spc \in Nat /\ 0 \in Nat
  BY SizesAssumption
<1>5. TableOK' /\ FilesOK' /\ UNCHANGED <<dir, fsInfo, calls>>
  BY TableSame, FilesSame DEF ReadGet, At, TypeInv
<1>6. OpOK' /\ NotesOK' /\ IoOK'
  <2> DEFINE rest == op.remain - op.chunk
             ended == rest = 0 /\ op.next = Eof
             good == ended \/ IsValid(op.next)
             p == CASE ended -> [op.pos EXCEPT !.cluster = op.end, !.sector = Spc]
                    [] ~ended /\ good -> [op.pos EXCEPT !.cluster = op.next, !.sector = 0]
                    [] OTHER -> op.pos
             o == [op EXCEPT !.pc = "rchunk", !.chunk = 0, !.remain = rest, !.pos = p,
                     !.off = @ + op.chunk, !.ok = good, !.next = p.cluster]
  <2>1. CASE /\ io' = Transfer(op.h, OnSector(AtHead(op.pos)), op.off, op.chunk)
             /\ op' = o
             /\ astray' = IF good THEN astray ELSE astray \cup {op.h}
    <3>1. rest \in Nat /\ rest <= op.len /\ op.off + op.chunk \in Nat
      BY <1>2, <1>3
    <3>2. good \in BOOLEAN
      BY DEF IsValid
    <3>3. p \in Spot /\ p.byte = 0 /\ p.cluster \in Link
      <4>1. /\ [op.pos EXCEPT !.cluster = op.end, !.sector = Spc] \in Spot
            /\ [op.pos EXCEPT !.cluster = op.end, !.sector = Spc].byte = 0
        BY <1>2, <1>3, <1>4 DEF Spot
      <4>2. /\ [op.pos EXCEPT !.cluster = op.next, !.sector = 0] \in Spot
            /\ [op.pos EXCEPT !.cluster = op.next, !.sector = 0].byte = 0
        BY <1>2, <1>3, <1>4 DEF Spot
      <4>3. p \in Spot /\ p.byte = 0
        BY <1>2, <1>3, <4>1, <4>2
      <4> HIDE DEF p
      <4> QED
        BY <4>3, SpotParts
    <3> HIDE DEF rest, good, p
    <3>4. /\ o \in Stack /\ o.pc = "rchunk" /\ o.h = op.h /\ o.chunk = 0 /\ o.remain = rest
          /\ o.pos = p /\ o.len = op.len
      BY <1>3, <3>1, <3>2, <3>3 DEF Stack
    <3> HIDE DEF o
    <3>5. CallOK(o, f)
      BY <1>2, <3>1, <3>3, <3>4 DEF CallOK, ReadOK, RunOK
    <3>6. OpOK'
      BY <1>1, <2>1, <3>4, <3>5 DEF OpOK, f
    <3>7. IoOK'
      BY <1>2, <1>3, <2>1, HeadOfCluster, TransferType DEF IoOK
    <3>8. NotesOK'
      BY <1>2, <2>1 DEF ReadGet, TypeInv, NotesOK
    <3> QED
      BY <3>6, <3>7, <3>8
  <2>2. CASE /\ op' = [op EXCEPT !.pc = "rchunk", !.chunk = 0, !.ok = FALSE]
             /\ NoIo /\ UNCHANGED astray
    <3>1. /\ op' \in Stack /\ op'.pc = "rchunk" /\ op'.h = op.h /\ op'.ok = FALSE
          /\ op'.chunk = 0 /\ op'.remain = op.remain /\ op'.len = op.len
      BY <1>3, <2>2 DEF Stack
    <3>2. CallOK(op', f)
      BY <1>2, <3>1 DEF CallOK, ReadOK, RunOK
    <3>3. NotesOK'
      BY <2>2 DEF ReadGet, TypeInv, NotesOK
    <3> QED
      BY <1>1, <2>2, <3>1, <3>2, <3>3, NoIoType DEF OpOK, f
  <2> QED
    BY <2>1, <2>2 DEF ReadGet
<1> QED
  BY <1>5, <1>6, StepFrame

LEMMA TypeOfReadTail == ASSUME TypeInv, ReadTail  PROVE TypeInv'
<1> DEFINE sectors == IF op.ok THEN op.remain \div Bps ELSE 0
           q == BySectors(op.pos, sectors)
           rest == op.remain - sectors * Bps
           End(p, n) == [f EXCEPT !.rw = p, !.cur = @ + (op.len - n)]
<1>1. /\ op.pc = "rchunk" /\ op' = Idle /\ UNCHANGED <<table, dir, fsInfo, notes, calls>>
  BY DEF ReadTail, At
<1>2. PICK good \in Outcome(sectors) :
        IF op.ok /\ good
        THEN /\ io' = Transfer(op.h, OnSector(AtHead(op.pos)), op.off, sectors * Bps)
                      \cup Transfer(op.h, OnSector(q), op.off + sectors * Bps, rest)
             /\ Becomes(op.h, End([q EXCEPT !.byte = @ + rest], 0))
        ELSE Becomes(op.h, End(op.pos, op.remain)) /\ NoIo
  BY DEF ReadTail, Moved
<1>3. /\ op.h \in Handle /\ f \in FileStruct /\ HandleOK(f) /\ op.remain <= op.len
      /\ (op.remain > 0 => op.pos.byte = 0 \/ ~op.ok)
  <2>1. op.pc \notin {"idle", "clear"}
    BY <1>1
  <2> QED
    BY <1>1, <2>1, CallFile DEF TypeInv, OpOK, CallOK, ReadOK
<1>4. /\ op.remain \in Nat /\ op.len \in Nat /\ op.off \in Nat /\ op.pos \in Spot
      /\ f.cur \in Nat
  BY <1>3, OpFields, FileFields
<1>5. ASSUME NEW p \in Spot, NEW n \in Nat, n <= op.len, Becomes(op.h, End(p, n))
      PROVE  FilesOK'
  <2>1. f.cur + (op.len - n) \in Nat
    BY <1>4, <1>5
  <2>2. End(p, n) \in FileStruct /\ HandleOK(End(p, n))
    BY <1>3, <1>5, <2>1 DEF FileStruct, HandleOK
  <2> QED
    BY <1>3, <1>5, <2>2, BecomesType DEF TypeInv
<1> HIDE DEF End
<1>6. CASE op.ok /\ good
  <2>1. /\ sectors \in Nat /\ sectors * Bps \in Nat /\ rest \in 0 .. Bps - 1 /\ rest \in Nat
    <3>1. sectors = op.remain \div Bps
      BY <1>6
    <3>2. /\ op.remain \div Bps \in Nat /\ op.remain % Bps \in Nat
          /\ op.remain % Bps \in 0 .. Bps - 1 /\ (op.remain \div Bps) * Bps \in Nat
          /\ op.remain = (op.remain \div Bps) * Bps + (op.remain % Bps)
      BY <1>4, SizesAssumption, Division
    <3>3. op.remain - (op.remain \div Bps) * Bps = op.remain % Bps
      BY <1>4, <3>2
    <3> QED
      BY <3>1, <3>2, <3>3
  <2>2. op.remain = 0 => rest = 0
    BY <2>1, <1>4
  <2>3. q \in Spot /\ q.byte = op.pos.byte
    BY <1>4, <2>1, BySectorsType
  <2> HIDE DEF rest, q, sectors
  <2>4. q.byte + rest \in 0 .. Bps - 1
    BY <1>3, <1>4, <1>6, <2>1, <2>2, <2>3, SpotParts
  <2>5. [q EXCEPT !.byte = @ + rest] \in Spot
    BY <2>3, <2>4 DEF Spot
  <2>6. FilesOK'
    BY <1>2, <1>4, <1>5, <1>6, <2>5
  <2>7. IoOK'
    <3>1. op.off + sectors * Bps \in Nat
      BY <1>4, <2>1
    <3>2. Transfer(op.h, OnSector(AtHead(op.pos)), op.off, sectors * Bps) \subseteq TransferRecord
      BY <1>3, <1>4, <2>1, HeadOfCluster, TransferType
    <3>3. Transfer(op.h, OnSector(q), op.off + sectors * Bps, rest) \subseteq TransferRecord
      BY <1>3, <2>1, <2>3, <3>1, HeadOfCluster, TransferType
    <3> QED
      BY <1>2, <1>6, <3>2, <3>3 DEF IoOK
  <2> QED
    BY <2>6, <2>7, <1>1, StepFrame, TableSame, NotesSame, IdleEnds DEF TypeInv
<1>7. CASE ~(op.ok /\ good)
  <2>1. FilesOK' /\ IoOK'
    BY <1>2, <1>3, <1>4, <1>5, <1>7, NoIoType
  <2> QED
    BY <2>1, <1>1, StepFrame, TableSame, NotesSame, IdleEnds DEF TypeInv
<1> QED
  BY <1>6, <1>7

\* The step to the next cluster, and the two ends of an extension.
LEMMA AdvanceType ==
  ASSUME TypeInv, f.name \in Name, NEW p \in Spot, NEW q \in Positions, NEW good,
         Advance(p, q, good)
  PROVE  TableOK' /\ good \in BOOLEAN /\ q \in Spot /\ q.byte = p.byte
<1>1. q \in Spot
  BY PositionsAreSpots
<1>2. CASE q = p /\ good = TRUE /\ UNCHANGED table
  BY <1>1, <1>2, TableSame DEF TypeInv
<1>3. ASSUME NEW got,
             IF Ends(NextOf(p.cluster)) THEN LinkFree(p.cluster, f.name, got)
             ELSE got = NextOf(p.cluster) /\ UNCHANGED table,
             good = IsValid(got),
             q = IF good THEN [p EXCEPT !.sector = 0, !.cluster = got] ELSE p
      PROVE  TableOK' /\ good \in BOOLEAN /\ q.byte = p.byte
  <2>1. TableOK'
    BY <1>3, LinkFreeType, TableSame DEF TypeInv, TableOK
  <2>2. good \in BOOLEAN
    BY <1>3 DEF IsValid
  <2>3. q.byte = p.byte
    BY <1>3 DEF Spot
  <2> QED
    BY <2>1, <2>2, <2>3
<1> QED
  BY <1>1, <1>2, <1>3 DEF Advance

LEMMA ExtendingCall ==
  ASSUME TypeInv, op.pc = "zero" \/ (op.pc = "walk" /\ op.then = "extend")
  PROVE  /\ op.h \in Handle /\ f \in FileStruct /\ HandleOK(f) /\ f.name \in Name
         /\ f.write /\ f.inUse /\ f.start # Free /\ (op.len > 0 => ~f.append)
         /\ (op.pc = "walk" => op.goal > f.size)
<1>1. op.pc \notin {"idle", "clear"}
  OBVIOUS
<1> QED
  BY <1>1, CallFile DEF TypeInv, OpOK, CallOK, WalkOK

LEMMA ExtendedType ==
  ASSUME TypeInv, op.pc = "zero" \/ (op.pc = "walk" /\ op.then = "extend"),
         NEW p \in Spot, Extended(p)
  PROVE  FilesOK' /\ OpOK'
<1>1. /\ op.h \in Handle /\ f \in FileStruct /\ HandleOK(f) /\ f.name \in Name
      /\ f.write /\ f.inUse /\ f.start # Free
  BY ExtendingCall
<1>2. op.goal \in Nat /\ op.len \in Nat /\ op \in Stack /\ Free \in Link
  BY OpFields, Constants
<1>3. CASE op.len > 0
  <2> DEFINE g == [f EXCEPT !.rw = p, !.size = op.goal]
  <2>1. g \in FileStruct /\ g.write = f.write /\ g.start = f.start /\ g.inUse = f.inUse
        /\ HandleOK(g)
    BY <1>1, <1>2 DEF FileStruct, HandleOK
  <2> HIDE DEF g
  <2>2. Becomes(op.h, g)
    BY <1>3 DEF Extended, g
  <2>3. FilesOK' /\ file'[op.h] = g
    BY <1>1, <2>1, <2>2, BecomesType DEF TypeInv
  <2>4. op' = [op EXCEPT !.pc = "head", !.then = "none", !.tip = Free, !.goal = 0,
                 !.pos = p, !.remain = op.len, !.off = op.goal]
    BY <1>3 DEF Extended
  <2>5. /\ op' \in Stack /\ op'.pc = "head" /\ op'.h = op.h /\ op'.remain = op.len
        /\ op'.len = op.len
    BY <1>2, <2>4 DEF Stack
  <2>6. op'.remain <= op'.len
    BY <1>2, <2>5
  <2>7. CallOK(op', g)
    BY <1>1, <2>1, <2>5, <2>6 DEF CallOK, RunOK
  <2> QED
    BY <2>3, <2>5, <2>7 DEF OpOK, f
<1>4. CASE ~(op.len > 0)
  <2> DEFINE g == [f EXCEPT !.size = op.goal, !.modified = TRUE,
                     !.ap = IF f.append THEN p ELSE @]
  <2>1. g \in FileStruct /\ HandleOK(g)
    BY <1>1, <1>2 DEF FileStruct, HandleOK
  <2> HIDE DEF g
  <2>2. Becomes(op.h, g) /\ op' = Idle
    BY <1>4 DEF Extended, g
  <2> QED
    BY <1>1, <2>1, <2>2, BecomesType, IdleEnds DEF TypeInv
<1> QED
  BY <1>3, <1>4

LEMMA ExtendFailedType ==
  ASSUME TypeInv, op.pc = "zero" \/ (op.pc = "walk" /\ op.then = "extend"), ExtendFailed,
         KeepNotes, astray' = astray
  PROVE  FilesOK' /\ OpOK' /\ NotesOK' /\ IoOK'
<1>1. /\ op.h \in Handle /\ f \in FileStruct /\ HandleOK(f) /\ f.name \in Name
      /\ f.write /\ f.inUse /\ f.start # Free
  BY ExtendingCall
<1>2. op.goal \in Nat
  BY OpFields
<1> DEFINE g == IF op.len > 0 THEN f
                ELSE [f EXCEPT !.size = op.goal, !.modified = TRUE,
                        !.ap = IF f.append THEN f.rw ELSE @]
<1>3. g \in FileStruct /\ HandleOK(g)
  BY <1>1, <1>2 DEF FileStruct, HandleOK
<1> HIDE DEF g
<1>4. Becomes(op.h, g) /\ op' = Idle /\ NoIo
  BY DEF ExtendFailed, g
<1>5. NotesOK'
  BY <1>1 DEF ExtendFailed, MadeUneven, KeepNotes, TypeInv, NotesOK
<1> QED
  BY <1>1, <1>3, <1>4, <1>5, BecomesType, IdleEnds, NoIoType DEF TypeInv

LEMMA NotesButUneven ==
  ASSUME TypeInv, UNCHANGED <<conflict, loose, astray, misled, lost>>,
         uneven' = uneven \/ (MadeUneven /\ f.name \in Name)
  PROVE  NotesOK'
BY DEF TypeInv, NotesOK, MadeUneven

LEMMA TypeOfExtendFirst == ASSUME TypeInv, ExtendFirst  PROVE TypeInv'
<1> DEFINE gap == op.goal - f.size
           s == (f.size % Bpc) \div Bps
           b == f.size % Bps
           q == Position(op.tip, s, b)
           atEdge == f.size > 0 /\ q.sector = 0 /\ q.byte = 0
           first == IF q.byte > 0 THEN Bps - q.byte ELSE 0
           p(got) == [q EXCEPT !.cluster = got]
<1>1. /\ op.pc = "walk" /\ op.then = "extend" /\ calls' = calls
      /\ KeepNotes /\ UNCHANGED <<dir, fsInfo, astray>>
  BY DEF ExtendFirst, Walked, At
<1>2. /\ op.h \in Handle /\ f \in FileStruct /\ HandleOK(f) /\ f.name \in Name
      /\ f.write /\ f.inUse /\ f.start # Free /\ (op.len > 0 => ~f.append)
      /\ op.goal > f.size
  BY <1>1, ExtendingCall
<1>3. /\ op.goal \in Nat /\ f.size \in Nat /\ op.tip \in Link /\ op \in Stack /\ op.len \in Nat
      /\ Bps \in Nat /\ Bps > 0
  BY <1>2, OpFields, FileFields, SizesAssumption
<1>4. PICK got \in Link \cup Results :
        /\ IF atEdge THEN LinkFree(op.tip, f.name, got) ELSE got = op.tip /\ UNCHANGED table
        /\ \/ atEdge /\ ~IsValid(got) /\ ExtendFailed
           \/ /\ ~(atEdge /\ ~IsValid(got)) /\ gap + q.byte < Bps
              /\ Extended([p(got) EXCEPT !.byte = @ + gap])
              /\ io' = Transfer(op.h, p(got), f.size, gap) /\ UNCHANGED <<uneven, misled>>
           \/ /\ ~(atEdge /\ ~IsValid(got)) /\ gap + q.byte >= Bps
              /\ op' = [op EXCEPT !.pc = "zero", !.pos = After(p(got), first),
                          !.remain = gap - first, !.off = f.size + first]
              /\ io' = Transfer(op.h, p(got), f.size, first) /\ UNCHANGED <<file, uneven, misled>>
  BY DEF ExtendFirst
<1>5. s \in Nat /\ b \in 0 .. Bps - 1
  <2>1. f.size % Bpc \in Nat
    BY <1>3, BpcPositive, Division
  <2> QED
    BY <1>3, <2>1, Division
<1>6. q \in Spot /\ q.byte = b
  BY <1>3, <1>5, SpotType
<1>7. gap \in Nat /\ first \in Nat /\ f.size + first \in Nat
      /\ (gap + q.byte >= Bps => gap - first \in Nat)
  BY <1>2, <1>3, <1>5, <1>6
<1>8. TableOK'
  BY <1>2, <1>4, LinkFreeType, TableSame DEF TypeInv, TableOK
<1>9. ~(atEdge /\ ~IsValid(got)) => got \in Link
  BY <1>3, <1>4 DEF IsValid, Link
<1>10. got \in Link => p(got) \in Spot /\ p(got).byte = q.byte
  BY <1>6 DEF Spot
<1> HIDE DEF gap, q, atEdge, s, b
<1>11. CASE atEdge /\ ~IsValid(got) /\ ExtendFailed
  BY <1>1, <1>8, <1>11, ExtendFailedType, StepFrame
<1>12. CASE /\ ~(atEdge /\ ~IsValid(got)) /\ gap + q.byte < Bps
            /\ Extended([p(got) EXCEPT !.byte = @ + gap])
            /\ io' = Transfer(op.h, p(got), f.size, gap) /\ UNCHANGED <<uneven, misled>>
  <2>1. p(got) \in Spot /\ p(got).byte = q.byte
    BY <1>9, <1>10, <1>12
  <2> HIDE DEF p
  <2>2. p(got).byte + gap \in 0 .. Bps - 1
    BY <1>3, <1>5, <1>6, <1>7, <1>12, <2>1
  <2>3. [p(got) EXCEPT !.byte = @ + gap] \in Spot
    BY <2>1, <2>2 DEF Spot
  <2>4. FilesOK' /\ OpOK'
    BY <1>1, <1>12, <2>3, ExtendedType
  <2>5. IoOK'
    BY <1>2, <1>3, <1>7, <1>12, <2>1, TransferType DEF IoOK
  <2>6. NotesOK'
    BY <1>1, <1>12, NotesButUneven DEF KeepNotes
  <2> QED
    BY <1>1, <1>8, <2>4, <2>5, <2>6, StepFrame
<1>13. CASE /\ ~(atEdge /\ ~IsValid(got)) /\ gap + q.byte >= Bps
            /\ op' = [op EXCEPT !.pc = "zero", !.pos = After(p(got), first),
                        !.remain = gap - first, !.off = f.size + first]
            /\ io' = Transfer(op.h, p(got), f.size, first) /\ UNCHANGED <<file, uneven, misled>>
  <2>1. p(got) \in Spot
    BY <1>9, <1>10, <1>13
  <2> HIDE DEF p, first
  <2>2. After(p(got), first) \in Spot /\ gap - first \in Nat
    BY <1>7, <1>13, <2>1, AfterType
  <2>3. op' \in Stack /\ op'.pc = "zero" /\ op'.h = op.h /\ op'.len = op.len
    BY <1>3, <1>7, <1>13, <2>2 DEF Stack
  <2>4. CallOK(op', f)
    BY <1>2, <2>3 DEF CallOK, RunOK
  <2>5. OpOK'
    BY <1>13, <2>3, <2>4 DEF OpOK, f
  <2>6. IoOK'
    BY <1>2, <1>3, <1>7, <1>13, <2>1, TransferType DEF IoOK
  <2>7. NotesOK' /\ FilesOK'
    BY <1>1, <1>13, NotesButUneven, FilesSame DEF KeepNotes, TypeInv
  <2> QED
    BY <1>1, <1>8, <2>5, <2>6, <2>7, StepFrame
<1> QED
  BY <1>4, <1>11, <1>12, <1>13

LEMMA TypeOfExtendSector == ASSUME TypeInv, ExtendSector  PROVE TypeInv'
<1> DEFINE p(got) == IF op.pos.sector >= Spc THEN Position(got, 0, op.pos.byte) ELSE op.pos
           fails(got) == op.pos.sector >= Spc /\ ~IsValid(got)
<1>1. /\ op.pc = "zero" /\ calls' = calls /\ op.remain >= Bps
      /\ KeepNotes /\ UNCHANGED <<dir, fsInfo, astray>>
  BY DEF ExtendSector, At
<1>2. /\ op.h \in Handle /\ f \in FileStruct /\ HandleOK(f) /\ f.name \in Name
      /\ f.write /\ f.inUse /\ f.start # Free /\ (op.len > 0 => ~f.append)
  BY <1>1, ExtendingCall
<1>3. /\ op.remain \in Nat /\ op.off \in Nat /\ op.pos \in Spot /\ op \in Stack
      /\ Bps \in Nat /\ Bps > 0
  BY OpFields, SizesAssumption
<1>4. PICK got \in Link \cup Results :
        /\ IF op.pos.sector >= Spc THEN LinkFree(op.pos.cluster, f.name, got)
           ELSE got = op.pos.cluster /\ UNCHANGED table
        /\ IF fails(got) THEN ExtendFailed
           ELSE /\ op' = [op EXCEPT !.pos = BySectors(p(got), 1), !.remain = @ - Bps,
                            !.off = @ + Bps]
                /\ io' = Transfer(op.h, OnSector(p(got)), op.off, Bps)
                /\ UNCHANGED <<file, uneven, misled>>
  BY DEF ExtendSector
<1>5. TableOK'
  BY <1>2, <1>4, LinkFreeType, TableSame DEF TypeInv, TableOK
<1>6. ASSUME ~fails(got) PROVE p(got) \in Spot
  <2>1. 0 \in Nat /\ op.pos.byte \in 0 .. Bps - 1 /\ (op.pos.sector >= Spc => got \in Link)
    BY <1>3, <1>6, SpotParts DEF IsValid, Link
  <2> QED
    BY <1>3, <2>1, SpotType
<1>7. CASE fails(got)
  BY <1>1, <1>4, <1>5, <1>7, ExtendFailedType, StepFrame
<1>8. CASE ~fails(got)
  <2>1. p(got) \in Spot
    BY <1>6, <1>8
  <2>2. op' = [op EXCEPT !.pos = BySectors(p(got), 1), !.remain = @ - Bps, !.off = @ + Bps]
        /\ io' = Transfer(op.h, OnSector(p(got)), op.off, Bps)
        /\ UNCHANGED <<file, uneven, misled>>
    BY <1>4, <1>8
  <2> HIDE DEF p, fails
  <2>3. BySectors(p(got), 1) \in Spot /\ op.remain - Bps \in Nat /\ op.off + Bps \in Nat
    <3>1. op.remain - Bps \in Nat /\ op.off + Bps \in Nat /\ 1 \in Nat
      BY <1>1, <1>3
    <3> QED
      BY <2>1, <3>1, BySectorsType
  <2>4. op' \in Stack /\ op'.pc = "zero" /\ op'.h = op.h /\ op'.len = op.len
    BY <1>1, <1>3, <2>2, <2>3 DEF Stack
  <2>5. CallOK(op', f)
    BY <1>2, <2>4 DEF CallOK, RunOK
  <2>6. OpOK'
    BY <2>2, <2>4, <2>5 DEF OpOK, f
  <2>7. IoOK'
    BY <1>2, <1>3, <2>1, <2>2, HeadOfCluster, TransferType DEF IoOK
  <2>8. NotesOK' /\ FilesOK'
    BY <1>1, <2>2, NotesButUneven, FilesSame DEF KeepNotes, TypeInv
  <2> QED
    BY <1>1, <1>5, <2>6, <2>7, <2>8, StepFrame
<1> QED
  BY <1>7, <1>8

LEMMA TypeOfExtendLast == ASSUME TypeInv, ExtendLast  PROVE TypeInv'
<1>1. /\ op.pc = "zero" /\ calls' = calls /\ op.remain < Bps
      /\ KeepNotes /\ UNCHANGED <<dir, fsInfo, astray>>
  BY DEF ExtendLast, At
<1>2. /\ op.h \in Handle /\ f \in FileStruct /\ HandleOK(f) /\ f.name \in Name
  BY <1>1, ExtendingCall
<1>3. /\ op.remain \in Nat /\ op.off \in Nat /\ op.pos \in Spot /\ Bps \in Nat
  BY OpFields, SizesAssumption
<1>4. CASE /\ op.remain = 0 /\ Extended(op.pos) /\ NoIo /\ UNCHANGED <<table, uneven, misled>>
  BY <1>1, <1>3, <1>4, ExtendedType, NoIoType, TableSame, NotesButUneven, StepFrame
  DEF KeepNotes, TypeInv
<1>5. ASSUME NEW q \in Positions, NEW good \in BOOLEAN, Advance(op.pos, q, good),
             IF good
             THEN /\ Extended([q EXCEPT !.byte = op.remain])
                  /\ io' = Transfer(op.h, OnSector(q), op.off, op.remain)
                  /\ UNCHANGED <<uneven, misled>>
             ELSE ExtendFailed
      PROVE  TypeInv'
  <2>1. TableOK' /\ q \in Spot
    BY <1>2, <1>3, <1>5, AdvanceType
  <2>2. CASE ~good
    BY <1>1, <1>5, <2>1, <2>2, ExtendFailedType, StepFrame
  <2>3. CASE good
    <3>1. op.remain \in 0 .. Bps - 1
      BY <1>1, <1>3
    <3>2. [q EXCEPT !.byte = op.remain] \in Spot
      BY <2>1, <3>1 DEF Spot
    <3>3. FilesOK' /\ OpOK'
      BY <1>1, <1>5, <2>3, <3>2, ExtendedType
    <3>4. IoOK'
      BY <1>2, <1>3, <1>5, <2>1, <2>3, HeadOfCluster, TransferType DEF IoOK
    <3>5. NotesOK'
      BY <1>1, <1>5, <2>3, NotesButUneven DEF KeepNotes
    <3> QED
      BY <1>1, <2>1, <3>3, <3>4, <3>5, StepFrame
  <2> QED
    BY <2>2, <2>3
<1> QED
  BY <1>4, <1>5 DEF ExtendLast

\* The start of a write, on the file or on what a first cluster makes of it.
LEMMA WritingType ==
  ASSUME TypeInv, NEW h \in Handle, NEW g \in FileStruct, HandleOK(g), g.write, g.inUse,
         g.start # Free, NEW len \in Nat, op' = Writing(h, g, len), file'[h] = g
  PROVE  OpOK'
<1> DEFINE base == [Idle EXCEPT !.h = h, !.len = len, !.remain = len]
           far == [base EXCEPT !.pc = "walk", !.then = "extend", !.tip = g.start, !.goal = g.cur]
           near == [base EXCEPT !.pc = "head", !.pos = IF g.append THEN g.ap ELSE g.rw,
                      !.off = IF g.append THEN g.size ELSE g.cur]
<1>1. g.size \in Nat /\ g.cur \in Nat /\ g.start \in Link /\ g.ap \in Spot /\ g.rw \in Spot
      /\ g.append \in BOOLEAN
  BY FileFields DEF Link
<1>2. CASE ~g.append /\ PastEnd(g)
  <2>1. op' = far
    BY <1>2 DEF Writing
  <2>2. /\ far \in Stack /\ far.pc = "walk" /\ far.then = "extend" /\ far.h = h
        /\ far.goal = g.cur
    BY <1>1, IdleFacts DEF Stack
  <2> HIDE DEF far
  <2>3. far.goal > g.size
    BY <1>2, <2>2 DEF PastEnd
  <2>4. CallOK(far, g)
    BY <1>2, <2>2, <2>3 DEF CallOK, WalkOK, RunOK
  <2> QED
    BY <2>1, <2>2, <2>4 DEF OpOK, f
<1>3. CASE ~(~g.append /\ PastEnd(g))
  <2>1. op' = near
    BY <1>3 DEF Writing
  <2>2. near \in Stack /\ near.pc = "head" /\ near.h = h /\ near.remain = len /\ near.len = len
    BY <1>1, IdleFacts DEF Stack
  <2> HIDE DEF near
  <2>3. near.remain <= near.len
    BY <2>2
  <2>4. CallOK(near, g)
    BY <2>2, <2>3 DEF CallOK, RunOK
  <2> QED
    BY <2>1, <2>2, <2>4 DEF OpOK, f
<1> QED
  BY <1>2, <1>3

LEMMA TypeOfWriteBegin ==
  ASSUME TypeInv, NEW h \in Handle, NEW n \in Lens, WriteBegin(h, n)
  PROVE  TypeInv'
<1> DEFINE g == file[h]
           len == IF n + g.size > MaxFile THEN MaxFile - g.size ELSE n
<1>1. /\ Call /\ g.inUse /\ g.write /\ len > 0 /\ NoIo
      /\ UNCHANGED <<dir, fsInfo, loose, misled, lost, uneven>>
      /\ op.pc = "idle"
  BY DEF WriteBegin, Call
<1>2. g \in FileStruct /\ HandleOK(g) /\ g.size \in Nat /\ g.name \in Name /\ n \in Nat
  BY <1>1, FileFields, CallsAssumption DEF TypeInv, FilesOK, Handles, HandleOK
<1>3. len \in Nat
  BY <1>1, <1>2, CallsAssumption
<1>4. NotesOK'
  <2>1. conflict' \in BOOLEAN /\ astray' \subseteq Handle
    BY DEF WriteBegin, TypeInv, NotesOK
  <2> QED
    BY <1>1, <2>1 DEF TypeInv, NotesOK
<1> HIDE DEF len
<1>5. CASE /\ g.start # Free /\ op' = Writing(h, g, len) /\ UNCHANGED <<table, file>>
  <2>1. OpOK'
    BY <1>1, <1>2, <1>3, <1>5, WritingType
  <2> QED
    BY <1>1, <1>4, <1>5, <2>1, TableSame, FilesSame, NoIoType, StepFrame DEF TypeInv
<1>6. ASSUME g.start = Free, NEW got \in Results, LinkFree(Free, g.name, got),
             IF IsValid(got)
             THEN Becomes(h, Headed(h, got)) /\ op' = Writing(h, Headed(h, got), len)
             ELSE UNCHANGED <<file, op>>
      PROVE  TypeInv'
  <2>1. TableOK'
    BY <1>2, <1>6, LinkFreeType DEF TypeInv, TableOK
  <2>2. FilesOK' /\ OpOK'
    <3>1. CASE ~IsValid(got)
      BY <1>1, <1>6, <3>1, FilesSame, OpSame DEF TypeInv, Call
    <3>2. CASE IsValid(got)
      <4>1. got \in Cluster /\ Position(got, 0, 0) \in Spot
        <5>1. 0 \in Nat /\ 0 \in 0 .. Bps - 1 /\ got \in Link /\ got \in Cluster
          BY <3>2, SizesAssumption DEF Link, IsValid
        <5> QED
          BY <5>1, SpotType
      <4>2. /\ Headed(h, got) \in FileStruct /\ HandleOK(Headed(h, got))
            /\ Headed(h, got).write = g.write /\ Headed(h, got).inUse = g.inUse
            /\ Headed(h, got).start = got
        BY <1>2, <4>1, Outside DEF Headed, FileStruct, HandleOK
      <4>3. FilesOK' /\ file'[h] = Headed(h, got)
        BY <1>6, <3>2, <4>2, BecomesType DEF TypeInv
      <4>4. OpOK'
        BY <1>1, <1>3, <1>6, <3>2, <4>1, <4>2, <4>3, Outside, WritingType
      <4> QED
        BY <4>3, <4>4
    <3> QED
      BY <3>1, <3>2
  <2> QED
    BY <1>1, <1>4, <2>1, <2>2, NoIoType, StepFrame
<1>7. \/ g.start # Free /\ op' = Writing(h, g, len) /\ UNCHANGED <<table, file>>
      \/ /\ g.start = Free
         /\ \E got \in Results :
              /\ LinkFree(Free, g.name, got)
              /\ IF IsValid(got)
                 THEN Becomes(h, Headed(h, got)) /\ op' = Writing(h, Headed(h, got), len)
                 ELSE UNCHANGED <<file, op>>
  BY DEF WriteBegin, len
<1> QED
  BY <1>5, <1>6, <1>7

LEMMA WritingCall ==
  ASSUME TypeInv, op.pc \in {"head", "chunk", "group"}
  PROVE  /\ op.h \in Handle /\ f \in FileStruct /\ HandleOK(f) /\ f.name \in Name
         /\ f.write /\ f.inUse /\ f.start # Free /\ op.remain <= op.len
         /\ (op.pc = "chunk" /\ op.ok /\ op.remain > 0 => op.pos.byte = 0)
         /\ (op.pc = "group" => op.pos.byte = 0 /\ op.chunk <= op.remain)
<1>1. op.pc \notin {"idle", "clear"}
  OBVIOUS
<1> QED
  BY <1>1, CallFile DEF TypeInv, OpOK, CallOK, RunOK

\* The call goes on, with its file as it was.
LEMMA WriteGoesOn ==
  ASSUME TypeInv, op.pc \in {"head", "chunk", "group"}, file' = file, op' \in Stack,
         op'.pc \in {"chunk", "group"}, op'.h = op.h, op'.remain <= op'.len,
         op'.pc = "chunk" /\ op'.ok /\ op'.remain > 0 => op'.pos.byte = 0,
         op'.pc = "group" => op'.pos.byte = 0 /\ op'.chunk <= op'.remain
  PROVE  FilesOK' /\ OpOK'
<1>1. f.write /\ f.inUse /\ f.start # Free /\ op.h \in Handle
  BY WritingCall
<1>2. CallOK(op', f)
  BY <1>1 DEF CallOK, RunOK
<1> QED
  BY <1>2, FilesSame DEF TypeInv, OpOK, f

LEMMA TypeOfWriteHead == ASSUME TypeInv, WriteHead  PROVE TypeInv'
<1>1. /\ op.pc = "head" /\ calls' = calls
      /\ KeepNotes /\ UNCHANGED <<dir, file, fsInfo, astray, misled>>
  BY DEF WriteHead, At
<1>2. /\ op.h \in Handle /\ f \in FileStruct /\ f.name \in Name /\ op.remain <= op.len
  BY <1>1, WritingCall
<1>3. /\ op.remain \in Nat /\ op.off \in Nat /\ op.pos \in Spot /\ op.len \in Nat /\ op \in Stack
  BY OpFields
<1>4. PICK q \in Positions, good \in BOOLEAN :
       /\ Advance(op.pos, q, good)
       /\ LET part == Part(q, op.remain)
              p == After(q, part)
              edge == ToEdge(p, op.remain - part)
              sectors == IF edge < Spc THEN edge ELSE 0
              n == part + sectors * Bps
          IN
          IF ~good
          THEN op' = [op EXCEPT !.pc = "chunk", !.ok = FALSE] /\ NoIo /\ UNCHANGED uneven
          ELSE \/ /\ op' = [op EXCEPT !.pc = "chunk", !.pos = BySectors(p, sectors),
                              !.remain = @ - n, !.off = @ + n]
                  /\ io' = Transfer(op.h, q, op.off, part)
                           \cup Transfer(op.h, p, op.off + part, sectors * Bps)
                  /\ UNCHANGED uneven
               \/ /\ sectors > 0
                  /\ op' = [op EXCEPT !.pc = "chunk", !.pos = p, !.ok = FALSE,
                              !.remain = @ - part, !.off = @ + part]
                  /\ io' = Transfer(op.h, q, op.off, part)
                  /\ MadeUneven
  BY DEF WriteHead
<1>5. TableOK' /\ q \in Spot
  BY <1>2, <1>3, <1>4, AdvanceType
<1> DEFINE part == Part(q, op.remain)
           p == After(q, part)
           edge == ToEdge(p, op.remain - part)
           sectors == IF edge < Spc THEN edge ELSE 0
           n == part + sectors * Bps
<1>6. part \in Nat /\ op.remain - part \in Nat /\ (op.remain - part > 0 => p.byte = 0)
  BY <1>3, <1>5, PartFacts
<1>7. p \in Spot
  BY <1>5, <1>6, AfterType
<1>8. \/ ~good /\ op' = [op EXCEPT !.pc = "chunk", !.ok = FALSE] /\ NoIo /\ UNCHANGED uneven
      \/ /\ op' = [op EXCEPT !.pc = "chunk", !.pos = BySectors(p, sectors),
                     !.remain = @ - n, !.off = @ + n]
         /\ io' = Transfer(op.h, q, op.off, part)
                  \cup Transfer(op.h, p, op.off + part, sectors * Bps)
         /\ UNCHANGED uneven
      \/ /\ op' = [op EXCEPT !.pc = "chunk", !.pos = p, !.ok = FALSE,
                     !.remain = @ - part, !.off = @ + part]
         /\ io' = Transfer(op.h, q, op.off, part)
         /\ MadeUneven
  BY <1>4
<1> HIDE DEF part, p
<1>9. edge \in Nat /\ edge * Bps \in Nat /\ op.remain - part - edge * Bps \in Nat
  BY <1>6, <1>7, ToEdgeFacts
<1> HIDE DEF edge
<1>10. sectors \in Nat /\ sectors * Bps \in Nat /\ op.remain - part - sectors * Bps \in Nat
  <2>1. CASE sectors = edge
    BY <1>9, <2>1
  <2>2. CASE sectors = 0
    <3>1. 0 * Bps = 0
      BY SizesAssumption
    <3> QED
      BY <1>6, <2>2, <3>1
  <2> QED
    BY <2>1, <2>2
<1> HIDE DEF sectors
<1>11. n \in Nat /\ op.remain - n \in Nat /\ op.off + n \in Nat /\ op.off + part \in Nat
       /\ op.remain - n <= op.len /\ op.remain - part <= op.len
       /\ (op.remain - n > 0 => op.remain - part > 0)
  <2>1. op.len \in Nat /\ op.remain \in Nat /\ op.remain <= op.len /\ op.off \in Nat
    BY <1>2, <1>3
  <2>2. part \in Nat /\ op.remain - part \in Nat /\ sectors * Bps \in Nat
        /\ op.remain - part - sectors * Bps \in Nat
    BY <1>6, <1>10
  <2> DEFINE x == sectors * Bps
  <2>3. x \in Nat /\ op.remain - part - x \in Nat
    BY <2>2
  <2> HIDE DEF x
  <2>4. /\ part + x \in Nat /\ op.remain - (part + x) \in Nat
        /\ op.off + (part + x) \in Nat /\ op.off + part \in Nat
        /\ op.remain - (part + x) <= op.len /\ op.remain - part <= op.len
    BY <2>1, <2>2, <2>3
  <2>5. op.remain - (part + x) > 0 => op.remain - part > 0
    BY <2>1, <2>2, <2>3
  <2>6. n = part + x
    BY DEF x
  <2> HIDE DEF n
  <2> QED
    BY <2>4, <2>5, <2>6
<1> HIDE DEF n
<1>12. Transfer(op.h, q, op.off, part) \subseteq TransferRecord
  BY <1>2, <1>3, <1>5, <1>6, TransferType
<1>13. CASE ~good /\ op' = [op EXCEPT !.pc = "chunk", !.ok = FALSE] /\ NoIo /\ UNCHANGED uneven
  <2>1. /\ op' \in Stack /\ op'.pc = "chunk" /\ op'.h = op.h /\ op'.ok = FALSE
        /\ op'.remain = op.remain /\ op'.len = op.len
    BY <1>3, <1>13 DEF Stack
  <2>2. FilesOK' /\ OpOK'
    BY <1>1, <1>2, <2>1, WriteGoesOn
  <2> QED
    BY <1>1, <1>5, <1>13, <2>2, NoIoType, NotesButUneven, StepFrame DEF KeepNotes
<1>14. CASE /\ op' = [op EXCEPT !.pc = "chunk", !.pos = BySectors(p, sectors),
                        !.remain = @ - n, !.off = @ + n]
            /\ io' = Transfer(op.h, q, op.off, part)
                     \cup Transfer(op.h, p, op.off + part, sectors * Bps)
            /\ UNCHANGED uneven
  <2>1. BySectors(p, sectors) \in Spot /\ BySectors(p, sectors).byte = p.byte
    BY <1>7, <1>10, BySectorsType
  <2>2. /\ op' \in Stack /\ op'.pc = "chunk" /\ op'.h = op.h /\ op'.ok = op.ok
        /\ op'.remain = op.remain - n /\ op'.len = op.len /\ op'.pos = BySectors(p, sectors)
    BY <1>3, <1>11, <1>14, <2>1 DEF Stack
  <2>3. FilesOK' /\ OpOK'
    BY <1>1, <1>6, <1>11, <2>1, <2>2, WriteGoesOn
  <2>4. Transfer(op.h, p, op.off + part, sectors * Bps) \subseteq TransferRecord
    BY <1>2, <1>7, <1>10, <1>11, TransferType
  <2>5. IoOK'
    BY <1>12, <1>14, <2>4 DEF IoOK
  <2> QED
    BY <1>1, <1>5, <1>14, <2>3, <2>5, NotesButUneven, StepFrame DEF KeepNotes
<1>15. CASE /\ op' = [op EXCEPT !.pc = "chunk", !.pos = p, !.ok = FALSE,
                        !.remain = @ - part, !.off = @ + part]
            /\ io' = Transfer(op.h, q, op.off, part)
            /\ MadeUneven
  <2>1. /\ op' \in Stack /\ op'.pc = "chunk" /\ op'.h = op.h /\ op'.ok = FALSE
        /\ op'.remain = op.remain - part /\ op'.len = op.len
    BY <1>3, <1>6, <1>7, <1>11, <1>15 DEF Stack
  <2>2. FilesOK' /\ OpOK'
    BY <1>1, <1>11, <2>1, WriteGoesOn
  <2>3. IoOK'
    BY <1>12, <1>15 DEF IoOK
  <2> QED
    BY <1>1, <1>2, <1>5, <1>15, <2>2, <2>3, NotesButUneven, StepFrame DEF KeepNotes
<1> QED
  BY <1>8, <1>13, <1>14, <1>15

LEMMA TypeOfWriteChunk == ASSUME TypeInv, WriteChunk  PROVE TypeInv'
<1>1. /\ op.pc = "chunk" /\ calls' = calls /\ op.ok /\ op.remain >= Bpc /\ NoIo
      /\ UNCHANGED <<dir, file, fsInfo, notes>>
  BY DEF WriteChunk, At
<1>2. /\ op.remain \in Nat /\ op.pos \in Spot /\ op.len \in Nat /\ op \in Stack
      /\ Bpc \in Nat /\ Bpc > 0
  BY OpFields, BpcPositive
<1>3. op.remain > 0
  BY <1>1, <1>2
<1>4. op.h \in Handle /\ f.name \in Name /\ op.remain <= op.len /\ op.pos.byte = 0
  BY <1>1, <1>3, WritingCall
<1>5. PICK q \in Positions, good \in BOOLEAN :
       /\ Advance(op.pos, q, good)
       /\ op' = IF good
                THEN [op EXCEPT !.pc = "group", !.pos = q, !.end = q.cluster,
                        !.next = q.cluster, !.chunk = Bpc]
                ELSE [op EXCEPT !.ok = FALSE]
  BY DEF WriteChunk
<1>6. TableOK' /\ q \in Spot /\ q.byte = op.pos.byte /\ q.cluster \in Link
  BY <1>2, <1>4, <1>5, AdvanceType, SpotParts
<1>7. FilesOK' /\ OpOK'
  <2>1. CASE good
    <3>1. /\ op' \in Stack /\ op'.pc = "group" /\ op'.h = op.h /\ op'.remain = op.remain
          /\ op'.len = op.len /\ op'.pos = q /\ op'.chunk = Bpc
      BY <1>2, <1>5, <1>6, <2>1 DEF Stack
    <3>2. op'.remain <= op'.len /\ op'.chunk <= op'.remain
      BY <1>1, <1>2, <1>4, <3>1
    <3> QED
      BY <1>1, <1>4, <1>6, <3>1, <3>2, WriteGoesOn
  <2>2. CASE ~good
    <3>1. /\ op' \in Stack /\ op'.pc = "chunk" /\ op'.h = op.h /\ op'.remain = op.remain
          /\ op'.len = op.len /\ op'.ok = FALSE
      BY <1>1, <1>2, <1>5, <2>2 DEF Stack
    <3> QED
      BY <1>1, <1>4, <3>1, WriteGoesOn
  <2> QED
    BY <2>1, <2>2
<1> QED
  BY <1>1, <1>6, <1>7, NoIoType, NotesSame, StepFrame DEF TypeInv

LEMMA TypeOfWriteGroup == ASSUME TypeInv, WriteGroup  PROVE TypeInv'
<1>1. /\ op.pc = "group" /\ calls' = calls /\ op.chunk + Bpc < op.remain /\ NoIo
      /\ UNCHANGED <<dir, file, fsInfo, notes>>
  BY DEF WriteGroup, At, GroupsOn
<1>2. /\ op.remain \in Nat /\ op.chunk \in Nat /\ op.pos \in Spot /\ op.end \in Link
      /\ op \in Stack /\ Bpc \in Nat /\ Spc \in Nat
  BY OpFields, BpcPositive, SizesAssumption
<1>3. /\ op.h \in Handle /\ f.name \in Name /\ op.remain <= op.len /\ op.pos.byte = 0
      /\ op.chunk <= op.remain
  BY <1>1, WritingCall
<1>4. PICK q \in Positions, good \in BOOLEAN :
       /\ Advance(Position(op.end, Spc, op.pos.byte), q, good)
       /\ op' = CASE ~good -> [op EXCEPT !.ok = FALSE]
                  [] good /\ q.cluster # op.end + 1 -> [op EXCEPT !.next = q.cluster]
                  [] OTHER -> [op EXCEPT !.end = q.cluster, !.next = q.cluster,
                                 !.chunk = @ + Bpc]
  BY DEF WriteGroup
<1>5. Position(op.end, Spc, op.pos.byte) \in Spot
  BY <1>2, SpotParts, SpotType
<1>6. TableOK' /\ q \in Spot /\ q.cluster \in Link
  BY <1>3, <1>4, <1>5, AdvanceType, SpotParts
<1>7. op.chunk + Bpc \in Nat /\ op.chunk + Bpc <= op.remain
  BY <1>1, <1>2
<1>8. /\ op' \in Stack /\ op'.pc = "group" /\ op'.h = op.h /\ op'.remain = op.remain
      /\ op'.len = op.len /\ op'.pos = op.pos /\ op'.chunk \in {op.chunk, op.chunk + Bpc}
  <2>1. CASE op' = [op EXCEPT !.ok = FALSE]
    BY <1>1, <1>2, <2>1 DEF Stack
  <2>2. CASE op' = [op EXCEPT !.next = q.cluster]
    BY <1>1, <1>2, <1>6, <2>2 DEF Stack
  <2>3. CASE op' = [op EXCEPT !.end = q.cluster, !.next = q.cluster, !.chunk = @ + Bpc]
    BY <1>1, <1>2, <1>6, <1>7, <2>3 DEF Stack
  <2> QED
    BY <1>4, <2>1, <2>2, <2>3
<1>9. FilesOK' /\ OpOK'
  <2>1. op'.remain <= op'.len /\ op'.chunk <= op'.remain
    BY <1>3, <1>7, <1>8
  <2> QED
    BY <1>1, <1>3, <1>8, <2>1, WriteGoesOn
<1> QED
  BY <1>1, <1>6, <1>9, NoIoType, NotesSame, StepFrame DEF TypeInv

LEMMA TypeOfWritePut == ASSUME TypeInv, WritePut  PROVE TypeInv'
<1> DEFINE put == [op EXCEPT !.pc = "chunk", !.end = Free, !.next = Free, !.chunk = 0]
<1>1. /\ op.pc = "group" /\ calls' = calls
      /\ KeepNotes /\ UNCHANGED <<table, dir, file, fsInfo, astray, misled>>
  BY DEF WritePut, At
<1>2. /\ op.remain \in Nat /\ op.chunk \in Nat /\ op.pos \in Spot /\ op.end \in Link
      /\ op.next \in Link /\ op.off \in Nat /\ op \in Stack /\ op.len \in Nat
  BY OpFields
<1>3. /\ op.h \in Handle /\ f.name \in Name /\ op.remain <= op.len /\ op.pos.byte = 0
      /\ op.chunk <= op.remain
  BY <1>1, WritingCall
<1>4. AfterRun \in Spot /\ AfterRun.byte = 0
  <2>1. 0 \in Nat /\ Spc \in Nat /\ op.pos.byte \in 0 .. Bps - 1
    BY <1>2, SpotParts, SizesAssumption
  <2> QED
    BY <1>2, <1>3, <2>1, SpotType DEF AfterRun
<1>5. op.remain - op.chunk \in Nat /\ op.off + op.chunk \in Nat
      /\ op.remain - op.chunk <= op.len
  BY <1>2, <1>3
<1>0. /\ put \in Stack /\ put.pc = "chunk" /\ put.h = op.h /\ put.len = op.len
      /\ put.remain = op.remain /\ put.off = op.off
  <2>1. Free \in Link /\ 0 \in Nat
    BY DEF Link
  <2> QED
    BY <1>2, <2>1 DEF Stack
<1> HIDE DEF put
<1>6. CASE /\ op' = [put EXCEPT !.pos = AfterRun, !.remain = @ - op.chunk, !.off = @ + op.chunk]
           /\ io' = Transfer(op.h, OnSector(AtHead(op.pos)), op.off, op.chunk)
           /\ UNCHANGED uneven
  <2>1. /\ op' \in Stack /\ op'.pc = "chunk" /\ op'.h = op.h /\ op'.len = op.len
        /\ op'.remain = op.remain - op.chunk /\ op'.pos = AfterRun
    BY <1>0, <1>4, <1>5, <1>6 DEF Stack
  <2>2. FilesOK' /\ OpOK'
    BY <1>1, <1>4, <1>5, <2>1, WriteGoesOn
  <2>3. IoOK'
    BY <1>2, <1>3, <1>6, HeadOfCluster, TransferType DEF IoOK
  <2> QED
    BY <1>1, <1>6, <2>2, <2>3, NotesButUneven, TableSame, StepFrame DEF KeepNotes, TypeInv
<1>7. CASE op' = [put EXCEPT !.ok = FALSE] /\ NoIo /\ MadeUneven
  <2>1. /\ op' \in Stack /\ op'.pc = "chunk" /\ op'.h = op.h /\ op'.len = op.len
        /\ op'.remain = op.remain /\ op'.ok = FALSE
    BY <1>0, <1>7 DEF Stack
  <2>2. FilesOK' /\ OpOK'
    BY <1>1, <1>3, <2>1, WriteGoesOn
  <2> QED
    BY <1>1, <1>3, <1>7, <2>2, NoIoType, NotesButUneven, TableSame, StepFrame
    DEF KeepNotes, TypeInv
<1> QED
  BY <1>6, <1>7 DEF WritePut, put

LEMMA TypeOfWriteTail == ASSUME TypeInv, WriteTail  PROVE TypeInv'
<1>1. /\ op.pc = "chunk" /\ calls' = calls /\ op' = Idle
      /\ KeepNotes /\ UNCHANGED <<dir, fsInfo, astray, misled>>
  BY DEF WriteTail, At
<1>2. /\ op.remain \in Nat /\ op.pos \in Spot /\ op.off \in Nat /\ op.len \in Nat
      /\ op.ok \in BOOLEAN
  BY OpFields
<1>3. /\ op.h \in Handle /\ f \in FileStruct /\ HandleOK(f) /\ f.name \in Name
      /\ op.remain <= op.len /\ f.start # Free
      /\ (op.ok /\ op.remain > 0 => op.pos.byte = 0)
  BY <1>1, WritingCall
<1>4. ASSUME NEW p \in Spot, NEW n \in Nat, n <= op.len, Written(p, n)
      PROVE  FilesOK'
  <2> DEFINE done == op.len - n
             cur == f.cur + done
             size == IF f.size < cur THEN cur ELSE f.size
             ga == [f EXCEPT !.modified = TRUE, !.ap = p, !.size = f.size + done]
             gr == [f EXCEPT !.modified = TRUE, !.rw = p, !.cur = cur, !.size = size]
  <2>1. f.cur \in Nat /\ f.size \in Nat
    BY <1>3, FileFields
  <2>2. done \in Nat /\ cur \in Nat /\ f.size + done \in Nat /\ size \in Nat
    BY <1>2, <1>4, <2>1
  <2>3. Becomes(op.h, IF f.append THEN ga ELSE gr)
    BY <1>4, <1>3 DEF Written, FileStruct
  <2> HIDE DEF done, cur, size
  <2>4. ga \in FileStruct /\ HandleOK(ga)
    BY <1>3, <1>4, <2>2 DEF FileStruct, HandleOK
  <2>5. gr \in FileStruct /\ HandleOK(gr)
    BY <1>3, <1>4, <2>2 DEF FileStruct, HandleOK
  <2> HIDE DEF ga, gr
  <2> QED
    BY <1>3, <2>3, <2>4, <2>5, BecomesType DEF TypeInv
<1>5. PICK q \in Positions, good \in BOOLEAN :
       /\ IF op.remain > 0 /\ op.ok THEN Advance(op.pos, q, good)
          ELSE q = op.pos /\ good = op.ok /\ UNCHANGED table
       /\ LET sectors == op.remain \div Bps
              p == BySectors(q, sectors)
              rest == op.remain % Bps
          IN
          \/ ~good /\ Written(q, op.remain) /\ NoIo /\ UNCHANGED uneven
          \/ /\ good
             /\ Written([p EXCEPT !.byte = @ + rest], 0)
             /\ io' = Transfer(op.h, OnSector(AtHead(q)), op.off, sectors * Bps)
                      \cup Transfer(op.h, OnSector(p), op.off + sectors * Bps, rest)
             /\ UNCHANGED uneven
          \/ good /\ sectors > 0 /\ Written(q, op.remain) /\ NoIo /\ MadeUneven
  BY DEF WriteTail
<1>6. TableOK' /\ q \in Spot /\ q.byte = op.pos.byte
  BY <1>2, <1>3, <1>5, AdvanceType, TableSame, PositionsAreSpots DEF TypeInv
<1>7. good /\ op.remain > 0 => q.byte = 0
  BY <1>3, <1>5, <1>6
<1> DEFINE sectors == op.remain \div Bps
           p == BySectors(q, sectors)
           rest == op.remain % Bps
<1>8. /\ sectors \in Nat /\ sectors * Bps \in Nat /\ rest \in Nat /\ rest \in 0 .. Bps - 1
      /\ op.off + sectors * Bps \in Nat /\ (op.remain = 0 => rest = 0)
  <2>1. /\ sectors \in Nat /\ sectors * Bps \in Nat /\ rest \in Nat /\ rest \in 0 .. Bps - 1
        /\ op.remain = sectors * Bps + rest
    BY <1>2, SizesAssumption, Division
  <2> HIDE DEF sectors, rest
  <2>2. op.off + sectors * Bps \in Nat
    BY <1>2, <2>1
  <2>3. op.remain = 0 => rest = 0
    BY <2>1
  <2> QED
    BY <2>1, <2>2, <2>3
<1>9. p \in Spot /\ p.byte = q.byte
  BY <1>6, <1>8, BySectorsType
<1>10. CASE ~good /\ Written(q, op.remain) /\ NoIo /\ UNCHANGED uneven
  BY <1>1, <1>2, <1>3, <1>4, <1>6, <1>10, IdleEnds, NoIoType, NotesButUneven, StepFrame
  DEF KeepNotes
<1>11. CASE good /\ Written(q, op.remain) /\ NoIo /\ MadeUneven
  BY <1>1, <1>2, <1>3, <1>4, <1>6, <1>11, IdleEnds, NoIoType, NotesButUneven, StepFrame
  DEF KeepNotes
<1> HIDE DEF sectors, p, rest
<1>12. CASE /\ good
            /\ Written([p EXCEPT !.byte = @ + rest], 0)
            /\ io' = Transfer(op.h, OnSector(AtHead(q)), op.off, sectors * Bps)
                     \cup Transfer(op.h, OnSector(p), op.off + sectors * Bps, rest)
            /\ UNCHANGED uneven
  <2>1. p.byte + rest \in 0 .. Bps - 1
    BY <1>2, <1>7, <1>8, <1>9, <1>12, SpotParts
  <2>2. [p EXCEPT !.byte = @ + rest] \in Spot
    BY <1>9, <2>1 DEF Spot
  <2>3. FilesOK'
    BY <1>2, <1>4, <1>12, <2>2
  <2>4. Transfer(op.h, OnSector(AtHead(q)), op.off, sectors * Bps) \subseteq TransferRecord
    BY <1>2, <1>3, <1>6, <1>8, HeadOfCluster, TransferType
  <2>5. Transfer(op.h, OnSector(p), op.off + sectors * Bps, rest) \subseteq TransferRecord
    BY <1>3, <1>8, <1>9, HeadOfCluster, TransferType
  <2>6. IoOK'
    BY <1>12, <2>4, <2>5 DEF IoOK
  <2> QED
    BY <1>1, <1>6, <1>12, <2>3, <2>6, IdleEnds, NotesButUneven, StepFrame DEF KeepNotes
<1> QED
  BY <1>5, <1>10, <1>11, <1>12 DEF sectors, p, rest

LEMMA TypeOfSeek ==
  ASSUME TypeInv, NEW h \in Handle, NEW p \in Places, Seek(h, p)
  PROVE  TypeInv'
<1> DEFINE g == file[h]
           ahead == p >= g.cur
           s == (p % Bpc) \div Bps
           b == p % Bps
           flagged == [g EXCEPT !.rw.sector = s, !.rw.byte = b]
           left == p \div Bpc - IF ahead THEN Counted(g) ELSE 0
           o == [Idle EXCEPT !.pc = "walk", !.h = h, !.goal = p,
                   !.then = IF ahead THEN "seek" ELSE "rewind",
                   !.tip = IF ahead THEN g.rw.cluster ELSE g.start,
                   !.left = left]
<1>1. /\ Call /\ g.inUse /\ NoIo /\ UNCHANGED <<table, dir, fsInfo, notes>>
      /\ IF p <= g.size /\ g.start # Free THEN Becomes(h, flagged) /\ op' = o
         ELSE Becomes(h, [g EXCEPT !.cur = p]) /\ UNCHANGED op
  BY DEF Seek
<1>2. g \in FileStruct /\ HandleOK(g) /\ p \in Nat
  BY CallsAssumption DEF TypeInv, FilesOK, Handles
<1>3. g.rw \in Spot /\ g.cur \in Nat /\ g.start \in Link /\ g.rw.cluster \in Link
  BY <1>2, FileFields, SpotParts DEF Link
<1>4. s \in Nat /\ b \in 0 .. Bps - 1 /\ p \div Bpc \in Nat /\ g.cur \div Bpc \in Nat
  <2>1. p % Bpc \in Nat /\ p \div Bpc \in Nat /\ g.cur \div Bpc \in Nat
    BY <1>2, <1>3, BpcPositive, Division
  <2> QED
    BY <1>2, <2>1, SizesAssumption, Division
<1>5. left \in Int
  <2>1. Counted(g) \in Int
    BY <1>4 DEF Counted
  <2> QED
    BY <1>4, <2>1
<1> HIDE DEF left, s, b, ahead
<1>6. CASE p <= g.size /\ g.start # Free
  <2>1. [g.rw EXCEPT !.sector = s, !.byte = b] \in Spot
    BY <1>3, <1>4 DEF Spot
  <2>2. flagged = [g EXCEPT !.rw = [g.rw EXCEPT !.sector = s, !.byte = b]]
    BY <1>2, <1>3 DEF FileStruct, Spot
  <2>3. flagged \in FileStruct /\ HandleOK(flagged) /\ flagged.start = g.start
        /\ flagged.inUse = g.inUse
    BY <1>2, <2>1, <2>2 DEF FileStruct, HandleOK
  <2> HIDE DEF flagged
  <2>4. FilesOK' /\ file'[h] = flagged
    BY <1>1, <1>6, <2>3, BecomesType DEF TypeInv
  <2>5. o \in Stack /\ o.pc = "walk" /\ o.h = h /\ o.then \in {"seek", "rewind"}
    BY <1>2, <1>3, <1>5, IdleFacts DEF Stack
  <2> HIDE DEF o
  <2>6. CallOK(o, flagged)
    BY <1>1, <1>6, <2>3, <2>5 DEF CallOK, WalkOK, RunOK
  <2>7. OpOK'
    BY <1>1, <1>6, <2>4, <2>5, <2>6 DEF OpOK, f
  <2> QED
    BY <1>1, <2>4, <2>7, TableSame, NotesSame, NoIoType, StepFrame DEF TypeInv
<1>7. CASE ~(p <= g.size /\ g.start # Free)
  <2>1. [g EXCEPT !.cur = p] \in FileStruct /\ HandleOK([g EXCEPT !.cur = p])
    BY <1>2 DEF FileStruct, HandleOK
  <2>2. FilesOK'
    BY <1>1, <1>7, <2>1, BecomesType DEF TypeInv
  <2> QED
    BY <1>1, <1>7, <2>2, OpSame, TableSame, NotesSame, NoIoType, StepFrame DEF TypeInv, Call
<1> QED
  BY <1>6, <1>7

LEMMA TypeOfSought == ASSUME TypeInv, Sought  PROVE TypeInv'
<1>1. /\ op.pc = "walk" /\ calls' = calls /\ op' = Idle /\ NoIo
      /\ UNCHANGED <<table, dir, fsInfo, misled, uneven, conflict, loose, lost>>
  BY DEF Sought, Walked, At, KeepNotes
<1>2. op.h \in Handle /\ f \in FileStruct /\ HandleOK(f)
  BY <1>1, CallFile
<1>3. op.tip \in Link /\ op.goal \in Nat /\ f.rw \in Spot
  BY <1>2, OpFields, FileFields
<1>4. NotesOK'
  <2>1. astray' \subseteq Handle
    BY <1>2 DEF Sought, TypeInv, NotesOK
  <2> QED
    BY <1>1, <2>1 DEF TypeInv, NotesOK
<1> DEFINE back == [f EXCEPT !.rw.cluster = op.tip, !.cur = op.goal]
           edge == [f EXCEPT !.rw = Position(op.tip, Spc, 0), !.cur = op.goal]
<1>5. back \in FileStruct /\ HandleOK(back)
  <2>1. [f.rw EXCEPT !.cluster = op.tip] \in Spot
    BY <1>3 DEF Spot
  <2>2. back = [f EXCEPT !.rw = [f.rw EXCEPT !.cluster = op.tip], !.cur = op.goal]
    BY <1>2, <1>3 DEF FileStruct, Spot
  <2> QED
    BY <1>2, <1>3, <2>1, <2>2 DEF FileStruct, HandleOK
<1>6. edge \in FileStruct /\ HandleOK(edge)
  <2>1. 0 \in 0 .. Bps - 1 /\ Spc \in Nat
    BY SizesAssumption
  <2>2. Position(op.tip, Spc, 0) \in Spot
    BY <1>3, <2>1, SpotType
  <2> QED
    BY <1>2, <1>3, <2>2 DEF FileStruct, HandleOK
<1>7. Becomes(op.h, back) \/ Becomes(op.h, edge) \/ UNCHANGED file
  BY DEF Sought
<1> HIDE DEF back, edge
<1>8. FilesOK'
  BY <1>2, <1>5, <1>6, <1>7, BecomesType, FilesSame DEF TypeInv
<1> QED
  BY <1>1, <1>4, <1>8, IdleEnds, TableSame, NoIoType, StepFrame DEF TypeInv

LEMMA TypeOfGrow ==
  ASSUME TypeInv, NEW h \in Handle, NEW n \in Places, Grow(h, n)
  PROVE  TypeInv'
<1> DEFINE g == file[h]
           growing(start) == [Idle EXCEPT !.pc = "walk", !.then = "extend", !.h = h,
                                !.tip = start, !.goal = n]
<1>1. /\ Call /\ g.inUse /\ g.write /\ n > g.size /\ NoIo /\ op.pc = "idle"
      /\ UNCHANGED <<dir, fsInfo, misled, uneven, conflict, loose, lost>>
  BY DEF Grow, KeepNotes, Call
<1>2. g \in FileStruct /\ HandleOK(g) /\ g.name \in Name /\ n \in Nat
  BY <1>1, CallsAssumption DEF TypeInv, FilesOK, Handles, HandleOK
<1>3. NotesOK'
  <2>1. astray' \subseteq Handle
    BY DEF Grow, TypeInv, NotesOK
  <2> QED
    BY <1>1, <2>1 DEF TypeInv, NotesOK
<1>4. ASSUME NEW start \in Cluster, NEW k \in FileStruct, op' = growing(start), file'[h] = k,
             k.inUse, k.write, k.start # Free, k.size = g.size
      PROVE  OpOK'
  <2>1. /\ growing(start) \in Stack /\ growing(start).pc = "walk"
        /\ growing(start).then = "extend" /\ growing(start).h = h /\ growing(start).goal = n
        /\ growing(start).len = 0
    BY <1>2, IdleFacts DEF Stack, Idle, Link
  <2> HIDE DEF growing
  <2>2. growing(start).goal > k.size /\ ~(growing(start).len > 0)
    BY <1>1, <1>4, <2>1
  <2>3. CallOK(growing(start), k)
    BY <1>4, <2>1, <2>2 DEF CallOK, WalkOK, RunOK
  <2> QED
    BY <1>4, <2>1, <2>3 DEF OpOK, f
<1>5. CASE g.start # Free /\ op' = growing(g.start) /\ UNCHANGED <<table, file>>
  <2>1. g.start \in Cluster
    BY <1>2, <1>5, FileFields
  <2>2. OpOK'
    BY <1>1, <1>2, <1>4, <1>5, <2>1
  <2> QED
    BY <1>1, <1>3, <1>5, <2>2, TableSame, FilesSame, NoIoType, StepFrame DEF TypeInv
<1>6. ASSUME g.start = Free, NEW got \in Results, LinkFree(Free, g.name, got),
             IF IsValid(got)
             THEN /\ op' = growing(got)
                  /\ Becomes(h, [g EXCEPT !.start = got, !.rw = Position(got, 0, 0)])
             ELSE UNCHANGED <<file, op>>
      PROVE  TypeInv'
  <2>1. TableOK'
    BY <1>2, <1>6, LinkFreeType DEF TypeInv, TableOK
  <2>2. CASE ~IsValid(got)
    BY <1>1, <1>3, <1>6, <2>1, <2>2, FilesSame, OpSame, NoIoType, StepFrame DEF TypeInv
  <2>3. CASE IsValid(got)
    <3> DEFINE k == [g EXCEPT !.start = got, !.rw = Position(got, 0, 0)]
    <3>1. got \in Cluster /\ Position(got, 0, 0) \in Spot
      <4>1. 0 \in Nat /\ 0 \in 0 .. Bps - 1 /\ got \in Link /\ got \in Cluster
        BY <2>3, SizesAssumption DEF Link, IsValid
      <4> QED
        BY <4>1, SpotType
    <3>2. /\ k \in FileStruct /\ HandleOK(k) /\ k.inUse = g.inUse /\ k.write = g.write
          /\ k.start = got /\ k.size = g.size /\ k.start # Free
      BY <1>2, <3>1, Outside DEF FileStruct, HandleOK
    <3>3. Becomes(h, k) /\ op' = growing(got)
      BY <1>6, <2>3
    <3> HIDE DEF k, growing
    <3>4. FilesOK' /\ file'[h] = k
      BY <3>2, <3>3, BecomesType DEF TypeInv
    <3>5. OpOK'
      BY <1>1, <1>4, <3>1, <3>2, <3>3, <3>4
    <3> QED
      BY <1>1, <1>3, <2>1, <3>4, <3>5, NoIoType, StepFrame
  <2> QED
    BY <2>2, <2>3
<1> QED
  BY <1>5, <1>6 DEF Grow

LEMMA TypeOfShrink ==
  ASSUME TypeInv, NEW h \in Handle, NEW n \in Places, Shrink(h, n)
  PROVE  TypeInv'
<1> DEFINE g == file[h]
           none == [g EXCEPT !.size = 0, !.modified = TRUE, !.start = Free,
                      !.ap = Position(Free, 0, 0)]
           o == [Idle EXCEPT !.pc = "walk", !.then = "trim", !.h = h, !.tip = g.start,
                   !.left = (n - 1) \div Bpc, !.goal = n]
<1>1. /\ Call /\ g.inUse /\ g.write /\ n < g.size /\ NoIo
      /\ UNCHANGED <<fat, numberFree, tail, miscounted, place, dir, fsInfo, conflict, misled,
                     lost, uneven>>
      /\ IF n = 0 THEN Becomes(h, none) /\ StartClear(g.start) /\ op' = Clearing(g.start)
         ELSE op' = o /\ UNCHANGED <<firstFree, file>>
  BY DEF Shrink
<1>2. g \in FileStruct /\ HandleOK(g) /\ n \in Nat /\ g.size \in Nat
  BY FileFields, CallsAssumption DEF TypeInv, FilesOK, Handles
<1>3. g.size > 0 /\ g.start \in Cluster /\ g.start \in Link
  BY <1>1, <1>2, FileFields DEF HandleOK, Link
<1>4. NotesOK'
  <2>1. astray' \subseteq Handle /\ loose' \subseteq Handle
    BY DEF Shrink, TypeInv, NotesOK, OpenOn
  <2> QED
    BY <1>1, <2>1 DEF TypeInv, NotesOK
<1>5. TableOK'
  <2>1. firstFree' \in First .. Beyond
    BY <1>1, StartClearType DEF TypeInv, TableOK, TableType
  <2> QED
    BY <1>1, <2>1 DEF TypeInv, TableOK, TableType, PlaceType
<1>6. CASE n = 0
  <2>1. Position(Free, 0, 0) \in Spot
    <3>1. 0 \in Nat /\ 0 \in 0 .. Bps - 1 /\ Free \in Link
      BY SizesAssumption DEF Link
    <3> QED
      BY <3>1, SpotType
  <2>2. /\ none \in FileStruct /\ none.inUse = g.inUse /\ none.name = g.name
        /\ none.append = g.append /\ none.write = g.write /\ none.size = 0
    BY <1>2, <2>1 DEF FileStruct
  <2> HIDE DEF none
  <2>0. HandleOK(none)
    BY <1>2, <2>2 DEF HandleOK
  <2>3. FilesOK' /\ OpOK'
    BY <1>1, <1>3, <1>6, <2>0, <2>2, BecomesType, ClearingType DEF TypeInv
  <2> QED
    BY <1>1, <1>4, <1>5, <2>3, NoIoType, StepFrame
<1>7. CASE n # 0
  <2>1. (n - 1) \div Bpc \in Int
    <3>1. n - 1 \in Nat
      BY <1>2, <1>7
    <3> QED
      BY <3>1, BpcPositive, Division
  <2>2. o \in Stack /\ o.pc = "walk" /\ o.then = "trim" /\ o.h = h
    BY <1>2, <1>3, <2>1, IdleFacts DEF Stack
  <2> HIDE DEF o
  <2>3. CallOK(o, g)
    BY <1>1, <1>3, <2>2, Outside DEF CallOK, WalkOK, RunOK
  <2>4. OpOK' /\ FilesOK'
    BY <1>1, <1>7, <2>2, <2>3, FilesSame DEF OpOK, f, TypeInv
  <2> QED
    BY <1>1, <1>4, <1>5, <2>4, NoIoType, StepFrame
<1> QED
  BY <1>6, <1>7

LEMMA TypeOfTrim == ASSUME TypeInv, Trim  PROVE TypeInv'
<1> DEFINE next == NextOf(op.tip)
           p == EndPosition(op.tip, op.goal)
           g == [f EXCEPT !.size = op.goal, !.modified = TRUE, !.ap = IF f.append THEN p ELSE @]
<1>1. /\ op.pc = "walk" /\ op.then = "trim" /\ calls' = calls /\ fat' = MarkEnd(op.tip)
      /\ IF IsValid(next) THEN StartClear(next) /\ op' = Clearing(next)
         ELSE op' = Idle /\ UNCHANGED firstFree
      /\ Becomes(op.h, g)
      /\ NoIo /\ UNCHANGED <<numberFree, tail, miscounted, place, dir, fsInfo, notes>>
  BY DEF Trim, Walked, At, Trimmed
<1>2. op.h \in Handle /\ f \in FileStruct /\ HandleOK(f) /\ f.start # Free
  BY <1>1, CallFile DEF TypeInv, OpOK, CallOK, WalkOK
<1>3. op.tip \in Link /\ op.goal \in Nat /\ next \in Link
  BY OpFields, NextInLink
<1>4. p \in Spot
  BY <1>3, EndPositionType
<1> HIDE DEF p, next
<1>5. g \in FileStruct /\ HandleOK(g)
  BY <1>2, <1>3, <1>4 DEF FileStruct, HandleOK
<1> HIDE DEF g
<1>6. FilesOK'
  BY <1>1, <1>2, <1>5, BecomesType DEF TypeInv
<1>7. OpOK'
  BY <1>1, <1>3, IdleEnds, ClearingType
<1>8. TableOK'
  <2>1. fat' \in [Cluster -> Link]
    BY <1>1, MarkEndType DEF TypeInv, TableOK
  <2>2. firstFree' \in First .. Beyond
    BY <1>1, StartClearType DEF TypeInv, TableOK, TableType
  <2> QED
    BY <1>1, <2>1, <2>2 DEF TypeInv, TableOK, TableType, PlaceType
<1> QED
  BY <1>1, <1>6, <1>7, <1>8, NotesSame, NoIoType, StepFrame DEF TypeInv

LEMMA TypeOfSameSize == ASSUME TypeInv, NEW h \in Handle, SameSize(h)  PROVE TypeInv'
<1>1. file[h] \in FileStruct /\ HandleOK(file[h])
  BY DEF TypeInv, FilesOK, Handles
<1>2. [file[h] EXCEPT !.modified = TRUE] \in FileStruct
      /\ HandleOK([file[h] EXCEPT !.modified = TRUE])
  BY <1>1 DEF FileStruct, HandleOK
<1>3. FilesOK'
  BY <1>2, BecomesType DEF SameSize, TypeInv
<1> QED
  BY <1>3, OpSame, TableSame, NotesSame, NoIoType, StepFrame DEF SameSize, Call, TypeInv

LEMMA TypeOfUnlink == ASSUME TypeInv, NEW n \in Name, Unlink(n)  PROVE TypeInv'
<1> DEFINE c == dir[n].start
<1>1. /\ Call /\ op.pc = "idle" /\ dir' = [dir EXCEPT ![n] = NoEntry]
      /\ IF IsValid(c) THEN StartClear(c) /\ op' = Clearing(c) ELSE UNCHANGED <<firstFree, op>>
      /\ NoIo /\ UNCHANGED <<fat, numberFree, tail, miscounted, place, file, fsInfo>>
  BY DEF Unlink, Call
<1>2. EntryOK(NoEntry)
  BY DEF EntryOK, NoEntry, Entry
<1>3. DiscOK'
  BY <1>1, <1>2, DirChanged
<1>4. OpOK'
  BY <1>1, ClearingType, OpSame DEF IsValid, Link
<1>5. TableOK'
  <2>1. firstFree' \in First .. Beyond
    BY <1>1, StartClearType DEF TypeInv, TableOK, TableType
  <2> QED
    BY <1>1, <2>1 DEF TypeInv, TableOK, TableType, PlaceType
<1>6. NotesOK'
  BY DEF Unlink, TypeInv, NotesOK, OpenOn
<1> QED
  BY <1>1, <1>3, <1>4, <1>5, <1>6, FilesSame, NoIoType, CallsType DEF TypeInv

LEMMA TypeOfStatvfs == ASSUME TypeInv, Statvfs  PROVE TypeInv'
<1>1. /\ Call /\ op.pc = "idle" /\ numberFree' = FromInfo(fsInfo) /\ fsInfo' = FromInfo(fsInfo)
      /\ miscounted' \in BOOLEAN
      /\ NoIo /\ UNCHANGED <<fat, firstFree, tail, place, dir, file, op, notes>>
  BY DEF Statvfs, Call
<1>2. FromInfo(fsInfo) \in 0 .. Last - 1 + Overhead
  BY FromInfoType DEF TypeInv, DiscOK
<1>3. TableOK'
  BY <1>1, <1>2 DEF TypeInv, TableOK, TableType, PlaceType
<1>4. DiscOK'
  BY <1>1, <1>2 DEF TypeInv, DiscOK, Entries
<1> QED
  BY <1>1, <1>3, <1>4, OpSame, FilesSame, NotesSame, NoIoType, CallsType DEF TypeInv

LEMMA TypeOfRemount == ASSUME TypeInv, Remount  PROVE TypeInv'
<1>1. /\ Call /\ op.pc = "idle"
      /\ dir' = [n \in Name |-> IF Writers(n) = {} THEN dir[n]
                                ELSE Synced(n, CHOOSE h \in Writers(n) : TRUE)]
      /\ file' = [h \in Handle |-> Closed]
      /\ fsInfo' = FromInfo(numberFree) /\ numberFree' = FromInfo(numberFree)
      /\ miscounted' \in BOOLEAN /\ firstFree' = First
      /\ NoIo /\ UNCHANGED <<fat, tail, place, op, conflict, uneven>>
  BY DEF Remount, Call
<1>2. FromInfo(numberFree) \in 0 .. Last - 1 + Overhead
  BY FromInfoType DEF TypeInv, TableOK, TableType
<1>3. First \in First .. Beyond
  BY Constants
<1>4. TableOK'
  BY <1>1, <1>2, <1>3 DEF TypeInv, TableOK, TableType, PlaceType
<1>5. ASSUME NEW n \in Name  PROVE EntryOK(dir'[n])
  <2>1. CASE Writers(n) = {}
    <3>1. dir'[n] = dir[n]
      BY <1>1, <2>1
    <3> QED
      BY <3>1 DEF TypeInv, DiscOK, Entries, EntryOK
  <2>2. CASE Writers(n) # {}
    <3>1. (CHOOSE h \in Writers(n) : TRUE) \in Handle
      BY <2>2 DEF Writers, OpenOn
    <3>2. dir'[n] = Synced(n, CHOOSE h \in Writers(n) : TRUE)
      BY <1>1, <2>2
    <3> QED
      BY <3>1, <3>2, SyncedType
  <2> QED
    BY <2>1, <2>2
<1>6. DiscOK'
  <2>1. dir' \in [Name -> [start : Cluster \cup {Free, Eof}, size : Nat]]
    BY <1>1, <1>5 DEF EntryOK
  <2>2. Entries'
    BY <1>5 DEF Entries, EntryOK
  <2> QED
    BY <1>1, <1>2, <2>1, <2>2 DEF DiscOK
<1>7. FilesOK'
  BY <1>1, ClosedType DEF FilesOK, Handles
<1>8. NotesOK'
  <2>1. lost' \subseteq Name
    BY DEF Remount, TypeInv, NotesOK, FilesOK, Handles, HandleOK
  <2>2. loose' = {} /\ astray' = {} /\ misled' = {}
    BY DEF Remount
  <2> QED
    BY <1>1, <2>1, <2>2 DEF TypeInv, NotesOK
<1> QED
  BY <1>1, <1>4, <1>6, <1>7, <1>8, OpSame, NoIoType, CallsType DEF TypeInv

LEMMA TypeOfInit == Init => TypeInv
<1> SUFFICES ASSUME Init  PROVE TypeInv
  OBVIOUS
<1>1. TableOK
  <2>1. numberFree \in 0 .. Last - 1 + Overhead
    BY RecountType, Constants, OverheadAssumption DEF Init, TableInit
  <2>2. First \in First .. Beyond
    BY Constants
  <2>3. fat \in [Cluster -> Link] /\ PlaceType
    BY DEF Init, TableInit, Link, PlaceType, NoPlace
  <2> QED
    BY <2>1, <2>2, <2>3 DEF Init, TableInit, TableOK, TableType
<1>2. DiscOK
  BY <1>1 DEF Init, DiscOK, Entries, NoEntry, Entry, TableOK, TableType
<1>3. FilesOK
  BY ClosedType DEF Init, FilesOK, Handles
<1>4. OpOK /\ NotesOK /\ IoOK /\ calls \in 0 .. MaxCalls
  <2>1. OpOK
    BY IdleFacts DEF Init, OpOK
  <2>2. calls \in 0 .. MaxCalls
    BY CallsAssumption DEF Init
  <2> QED
    BY <2>1, <2>2 DEF Init, NotesOK, IoOK
<1> QED
  BY <1>1, <1>2, <1>3, <1>4 DEF TypeInv

LEMMA TypeOfStuttering == ASSUME TypeInv, UNCHANGED vars  PROVE TypeInv'
<1>1. OpOK' /\ IoOK' /\ calls' \in 0 .. MaxCalls
  BY DEF TypeInv, OpOK, f, IoOK, vars
<1>2. TableOK' /\ FilesOK' /\ NotesOK' /\ DiscOK'
  BY TableSame, FilesSame, NotesSame, DiscSame DEF vars, TypeInv
<1> QED
  BY <1>1, <1>2 DEF TypeInv

LEMMA TypeStep == TypeInv /\ [Next]_vars => TypeInv'
<1> SUFFICES ASSUME TypeInv, [Next]_vars  PROVE TypeInv'
  OBVIOUS
<1>1. CASE Step
  BY <1>1, TypeOfClear, TypeOfWalk, TypeOfOpenAppended, TypeOfReadGroup, TypeOfReadGet,
     TypeOfReadTail, TypeOfExtendFirst, TypeOfExtendSector, TypeOfExtendLast, TypeOfWriteHead,
     TypeOfWriteChunk, TypeOfWriteGroup, TypeOfWritePut, TypeOfWriteTail, TypeOfSought, TypeOfTrim
  DEF Step
<1>2. ASSUME NEW h \in Handle, Begin(h)  PROVE TypeInv'
  BY <1>2, TypeOfOpen, TypeOfClose, TypeOfFsync, TypeOfReadBegin, TypeOfWriteBegin, TypeOfSeek,
     TypeOfGrow, TypeOfShrink, TypeOfSameSize
  DEF Begin
<1>3. CASE (\E n \in Name : Unlink(n)) \/ Statvfs \/ Remount
  BY <1>3, TypeOfUnlink, TypeOfStatvfs, TypeOfRemount
<1>4. CASE Done \/ UNCHANGED vars
  BY <1>4, TypeOfStuttering DEF Done
<1> QED
  BY <1>1, <1>2, <1>3, <1>4 DEF Next

\* The invariant behind the type: what is on the stack of a call fits its file,
\* whatever happened to the chains.
THEOREM TypeInvariance == Spec => []TypeInv
BY TypeOfInit, TypeStep, PTL DEF Spec

\* Every variable of the files keeps its type (_FAT_read_r, _FAT_write_r,
\* _FAT_file_extend_r, _FAT_seek_r and the rest of fatfile.c), for every size of
\* sector, cluster and disc and any number of handles, names and calls.
THEOREM TypeCorrect == Spec => []TypeOK
BY TypeInvariance, TypeInvGivesTypeOK, PTL

-----------------------------------------------------------------------------
(***************************************************************************)
(* The chains, as long as no conflict is known.  A cluster that is in use  *)
(* is a cluster of one name, with a rank in its chain (place), and a link  *)
(* goes to the next rank.  A position that was not left behind is on the   *)
(* chain of its file.                                                      *)
(***************************************************************************)
Writer(h) == file[h].inUse /\ file[h].write
Unwritten(n) == \A h \in Handle : ~(Writer(h) /\ file[h].name = n)

\* A name has one writer at most, and its entry is up to date or will be.
OneWriter ==
  /\ \A h, g \in Handle : Writer(h) /\ Writer(g) /\ file[h].name = file[g].name => h = g
  /\ \A h \in Handle : Writer(h) =>
       /\ dir[file[h].name] # NoEntry
       /\ ~file[h].modified => dir[file[h].name].start \in {file[h].start, Free}

\* The chain of n has c, or ends behind the last cluster of a full disc.
OnIn(t, pl, n, c) == c = Beyond \/ (c \in Cluster /\ t[c] # Free /\ pl[c].of = n)
On(n, c) == OnIn(fat, place, n, c)
IsFirst(n, c) == fat[c] # Free /\ place[c].of = n /\ place[c].rank = 0

Links ==
  /\ \A d \in Cluster : fat[d] \in Cluster =>
       /\ place[fat[d]].of = place[d].of /\ place[fat[d]].rank = place[d].rank + 1
       /\ fat[fat[d]] # Free
  /\ \A d, e \in Cluster : fat[d] \in Cluster /\ fat[d] = fat[e] => d = e

Heads ==
  /\ \A h \in Handle :
       Writer(h) /\ file[h].start \in Cluster => IsFirst(file[h].name, file[h].start)
  /\ \A n \in Name : Unwritten(n) /\ dir[n].start \in Cluster => IsFirst(n, dir[n].start)

Starts(c) ==
  \/ \E h \in Handle : Writer(h) /\ file[h].start = c
  \/ \E n \in Name : Unwritten(n) /\ dir[n].start = c

\* A cluster in use is linked to, or a name's first, or about to be given back.
Kept ==
  lost = {} =>
    \A c \in Cluster : fat[c] # Free =>
      (\E d \in Cluster : fat[d] = c) \/ Starts(c) \/ (op.pc = "clear" /\ op.tip = c)

Extending == (op.pc = "walk" /\ op.then = "extend") \/ op.pc = "zero"
TrustsRw(h) == Writer(h) /\ file[h].start # Free /\ h \notin astray
TrustsAp(h) ==
  Writer(h) /\ file[h].start # Free /\ file[h].append /\ h \notin misled
  /\ ~(op.h = h /\ Extending)

\* A position p of the name n that comes before the cluster c in its chain.
Before(n, p, c) ==
  p \in Cluster /\ place[c].of = n => place[p].rank < place[c].rank

\* What is given back has been cut off: nothing leads there, and no position
\* that is trusted stands there or behind.
CutOff(c) ==
  /\ fat[c] # Free
  /\ \A d \in Cluster : fat[d] # c
  /\ ~Starts(c)
  /\ \A h \in Handle :
       /\ TrustsRw(h) => Before(file[h].name, file[h].rw.cluster, c)
       /\ TrustsAp(h) => Before(file[h].name, file[h].ap.cluster, c)
Clears == op.pc = "clear" => op.tip = Beyond \/ (op.tip \in Cluster /\ CutOff(op.tip))

Spots ==
  \A h \in Handle :
    /\ TrustsRw(h) => On(file[h].name, file[h].rw.cluster)
    /\ TrustsAp(h) => On(file[h].name, file[h].ap.cluster)

Straight == f.write /\ op.h \notin astray
WalkOn ==
  /\ op.then = "append" => IF f.start = Free THEN op.tip = Free ELSE On(f.name, op.tip)
  /\ op.then = "extend" => On(f.name, op.tip)
  /\ op.then = "trim" => On(f.name, op.tip) /\ op.h \in astray
  /\ op.then = "seek" => (Straight => On(f.name, op.tip))
  /\ op.then = "rewind" => (f.write => On(f.name, op.tip))

\* What a call under way keeps of the chain, but for a read that had gone astray.
CallOn ==
  /\ op.pc = "walk" => WalkOn
  /\ op.pc \in {"zero", "head", "chunk", "group"} => On(f.name, op.pos.cluster)
  /\ op.pc = "group" => On(f.name, op.end) /\ On(f.name, op.next)
  /\ op.pc \in {"rchunk", "rget"} /\ Straight => On(f.name, op.pos.cluster)
  /\ op.pc = "rchunk" /\ op.ok /\ Straight => On(f.name, op.next)
  /\ op.pc = "rget" /\ Straight => On(f.name, op.end) /\ op.next = NextOf(op.end)

Shape == OneWriter /\ Links /\ Heads /\ Kept /\ Clears
ChainInv == Shape /\ Spots /\ CallOn
FileInv == TypeInv /\ (~conflict => ChainInv)

-----------------------------------------------------------------------------
(***************************************************************************)
(* What the operations of the table do to the chains.                      *)
(***************************************************************************)

\* Nothing is taken out of a chain by a step of the table.
Stays ==
  \A x \in Cluster : fat[x] # Free => fat'[x] # Free /\ place'[x] = place[x]

LEMMA OnStays ==
  ASSUME Stays, NEW n, NEW c, On(n, c)  PROVE OnIn(fat', place', n, c)
BY DEF Stays, On, OnIn

LEMMA NextOn ==
  ASSUME TypeInv, Links, NEW n, NEW c, On(n, c), ~Ends(NextOf(c))
  PROVE  On(n, NextOf(c))
<1>1. CASE c = Beyond
  <2>1. NextOf(c) = tail
    BY <1>1, Outside DEF NextOf
  <2> QED
    BY <2>1 DEF TypeInv, TableOK, TableType, Ends
<1>2. CASE c \in Cluster
  <2>1. NextOf(c) = fat[c] /\ fat[c] \in Link
    BY <1>2, Outside DEF NextOf, TypeInv, TableOK, TableType
  <2>2. fat[c] = Beyond \/ fat[c] \in Cluster
    BY <2>1 DEF Ends, Link
  <2> QED
    BY <1>2, <2>1, <2>2, Outside DEF Links, On, OnIn
<1> QED
  BY <1>1, <1>2 DEF On, OnIn

LEMMA LinkFreeEffect ==
  ASSUME TypeInv, Links, NEW n \in Name, NEW c, c = Free \/ On(n, c), NEW got,
         LinkFree(c, n, got)
  PROVE  /\ Links' /\ Stays
         /\ \A x \in Cluster : fat'[x] # Free =>
              fat[x] # Free \/ (x = got /\ (c = Free \/ (c \in Cluster /\ fat'[c] = got)))
         /\ \A d \in Cluster : fat[d] \in Cluster => fat'[d] = fat[d]
         /\ got \in Cluster => OnIn(fat', place', n, got)
         /\ c = Free /\ got \in Cluster =>
              fat'[got] # Free /\ place'[got].of = n /\ place'[got].rank = 0
<1>1. fat \in [Cluster -> Link] /\ place \in [Cluster -> [of : Name \cup {"none"}, rank : Nat]]
  BY DEF TypeInv, TableOK, TableType, PlaceType
<1>2. NextOf(Free) = Free
  BY Outside DEF NextOf
<1>3. CASE UNCHANGED table /\ (got \in Cluster => got = NextOf(c))
  <2>1. fat' = fat /\ place' = place
    BY <1>3 DEF table
  <2>2. got \in Cluster => c # Free /\ On(n, got)
    BY <1>2, <1>3, Outside, NextOn DEF Ends
  <2> QED
    BY <2>1, <2>2 DEF Links, Stays, On, OnIn
<1>4. CASE UNCHANGED <<fat, place>> /\ got \notin Cluster
  BY <1>4 DEF Links, Stays
<1>5. CASE /\ c <= Last /\ NextOf(c) \notin Cluster
           /\ Found(got)
           /\ fat' = Linked(c, got)
           /\ place' = Taken(c, got, n)
  <2>1. got = Beyond \/ (got \in Cluster /\ fat[got] = Free)
    BY <1>5 DEF Found, FreeClusters
  <2>2. c = Free \/ (c \in Cluster /\ fat[c] # Free /\ place[c].of = n)
    BY <1>5, Constants DEF On, OnIn
  <2>3. c \in Cluster => fat[c] \notin Cluster /\ c # got
    BY <1>5, <2>1, <2>2, Outside DEF NextOf
  <2>4. \A d \in Cluster : fat'[d] = IF d = got THEN Eof ELSE IF d = c THEN got ELSE fat[d]
    BY <1>5 DEF Linked
  <2>5. \A d \in Cluster :
          place'[d] = IF d = got
                      THEN [of |-> n, rank |-> IF c \in Cluster THEN place[c].rank + 1 ELSE 0]
                      ELSE place[d]
    BY <1>5 DEF Taken
  <2>6. Stays
    BY <2>1, <2>4, <2>5, Outside DEF Stays
  <2>7. \A d \in Cluster : fat[d] \in Cluster => fat'[d] = fat[d]
    BY <2>1, <2>3, <2>4, Outside
  <2>8. \A x \in Cluster : fat'[x] # Free =>
          fat[x] # Free \/ (x = got /\ (c = Free \/ (c \in Cluster /\ fat'[c] = got)))
    BY <2>1, <2>2, <2>3, <2>4
  <2>9. ASSUME got \in Cluster
        PROVE  /\ fat'[got] # Free /\ place'[got].of = n
               /\ c = Free => place'[got].rank = 0
               /\ c # Free => place'[got].rank = place[c].rank + 1
    BY <2>2, <2>4, <2>5, <2>9, Outside
  <2>10. Links'
    <3>1. ASSUME NEW d \in Cluster, fat'[d] \in Cluster
          PROVE  (d = c /\ fat'[d] = got) \/ (d # got /\ d # c /\ fat'[d] = fat[d])
      BY <2>4, <3>1, Outside
    <3>2. ASSUME NEW d \in Cluster, fat'[d] \in Cluster
          PROVE  /\ place'[fat'[d]].of = place'[d].of
                 /\ place'[fat'[d]].rank = place'[d].rank + 1
                 /\ fat'[fat'[d]] # Free
      <4>1. CASE d = c /\ fat'[d] = got
        <5>1. c # Free /\ place'[c] = place[c] /\ place[c].of = n
          BY <2>2, <2>3, <2>5, <4>1, Outside
        <5> QED
          BY <2>9, <3>2, <4>1, <5>1
      <4>2. CASE d # got /\ d # c /\ fat'[d] = fat[d]
        <5>1. /\ place[fat[d]].of = place[d].of /\ place[fat[d]].rank = place[d].rank + 1
              /\ fat[fat[d]] # Free
          BY <3>2, <4>2 DEF Links
        <5>2. place'[fat[d]] = place[fat[d]] /\ place'[d] = place[d] /\ fat'[fat[d]] # Free
          BY <2>5, <2>6, <3>2, <4>2, <5>1 DEF Stays
        <5> QED
          BY <4>2, <5>1, <5>2
      <4> QED
        BY <3>1, <3>2, <4>1, <4>2
    <3>3. ASSUME NEW d \in Cluster, NEW e \in Cluster, fat'[d] \in Cluster, fat'[d] = fat'[e]
          PROVE  d = e
      <4>1. \A x \in Cluster : fat[x] \in Cluster => fat[x] # got
        BY <2>1, Outside DEF Links
      <4> QED
        BY <3>1, <3>3, <4>1 DEF Links
    <3> QED
      BY <3>2, <3>3 DEF Links
  <2> QED
    BY <2>6, <2>7, <2>8, <2>9, <2>10 DEF OnIn
<1> QED
  BY <1>3, <1>4, <1>5, Outside DEF LinkFree

-----------------------------------------------------------------------------
(***************************************************************************)
(* Steps that leave the names of the handles, and what is about to be      *)
(* given back, alone.                                                      *)
(***************************************************************************)
SameNames ==
  \A h \in Handle :
    /\ file'[h].inUse = file[h].inUse /\ file'[h].write = file[h].write
    /\ file'[h].name = file[h].name
    /\ ~file'[h].modified => ~file[h].modified
SameStarts == \A h \in Handle : file'[h].start = file[h].start
Quiet == dir' = dir /\ lost' = lost /\ op.pc # "clear" /\ op'.pc # "clear"

LEMMA WritersSame ==
  ASSUME SameNames
  PROVE  /\ \A h \in Handle : Writer(h)' <=> Writer(h)
         /\ \A n \in Name : Unwritten(n)' <=> Unwritten(n)
BY DEF SameNames, Writer, Unwritten

LEMMA HeadsStay ==
  ASSUME TypeInv, Heads, Stays, SameNames, SameStarts, dir' = dir
  PROVE  Heads'
<1>1. ASSUME NEW n, NEW c \in Cluster, IsFirst(n, c)
      PROVE  fat'[c] # Free /\ place'[c].of = n /\ place'[c].rank = 0
  BY <1>1 DEF IsFirst, Stays
<1>2. ASSUME NEW h \in Handle, Writer(h)', file'[h].start \in Cluster
      PROVE  IsFirst(file[h].name, file[h].start)'
  <2>1. file'[h].name = file[h].name /\ file'[h].start = file[h].start /\ Writer(h)
    BY <1>2, WritersSame DEF SameNames, SameStarts
  <2>2. IsFirst(file[h].name, file[h].start)
    BY <1>2, <2>1 DEF Heads
  <2> QED
    BY <1>1, <1>2, <2>1, <2>2 DEF IsFirst
<1>3. ASSUME NEW n \in Name, Unwritten(n)', dir'[n].start \in Cluster
      PROVE  IsFirst(n, dir[n].start)'
  <2>1. Unwritten(n) /\ dir'[n].start = dir[n].start
    BY <1>3, WritersSame
  <2>2. IsFirst(n, dir[n].start)
    BY <1>3, <2>1 DEF Heads
  <2> QED
    BY <1>1, <1>3, <2>1, <2>2 DEF IsFirst
<1> QED
  BY <1>2, <1>3 DEF Heads

LEMMA OneWriterStays ==
  ASSUME OneWriter, SameNames, SameStarts, dir' = dir
  PROVE  OneWriter'
BY WritersSame DEF OneWriter, SameNames, SameStarts

LEMMA StartsStay ==
  ASSUME SameNames, SameStarts, dir' = dir, NEW c, Starts(c)
  PROVE  \/ \E h \in Handle : Writer(h)' /\ file'[h].start = c
         \/ \E n \in Name : Unwritten(n)' /\ dir'[n].start = c
BY WritersSame DEF Starts, SameStarts

LEMMA FrameLinked ==
  ASSUME TypeInv, Shape, SameNames, SameStarts, Quiet,
         NEW n \in Name, NEW c, On(n, c), NEW got, LinkFree(c, n, got)
  PROVE  Shape' /\ Stays /\ (got \in Cluster => OnIn(fat', place', n, got))
<1>1. /\ Links' /\ Stays
      /\ \A x \in Cluster : fat'[x] # Free =>
           fat[x] # Free \/ (x = got /\ (c = Free \/ (c \in Cluster /\ fat'[c] = got)))
      /\ \A d \in Cluster : fat[d] \in Cluster => fat'[d] = fat[d]
      /\ got \in Cluster => OnIn(fat', place', n, got)
  BY LinkFreeEffect DEF Shape
<1>2. OneWriter' /\ Heads' /\ Clears'
  BY <1>1, OneWriterStays, HeadsStay DEF Shape, Quiet, Clears
<1>3. ASSUME lost' = {}, NEW x \in Cluster, fat'[x] # Free
      PROVE  (\E d \in Cluster : fat'[d] = x) \/ Starts(x)'
  <2>1. CASE c \in Cluster /\ fat'[c] = x
    BY <2>1
  <2>2. CASE fat[x] # Free
    <3>1. (\E d \in Cluster : fat[d] = x) \/ Starts(x)
      BY <1>3, <2>2 DEF Shape, Kept, Quiet
    <3> QED
      BY <1>1, <1>3, <3>1, StartsStay DEF Quiet, Starts
  <2> QED
    BY <1>1, <1>3, <2>1, <2>2, Outside DEF On, OnIn
<1> QED
  BY <1>1, <1>2, <1>3 DEF Shape, Kept

LEMMA FrameSame ==
  ASSUME TypeInv, Shape, SameNames, SameStarts, Quiet, UNCHANGED <<fat, place>>
  PROVE  Shape' /\ Stays
<1>1. Links' /\ Stays
  BY DEF Shape, Links, Stays
<1>2. OneWriter' /\ Heads' /\ Clears'
  BY <1>1, OneWriterStays, HeadsStay DEF Shape, Quiet, Clears
<1>3. ASSUME lost' = {}, NEW x \in Cluster, fat'[x] # Free
      PROVE  (\E d \in Cluster : fat'[d] = x) \/ Starts(x)'
  <2>1. (\E d \in Cluster : fat[d] = x) \/ Starts(x)
    BY <1>3 DEF Shape, Kept, Quiet
  <2> QED
    BY <1>3, <2>1, StartsStay DEF Quiet, Starts
<1> QED
  BY <1>1, <1>2, <1>3 DEF Shape, Kept

\* A file gets its first cluster, or none.
LEMMA FrameFirst ==
  ASSUME TypeInv, Shape, SameNames, Quiet, NEW h \in Handle, Writer(h), file[h].start = Free,
         NEW got, LinkFree(Free, file[h].name, got),
         \A j \in Handle \ {h} : file'[j].start = file[j].start,
         file'[h].start = IF IsValid(got) THEN got ELSE Free
  PROVE  Shape' /\ Stays /\ (got \in Cluster => OnIn(fat', place', file[h].name, got))
<1> DEFINE n == file[h].name
<1>0. n \in Name
  BY DEF Writer, TypeInv, FilesOK, Handles, HandleOK
<1>1. /\ Links' /\ Stays
      /\ \A x \in Cluster : fat'[x] # Free => fat[x] # Free \/ x = got
      /\ \A d \in Cluster : fat[d] \in Cluster => fat'[d] = fat[d]
      /\ got \in Cluster => OnIn(fat', place', n, got)
      /\ got \in Cluster => fat'[got] # Free /\ place'[got].of = n /\ place'[got].rank = 0
  BY <1>0, LinkFreeEffect DEF Shape
<1>2. OneWriter'
  <2>1. ASSUME NEW j \in Handle, Writer(j)'
        PROVE  /\ dir'[file'[j].name] # NoEntry
               /\ ~file'[j].modified => dir'[file'[j].name].start \in {file'[j].start, Free}
    <3>1. /\ Writer(j) /\ file'[j].name = file[j].name /\ dir' = dir
          /\ (~file'[j].modified => ~file[j].modified)
      BY <2>1, WritersSame DEF SameNames, Quiet
    <3>2. /\ dir[file[j].name] # NoEntry
          /\ ~file[j].modified => dir[file[j].name].start \in {file[j].start, Free}
      BY <3>1 DEF Shape, OneWriter
    <3>3. j = h \/ file'[j].start = file[j].start
      OBVIOUS
    <3> QED
      BY <3>1, <3>2, <3>3
  <2>2. ASSUME NEW j \in Handle, NEW k \in Handle, Writer(j)', Writer(k)',
               file'[j].name = file'[k].name
        PROVE  j = k
    BY <2>2, WritersSame DEF SameNames, Shape, OneWriter
  <2> QED
    BY <2>1, <2>2 DEF OneWriter
<1>3. Heads'
  <2>1. ASSUME NEW m, NEW c \in Cluster, IsFirst(m, c)
        PROVE  fat'[c] # Free /\ place'[c].of = m /\ place'[c].rank = 0
    BY <1>1, <2>1 DEF IsFirst, Stays
  <2>2. ASSUME NEW j \in Handle, Writer(j)', file'[j].start \in Cluster
        PROVE  IsFirst(file[j].name, file[j].start)'
    <3>1. file'[j].name = file[j].name /\ Writer(j)
      BY <2>2, WritersSame DEF SameNames
    <3>2. CASE j = h
      <4>1. got \in Cluster /\ file'[j].start = got
        BY <2>2, <3>2, Outside DEF IsValid
      <4> QED
        BY <1>1, <3>1, <3>2, <4>1 DEF IsFirst
    <3>3. CASE j # h
      <4>1. file'[j].start = file[j].start
        BY <3>3
      <4>2. IsFirst(file[j].name, file[j].start)
        BY <2>2, <3>1, <4>1 DEF Shape, Heads
      <4> QED
        BY <2>1, <2>2, <3>1, <4>1, <4>2 DEF IsFirst
    <3> QED
      BY <3>2, <3>3
  <2>3. ASSUME NEW m \in Name, Unwritten(m)', dir'[m].start \in Cluster
        PROVE  IsFirst(m, dir[m].start)'
    <3>1. Unwritten(m) /\ dir'[m].start = dir[m].start
      BY <2>3, WritersSame DEF Quiet
    <3>2. IsFirst(m, dir[m].start)
      BY <2>3, <3>1 DEF Shape, Heads
    <3> QED
      BY <2>1, <2>3, <3>1, <3>2 DEF IsFirst
  <2> QED
    BY <2>2, <2>3 DEF Heads
<1>4. ASSUME lost' = {}, NEW x \in Cluster, fat'[x] # Free
      PROVE  (\E d \in Cluster : fat'[d] = x) \/ Starts(x)'
  <2>1. CASE x = got
    <3>1. file'[h].start = x /\ Writer(h)'
      BY <2>1, WritersSame DEF IsValid
    <3> QED
      BY <3>1 DEF Starts
  <2>2. CASE fat[x] # Free
    <3>1. (\E d \in Cluster : fat[d] = x) \/ Starts(x)
      BY <1>4, <2>2 DEF Shape, Kept, Quiet
    <3>2. CASE Starts(x)
      <4>1. CASE \E j \in Handle : Writer(j) /\ file[j].start = x
        <5>1. PICK j \in Handle : Writer(j) /\ file[j].start = x
          BY <4>1
        <5>2. j # h
          BY <5>1, Outside
        <5>3. Writer(j)' /\ file'[j].start = x
          BY <5>1, <5>2, WritersSame
        <5> QED
          BY <5>3 DEF Starts
      <4>2. CASE \E m \in Name : Unwritten(m) /\ dir[m].start = x
        BY <4>2, WritersSame DEF Starts, Quiet
      <4> QED
        BY <3>2, <4>1, <4>2 DEF Starts
    <3> QED
      BY <1>1, <1>4, <3>1, <3>2
  <2> QED
    BY <1>1, <1>4, <2>1, <2>2
<1>5. Clears'
  BY DEF Clears, Quiet
<1> QED
  BY <1>1, <1>2, <1>3, <1>4, <1>5 DEF Shape, Kept

LEMMA NamesKept ==
  ASSUME TypeInv, NEW h \in Handle, NEW g, Becomes(h, g), g.inUse = file[h].inUse,
         g.write = file[h].write, g.name = file[h].name, ~g.modified => ~file[h].modified
  PROVE  /\ SameNames /\ file'[h] = g /\ \A j \in Handle \ {h} : file'[j] = file[j]
         /\ g.start = file[h].start => SameStarts
<1>1. file'[h] = g /\ \A j \in Handle \ {h} : file'[j] = file[j]
  BY DEF TypeInv, FilesOK, Becomes
<1>2. SameNames
  BY <1>1 DEF SameNames
<1>3. g.start = file[h].start => SameStarts
  BY <1>1 DEF SameStarts
<1> QED
  BY <1>1, <1>2, <1>3

LEMMA FilesUntouched == ASSUME file' = file  PROVE SameNames /\ SameStarts
BY DEF SameNames, SameStarts

\* Only the positions of the handle k have changed, or are trusted anew.
LEMMA SpotsStep ==
  ASSUME TypeInv, Spots, Stays, NEW k \in Handle,
         \A h \in Handle \ {k} :
           /\ file'[h] = file[h]
           /\ (h \in astray => h \in astray') /\ (h \in misled => h \in misled'),
         Extending => op.h = k,
         TrustsRw(k)' => OnIn(fat', place', file'[k].name, file'[k].rw.cluster),
         TrustsAp(k)' => OnIn(fat', place', file'[k].name, file'[k].ap.cluster)
  PROVE  Spots'
<1>1. ASSUME NEW h \in Handle \ {k}, TrustsRw(h)'
      PROVE  OnIn(fat', place', file'[h].name, file'[h].rw.cluster)
  <2>1. TrustsRw(h) /\ file'[h] = file[h]
    BY <1>1 DEF TrustsRw, Writer
  <2>2. On(file[h].name, file[h].rw.cluster)
    BY <2>1 DEF Spots
  <2> QED
    BY <2>1, <2>2, OnStays
<1>2. ASSUME NEW h \in Handle \ {k}, TrustsAp(h)'
      PROVE  OnIn(fat', place', file'[h].name, file'[h].ap.cluster)
  <2>1. TrustsAp(h) /\ file'[h] = file[h]
    BY <1>2 DEF TrustsAp, Writer
  <2>2. On(file[h].name, file[h].ap.cluster)
    BY <2>1 DEF Spots
  <2> QED
    BY <2>1, <2>2, OnStays
<1> QED
  BY <1>1, <1>2 DEF Spots, On

LEMMA SpotsSame ==
  ASSUME TypeInv, Spots, Stays, file' = file, astray \subseteq astray', misled' = misled,
         Extending => op'.h = op.h /\ Extending'
  PROVE  Spots'
<1>1. ASSUME NEW h \in Handle, TrustsRw(h)'
      PROVE  OnIn(fat', place', file'[h].name, file'[h].rw.cluster)
  <2>1. TrustsRw(h)
    BY <1>1 DEF TrustsRw, Writer
  <2>2. On(file[h].name, file[h].rw.cluster)
    BY <2>1 DEF Spots
  <2> QED
    BY <2>2, OnStays
<1>2. ASSUME NEW h \in Handle, TrustsAp(h)'
      PROVE  OnIn(fat', place', file'[h].name, file'[h].ap.cluster)
  <2>1. TrustsAp(h)
    BY <1>2 DEF TrustsAp, Writer
  <2>2. On(file[h].name, file[h].ap.cluster)
    BY <2>1 DEF Spots
  <2> QED
    BY <2>2, OnStays
<1> QED
  BY <1>1, <1>2 DEF Spots, On

LEMMA CallEnds == ASSUME op'.pc \in {"idle", "clear"}  PROVE CallOn'
BY DEF CallOn

\* A step within a call after which it is over or still holds what it should.
LEMMA Settled ==
  ASSUME Shape', Spots', CallOn'  PROVE ChainInv'
BY DEF ChainInv

LEMMA Peaceful ==
  ASSUME FileInv, ~conflict
  PROVE  TypeInv /\ ChainInv /\ Shape /\ Links /\ Spots /\ CallOn
BY DEF FileInv, ChainInv, Shape

LEMMA ChainOfWalk == ASSUME FileInv, ~conflict', Walk  PROVE ChainInv'
<1>1. /\ op.pc = "walk" /\ file' = file /\ ~Ends(NextOf(op.tip)) /\ UNCHANGED <<table, dir, notes>>
      /\ op' = [op EXCEPT !.tip = NextOf(@), !.left = IF ToTheEnd THEN @ ELSE @ - 1]
  BY DEF Walk, At, MoreToWalk
<1>2. ~conflict /\ TypeInv /\ Shape /\ Links /\ Spots /\ CallOn
  BY <1>1, Peaceful DEF notes
<1>3. /\ op'.pc = "walk" /\ op'.then = op.then /\ op'.h = op.h /\ op'.tip = NextOf(op.tip)
  BY <1>1, <1>2 DEF TypeInv, OpOK, Stack
<1>4. Shape' /\ Stays
  BY <1>1, <1>2, <1>3, FilesUntouched, FrameSame DEF Quiet, table, notes
<1>5. Spots'
  <2>1. Extending => op'.h = op.h /\ Extending'
    BY <1>1, <1>3 DEF Extending
  <2> QED
    BY <1>1, <1>2, <1>4, <2>1, SpotsSame DEF notes
<1>6. CallOn'
  <2>1. f' = f /\ Straight' = Straight
    BY <1>1, <1>3 DEF f, Straight, notes
  <2>2. ~(op.tip = Free)
    BY <1>1, Outside DEF NextOf, Ends
  <2>3. ASSUME NEW n, On(n, op.tip)  PROVE OnIn(fat', place', n, op'.tip)
    BY <1>1, <1>2, <1>3, <1>4, <2>3, NextOn, OnStays
  <2>4. WalkOn
    BY <1>1, <1>2 DEF CallOn
  <2>5. WalkOn'
    BY <1>1, <1>3, <2>1, <2>2, <2>3, <2>4 DEF WalkOn, On, notes
  <2> QED
    BY <1>3, <2>5 DEF CallOn
<1> QED
  BY <1>4, <1>5, <1>6, Settled

LEMMA ChainOfOpenAppended == ASSUME FileInv, ~conflict', OpenAppended  PROVE ChainInv'
<1> DEFINE p == EndPosition(op.tip, f.size)
           g == [f EXCEPT !.ap = p]
<1>1. /\ op.pc = "walk" /\ op.then = "append" /\ op' = Idle /\ UNCHANGED <<table, dir, notes>>
      /\ Becomes(op.h, g)
  BY DEF OpenAppended, Walked, At
<1>2. ~conflict /\ TypeInv /\ Shape /\ Links /\ Spots /\ CallOn
  BY <1>1, Peaceful DEF notes
<1>3. op.h \in Handle /\ f \in FileStruct /\ f = file[op.h]
  BY <1>1, <1>2, CallFile
<1>4. p.cluster = op.tip
  BY <1>2, <1>3, OpFields, FileFields, EndPositionType
<1> HIDE DEF p
<1>5. /\ g.inUse = f.inUse /\ g.write = f.write /\ g.name = f.name /\ g.modified = f.modified
      /\ g.start = f.start /\ g.rw = f.rw /\ g.ap = p
  BY <1>3 DEF FileStruct
<1> HIDE DEF g
<1>6. /\ SameNames /\ SameStarts /\ file'[op.h] = g
      /\ \A j \in Handle \ {op.h} : file'[j] = file[j]
  BY <1>1, <1>2, <1>3, <1>5, NamesKept
<1>7. op'.pc = "idle"
  BY <1>1, IdleFacts
<1>8. Shape' /\ Stays
  BY <1>1, <1>2, <1>6, <1>7, FrameSame DEF Quiet, table, notes
<1>9. Spots'
  <2>0. PICK k \in Handle : k = op.h
    BY <1>3
  <2>1. TrustsRw(k)' => OnIn(fat', place', file'[k].name, file'[k].rw.cluster)
    <3>1. TrustsRw(k)' => TrustsRw(k)
      BY <1>1, <1>3, <1>5, <1>6, <2>0 DEF TrustsRw, Writer, notes
    <3>2. TrustsRw(k) => On(g.name, g.rw.cluster)
      BY <1>2, <1>3, <1>5, <2>0 DEF Spots
    <3> QED
      BY <1>6, <1>8, <2>0, <3>1, <3>2, OnStays
  <2>2. TrustsAp(k)' => OnIn(fat', place', file'[k].name, file'[k].ap.cluster)
    <3>1. TrustsAp(k)' => f.start # Free
      BY <1>5, <1>6, <2>0 DEF TrustsAp
    <3>2. f.start # Free => On(f.name, op.tip)
      BY <1>1, <1>2 DEF CallOn, WalkOn
    <3> QED
      BY <1>4, <1>5, <1>6, <1>8, <2>0, <3>1, <3>2, OnStays
  <2> QED
    BY <1>1, <1>2, <1>3, <1>6, <1>8, <2>0, <2>1, <2>2, SpotsStep DEF Extending, notes
<1> QED
  BY <1>7, <1>8, <1>9, CallEnds, Settled

-----------------------------------------------------------------------------
(***************************************************************************)
(* Steps that touch neither the table nor a file.                          *)
(***************************************************************************)
Calm ==
  /\ UNCHANGED <<fat, place, dir, file, conflict, lost, misled>>
  /\ op.pc # "clear" /\ op'.pc # "clear"
  /\ astray \subseteq astray'
  /\ Extending => op'.h = op.h /\ Extending'

LEMMA CalmStep ==
  ASSUME FileInv, ~conflict', Calm
  PROVE  /\ ~conflict /\ TypeInv /\ Shape /\ Links /\ Spots /\ CallOn
         /\ Shape' /\ Stays /\ Spots'
<1>1. ~conflict /\ TypeInv /\ Shape /\ Links /\ Spots /\ CallOn
  BY Peaceful DEF Calm
<1>2. Shape' /\ Stays
  BY <1>1, FilesUntouched, FrameSame DEF Calm, Quiet
<1>3. Spots'
  BY <1>1, <1>2, SpotsSame DEF Calm
<1> QED
  BY <1>1, <1>2, <1>3

LEMMA ChainOfReadGroup == ASSUME FileInv, ~conflict', ReadGroup  PROVE ChainInv'
<1>1. /\ op.pc = "rchunk" /\ op.ok /\ UNCHANGED <<table, dir, file, notes>>
      /\ op' = [op EXCEPT !.end = op.next, !.next = NextOf(op.next), !.chunk = op.chunk + Bpc,
                  !.pc = IF NextOf(op.next) = op.next + 1 /\ InRun(op.chunk + Bpc)
                            /\ op.chunk + Bpc + Bpc <= op.remain
                         THEN "rchunk" ELSE "rget"]
  BY DEF ReadGroup, At
<1>2. op \in Stack
  BY DEF FileInv, TypeInv, OpOK
<1>3. /\ op'.pc \in {"rchunk", "rget"} /\ op'.h = op.h /\ op'.ok = op.ok /\ op'.pos = op.pos
      /\ op'.end = op.next /\ op'.next = NextOf(op.next)
      /\ op'.pc = "rchunk" => op'.next = op.next + 1
  BY <1>1, <1>2 DEF Stack
<1>4. Calm
  BY <1>1, <1>3 DEF Calm, Extending, table, notes
<1>5. ~conflict /\ TypeInv /\ Links /\ CallOn /\ Shape' /\ Spots'
  BY <1>4, CalmStep
<1>6. CallOn'
  <2>1. f' = f /\ Straight' = Straight
    BY <1>1, <1>3 DEF f, Straight, notes
  <2>2. Straight => On(f.name, op.pos.cluster) /\ On(f.name, op.next)
    BY <1>1, <1>5 DEF CallOn
  <2>3. ASSUME op'.pc = "rchunk", Straight  PROVE On(f.name, op'.next)
    <3>1. op.next \in Nat /\ (op.next = Beyond \/ op.next \in Cluster)
      BY <2>2, <2>3, <1>5, OpFields, Outside DEF On, OnIn
    <3>2. op.next # Beyond
      <4>1. op.next = Beyond => NextOf(op.next) = tail /\ tail \in {Free, Eof}
        BY <1>5, Outside DEF NextOf, TypeInv, TableOK, TableType
      <4> QED
        BY <1>3, <2>3, <3>1, <4>1, Constants
    <3>3. ~Ends(NextOf(op.next))
      BY <1>3, <2>3, <3>1, <3>2, Constants DEF Ends
    <3> QED
      BY <1>3, <1>5, <2>2, <2>3, <3>3, NextOn
  <2>4. \A c : NextOf(c)' = NextOf(c)
    BY <1>1 DEF table, NextOf
  <2>5. \A c : On(f.name, c)' <=> On(f.name, c)
    BY <1>1, <2>1 DEF On, table
  <2> QED
    BY <1>3, <2>1, <2>2, <2>3, <2>4, <2>5 DEF CallOn
<1> QED
  BY <1>5, <1>6, Settled

LEMMA ChainOfReadGet == ASSUME FileInv, ~conflict', ReadGet  PROVE ChainInv'
<1> DEFINE rest == op.remain - op.chunk
           ended == rest = 0 /\ op.next = Eof
           good == ended \/ IsValid(op.next)
           p == CASE ended -> [op.pos EXCEPT !.cluster = op.end, !.sector = Spc]
                  [] ~ended /\ good -> [op.pos EXCEPT !.cluster = op.next, !.sector = 0]
                  [] OTHER -> op.pos
<1>1. /\ op.pc = "rget" /\ UNCHANGED <<table, dir, file, conflict, loose, misled, lost, uneven>>
      /\ \/ /\ op' = [op EXCEPT !.pc = "rchunk", !.chunk = 0, !.remain = rest, !.pos = p,
                        !.off = @ + op.chunk, !.ok = good, !.next = p.cluster]
            /\ astray' = IF good THEN astray ELSE astray \cup {op.h}
         \/ /\ op' = [op EXCEPT !.pc = "rchunk", !.chunk = 0, !.ok = FALSE]
            /\ UNCHANGED astray
  BY DEF ReadGet, At
<1>2. op \in Stack /\ op.pos \in Spot
  BY OpFields DEF FileInv, TypeInv, OpOK
<1>3. op'.pc = "rchunk" /\ op'.h = op.h /\ astray \subseteq astray'
  BY <1>1, <1>2 DEF Stack
<1>4. Calm
  BY <1>1, <1>3 DEF Calm, Extending, table
<1>5. ~conflict /\ TypeInv /\ Links /\ CallOn /\ Shape' /\ Spots'
  BY <1>4, CalmStep
<1>6. CallOn'
  <2>1. f' = f /\ (Straight' => Straight)
    BY <1>1, <1>3 DEF f, Straight
  <2>2. Straight => On(f.name, op.pos.cluster) /\ On(f.name, op.end) /\ op.next = NextOf(op.end)
    BY <1>1, <1>5 DEF CallOn
  <2>3. \A c : On(f.name, c)' <=> On(f.name, c)
    BY <1>1, <2>1 DEF On, table
  <2>4. CASE op' = [op EXCEPT !.pc = "rchunk", !.chunk = 0, !.ok = FALSE]
    <3>1. op'.pos = op.pos /\ ~op'.ok
      BY <1>2, <2>4 DEF Stack
    <3> QED
      BY <1>3, <2>1, <2>2, <2>3, <3>1 DEF CallOn
  <2>5. CASE /\ op' = [op EXCEPT !.pc = "rchunk", !.chunk = 0, !.remain = rest, !.pos = p,
                         !.off = @ + op.chunk, !.ok = good, !.next = p.cluster]
             /\ astray' = IF good THEN astray ELSE astray \cup {op.h}
    <3>1. good /\ Straight => On(f.name, p.cluster)
      <4>1. CASE ended
        <5>1. p.cluster = op.end
          BY <1>2, <4>1 DEF Spot
        <5> QED
          BY <2>2, <5>1
      <4>2. CASE ~ended /\ good
        <5>1. p.cluster = op.next /\ op.next \in Cluster
          BY <1>2, <4>2 DEF Spot, IsValid
        <5>2. ~Ends(op.next)
          BY <5>1, Outside DEF Ends
        <5> QED
          BY <1>5, <2>2, <5>1, <5>2, NextOn
      <4> QED
        BY <4>1, <4>2
    <3> HIDE DEF p, good
    <3>2. op'.pos = p /\ op'.next = p.cluster
      BY <1>2, <2>5 DEF Stack
    <3>3. Straight' => good
      BY <1>3, <2>5 DEF Straight
    <3> QED
      BY <1>3, <2>1, <2>3, <3>1, <3>2, <3>3 DEF CallOn
  <2> QED
    BY <1>1, <2>4, <2>5
<1> QED
  BY <1>5, <1>6, Settled

LEMMA ChainOfWritePut == ASSUME FileInv, ~conflict', WritePut  PROVE ChainInv'
<1>1. /\ op.pc = "group" /\ UNCHANGED <<table, dir, file, conflict, misled, lost, astray>>
      /\ op'.pc = "chunk" /\ op'.h = op.h /\ op'.pos \in {AfterRun, op.pos}
  <2>1. op \in Stack
    BY DEF FileInv, TypeInv, OpOK
  <2> QED
    BY <2>1 DEF WritePut, At, KeepNotes, Stack
<1>2. Calm
  BY <1>1 DEF Calm, Extending, table
<1>3. ~conflict /\ TypeInv /\ Links /\ CallOn /\ Shape' /\ Spots'
  BY <1>2, CalmStep
<1>4. CallOn'
  <2>1. f' = f
    BY <1>1 DEF f
  <2>2. On(f.name, op.pos.cluster) /\ On(f.name, op.end) /\ On(f.name, op.next)
    BY <1>1, <1>3 DEF CallOn
  <2>3. AfterRun.cluster \in {op.end, op.next}
    BY DEF AfterRun, Position
  <2>4. On(f.name, op'.pos.cluster)
    BY <1>1, <2>2, <2>3
  <2>5. On(f.name, op.pos.cluster)'
    BY <1>1, <2>1, <2>4 DEF On, table
  <2> QED
    BY <1>1, <2>5 DEF CallOn
<1> QED
  BY <1>3, <1>4, Settled

LEMMA ClusterKept ==
  /\ \A p, n : After(p, n).cluster = p.cluster
  /\ \A p \in Spot, s \in Int : BySectors(p, s).cluster = p.cluster
  /\ \A p : OverEdge(p).cluster = p.cluster \/ IsValid(NextOf(p.cluster))
  /\ \A p \in Spot : OverEdge(p).cluster \in {p.cluster, NextOf(p.cluster)}
BY DEF After, BySectors, OverEdge, Position, Spot

LEMMA ChainOfReadBegin ==
  ASSUME FileInv, ~conflict', NEW h \in Handle, NEW n \in Lens, ReadBegin(h, n)
  PROVE  ChainInv'
<1> DEFINE g == file[h]
           len == Least(n, g.size - g.cur)
           part == Part(g.rw, len)
           p == After(g.rw, part)
           sectors == ToEdge(p, len - part)
           rest == len - part - sectors * Bps
           q == BySectors(p, sectors)
           started == [Idle EXCEPT !.pc = "rchunk", !.h = h, !.len = len]
           ahead == [started EXCEPT !.pos = OverEdge(q), !.remain = rest,
                       !.off = g.cur + len - rest, !.ok = ~EdgeFails(q, rest),
                       !.next = OverEdge(q).cluster]
           failed == [started EXCEPT !.pos = p, !.remain = len - part,
                        !.off = g.cur + part, !.ok = FALSE]
<1>1. /\ op.pc = "idle" /\ g.inUse /\ g.cur < g.size /\ g.start # Free
      /\ UNCHANGED <<table, dir, file, fsInfo, conflict, loose, misled, lost, uneven>>
      /\ astray \subseteq astray'
      /\ op' \in {ahead, failed}
  BY DEF ReadBegin, Call
<1>2. TypeInv
  BY DEF FileInv
<1>3. g \in FileStruct /\ g.size \in Nat /\ g.cur \in Nat /\ g.rw \in Spot /\ n \in Nat
  BY <1>2, FileFields, CallsAssumption DEF TypeInv, FilesOK
<1>4. len \in Nat
  BY <1>1, <1>3 DEF Least
<1> HIDE DEF len
<1>5. part \in Nat /\ len - part \in Nat
  BY <1>3, <1>4, PartFacts
<1>6. p \in Spot /\ p.cluster = g.rw.cluster
  BY <1>3, <1>5, AfterType
<1> HIDE DEF part, p
<1>7. sectors \in Nat
  BY <1>5, <1>6, ToEdgeFacts
<1>8. q \in Spot /\ q.cluster = g.rw.cluster
  BY <1>6, <1>7, BySectorsType
<1> HIDE DEF sectors, rest, q, g
<1>9. /\ ahead.pc = "rchunk" /\ ahead.h = h /\ ahead.pos = OverEdge(q)
      /\ ahead.next = OverEdge(q).cluster
  BY IdleFacts DEF Stack, Idle
<1>10. failed.pc = "rchunk" /\ failed.h = h /\ failed.pos = p /\ failed.ok = FALSE
  BY IdleFacts DEF Stack, Idle
<1> HIDE DEF ahead, failed
<1>11. op'.pc = "rchunk" /\ op'.h = h
  BY <1>1, <1>9, <1>10
<1>12. Calm
  BY <1>1, <1>11 DEF Calm, Extending, table
<1>13. ~conflict /\ Links /\ Spots /\ Shape' /\ Spots'
  BY <1>12, CalmStep
<1>14. CallOn'
  <2>1. f' = g /\ (Straight' => TrustsRw(h))
    BY <1>1, <1>11 DEF f, g, Straight, TrustsRw, Writer
  <2>2. TrustsRw(h) => On(g.name, g.rw.cluster)
    BY <1>13 DEF Spots, g
  <2>3. On(g.name, g.rw.cluster) => On(g.name, OverEdge(q).cluster)
    <3>1. OverEdge(q).cluster = q.cluster \/ (OverEdge(q).cluster = NextOf(q.cluster)
                                              /\ NextOf(q.cluster) \in Cluster)
      BY <1>8, ClusterKept DEF IsValid
    <3> QED
      BY <1>2, <1>8, <1>13, <3>1, NextOn, Outside DEF Ends
  <2>4. \A c : OnIn(fat', place', g.name, c) <=> On(g.name, c)
    BY <1>1 DEF On, table
  <2>5. /\ op'.pos.cluster \in {OverEdge(q).cluster, g.rw.cluster}
        /\ op'.ok => op'.next = OverEdge(q).cluster
    BY <1>1, <1>6, <1>9, <1>10
  <2>6. ASSUME Straight'
        PROVE  /\ OnIn(fat', place', g.name, op'.pos.cluster)
               /\ op'.ok => OnIn(fat', place', g.name, op'.next)
    BY <2>1, <2>2, <2>3, <2>4, <2>5, <2>6
  <2> QED
    BY <1>11, <2>1, <2>6 DEF CallOn, On
<1> QED
  BY <1>13, <1>14, Settled

\* The start of a chain is on it.
LEMMA StartOn ==
  ASSUME TypeInv, Heads, NEW h \in Handle, Writer(h), file[h].start # Free
  PROVE  file[h].start \in Cluster /\ On(file[h].name, file[h].start)
         /\ IsFirst(file[h].name, file[h].start)
<1>1. file[h].start \in Cluster
  BY FileFields DEF TypeInv, FilesOK
<1> QED
  BY <1>1 DEF Heads, IsFirst, On, OnIn

\* A write begins where its file ends or its pointer is, or extends it first.
LEMMA WritingOn ==
  ASSUME NEW h \in Handle, NEW g \in FileStruct, NEW len, op' = Writing(h, g, len),
         file'[h] = g, OnIn(fat', place', g.name, g.start),
         g.append => OnIn(fat', place', g.name, g.ap.cluster),
         ~g.append => OnIn(fat', place', g.name, g.rw.cluster)
  PROVE  CallOn' /\ op'.pc # "clear" /\ op'.h = h
<1> DEFINE base == [Idle EXCEPT !.h = h, !.len = len, !.remain = len]
           far == [base EXCEPT !.pc = "walk", !.then = "extend", !.tip = g.start, !.goal = g.cur]
           near == [base EXCEPT !.pc = "head", !.pos = IF g.append THEN g.ap ELSE g.rw,
                      !.off = IF g.append THEN g.size ELSE g.cur]
<1>1. CASE ~g.append /\ PastEnd(g)
  <2>1. op' = far
    BY <1>1 DEF Writing
  <2>2. far.pc = "walk" /\ far.then = "extend" /\ far.h = h /\ far.tip = g.start
    BY DEF Idle
  <2> QED
    BY <2>1, <2>2 DEF CallOn, WalkOn, f, On
<1>2. CASE ~(~g.append /\ PastEnd(g))
  <2>1. op' = near
    BY <1>2 DEF Writing
  <2>2. near.pc = "head" /\ near.h = h /\ near.pos = IF g.append THEN g.ap ELSE g.rw
    BY DEF Idle
  <2> QED
    BY <2>1, <2>2 DEF CallOn, f, On
<1> QED
  BY <1>1, <1>2

LEMMA ChainOfWriteBegin ==
  ASSUME FileInv, ~conflict', NEW h \in Handle, NEW n \in Lens, WriteBegin(h, n)
  PROVE  ChainInv'
<1> DEFINE g == file[h]
           len == IF n + g.size > MaxFile THEN MaxFile - g.size ELSE n
<1>1. /\ op.pc = "idle" /\ g.inUse /\ g.write
      /\ UNCHANGED <<dir, fsInfo, loose, misled, lost, uneven>>
      /\ astray \subseteq astray' /\ (astray' # astray => g.append)
      /\ astray' \subseteq astray \cup {h}
      /\ ~conflict /\ h \notin IF g.append THEN misled ELSE astray
  BY DEF WriteBegin, Call
<1>2. TypeInv /\ Shape /\ Heads /\ Spots
  BY <1>1, Peaceful DEF Shape
<1>3. g \in FileStruct /\ HandleOK(g) /\ g.name \in Name /\ Writer(h)
  BY <1>1, <1>2 DEF TypeInv, FilesOK, Handles, HandleOK, Writer
<1> HIDE DEF len
<1>4. CASE /\ g.start # Free /\ op' = Writing(h, g, len) /\ UNCHANGED <<table, file>>
  <2>1. OnIn(fat', place', g.name, g.start)
    BY <1>2, <1>3, <1>4, StartOn DEF table, On
  <2>2. g.append => OnIn(fat', place', g.name, g.ap.cluster)
    <3>1. g.append => TrustsAp(h)
      BY <1>1, <1>3, <1>4 DEF TrustsAp, Extending
    <3> QED
      BY <1>2, <1>4, <3>1 DEF Spots, On, table
  <2>3. ~g.append => OnIn(fat', place', g.name, g.rw.cluster)
    <3>1. ~g.append => TrustsRw(h)
      BY <1>1, <1>3, <1>4 DEF TrustsRw
    <3> QED
      BY <1>2, <1>4, <3>1 DEF Spots, On, table
  <2>4. CallOn' /\ op'.pc # "clear"
    BY <1>3, <1>4, <2>1, <2>2, <2>3, WritingOn
  <2>5. Shape' /\ Stays
    BY <1>1, <1>2, <1>4, <2>4, FilesUntouched, FrameSame DEF Quiet, table
  <2>6. Spots'
    <3>1. ~Extending
      BY <1>1 DEF Extending
    <3> QED
      BY <1>1, <1>2, <1>4, <2>5, <3>1, SpotsSame
  <2> QED
    BY <2>4, <2>5, <2>6, Settled
<1>5. ASSUME g.start = Free, NEW got \in Results, LinkFree(Free, g.name, got),
             IF IsValid(got)
             THEN Becomes(h, Headed(h, got)) /\ op' = Writing(h, Headed(h, got), len)
             ELSE UNCHANGED <<file, op>>
      PROVE  ChainInv'
  <2>1. CASE ~IsValid(got)
    <3>1. file' = file /\ op' = op
      BY <1>5, <2>1
    <3>2. Shape' /\ Stays
      BY <1>1, <1>2, <1>3, <1>5, <2>1, <3>1, FilesUntouched, FrameFirst DEF Quiet
    <3>3. Spots'
      <4>1. ~Extending
        BY <1>1 DEF Extending
      <4> QED
        BY <1>1, <1>2, <3>1, <3>2, <4>1, SpotsSame
    <3>4. CallOn'
      BY <1>1, <3>1, CallEnds
    <3> QED
      BY <3>2, <3>3, <3>4, Settled
  <2>2. CASE IsValid(got)
    <3> DEFINE k == Headed(h, got)
    <3>1. got \in Cluster /\ got # Free
      BY <2>2, Outside DEF IsValid
    <3>2. /\ k.inUse = g.inUse /\ k.write = g.write /\ k.name = g.name
          /\ k.modified = g.modified /\ k.start = got /\ k.rw.cluster = got
          /\ k.ap.cluster = got /\ k.append = g.append
      BY <1>3 DEF Headed, FileStruct, Position
    <3>3. k \in FileStruct
      <4>1. 0 \in 0 .. Bps - 1 /\ 0 \in Nat /\ got \in Link
        BY <3>1, SizesAssumption DEF Link
      <4> QED
        BY <1>3, <3>1, <4>1, SpotType DEF Headed, FileStruct
    <3> HIDE DEF k
    <3>4. Becomes(h, k) /\ op' = Writing(h, k, len)
      BY <1>5, <2>2 DEF k
    <3>5. SameNames /\ file'[h] = k /\ \A j \in Handle \ {h} : file'[j] = file[j]
      BY <1>2, <3>2, <3>4, NamesKept
    <3>6. op'.pc # "clear"
      <4>1. Idle.pc # "clear"
        BY DEF Idle
      <4> QED
        BY <3>4 DEF Writing, Idle
    <3>7. Shape' /\ Stays /\ OnIn(fat', place', g.name, got)
      <4>1. \A j \in Handle \ {h} : file'[j].start = file[j].start
        BY <3>5
      <4>2. file'[h].start = IF IsValid(got) THEN got ELSE Free
        BY <2>2, <3>2, <3>5
      <4> QED
        BY <1>1, <1>2, <1>3, <1>5, <3>1, <3>5, <3>6, <4>1, <4>2, FrameFirst DEF Quiet
    <3>8. CallOn' /\ op'.h = h
      BY <3>2, <3>3, <3>4, <3>5, <3>7, WritingOn
    <3>9. Spots'
      <4>1. ~Extending
        BY <1>1 DEF Extending
      <4>2. /\ OnIn(fat', place', file'[h].name, file'[h].rw.cluster)
            /\ OnIn(fat', place', file'[h].name, file'[h].ap.cluster)
        BY <3>2, <3>5, <3>7
      <4> QED
        BY <1>1, <1>2, <3>5, <3>7, <4>1, <4>2, SpotsStep
    <3> QED
      BY <3>7, <3>8, <3>9, Settled
  <2> QED
    BY <2>1, <2>2
<1>6. \/ g.start # Free /\ op' = Writing(h, g, len) /\ UNCHANGED <<table, file>>
      \/ /\ g.start = Free
         /\ \E got \in Results :
              /\ LinkFree(Free, g.name, got)
              /\ IF IsValid(got)
                 THEN Becomes(h, Headed(h, got)) /\ op' = Writing(h, Headed(h, got), len)
                 ELSE UNCHANGED <<file, op>>
  BY DEF WriteBegin, len
<1> QED
  BY <1>4, <1>5, <1>6

-----------------------------------------------------------------------------
(***************************************************************************)
(* Steps that move a handle's positions.                                   *)
(***************************************************************************)

\* Each position is on the chain, or is where it was and no more trusted than
\* before, or is known to have gone astray.
LEMMA SpotsMoved ==
  ASSUME TypeInv, Spots, Stays, NEW h \in Handle, NEW g, file'[h] = g,
         \A j \in Handle \ {h} : file'[j] = file[j],
         g.inUse = file[h].inUse, g.write = file[h].write, g.name = file[h].name,
         g.start = file[h].start, g.append = file[h].append,
         astray \ {h} \subseteq astray', misled \ {h} \subseteq misled',
         Extending => op.h = h,
         \/ h \in astray' \/ ~g.write \/ OnIn(fat', place', g.name, g.rw.cluster)
         \/ g.rw.cluster = file[h].rw.cluster /\ h \notin astray,
         \/ h \in misled' \/ ~g.append \/ ~g.write \/ OnIn(fat', place', g.name, g.ap.cluster)
         \/ /\ g.ap.cluster = file[h].ap.cluster /\ h \notin misled
            /\ (Extending => Extending' /\ op'.h = h)
  PROVE  Spots'
<1>1. TrustsRw(h)' => OnIn(fat', place', file'[h].name, file'[h].rw.cluster)
  <2>1. TrustsRw(h)' /\ h \notin astray => TrustsRw(h)
    BY DEF TrustsRw, Writer
  <2>2. TrustsRw(h) => On(file[h].name, file[h].rw.cluster)
    BY DEF Spots
  <2>3. On(g.name, file[h].rw.cluster) => OnIn(fat', place', g.name, file[h].rw.cluster)
    BY OnStays
  <2>4. TrustsRw(h)' => h \notin astray'
    BY DEF TrustsRw
  <2>5. TrustsRw(h)' => g.write
    BY DEF TrustsRw, Writer
  <2> QED
    BY <2>1, <2>2, <2>3, <2>4, <2>5
<1>2. TrustsAp(h)' => OnIn(fat', place', file'[h].name, file'[h].ap.cluster)
  <2>1. /\ TrustsAp(h)' => h \notin misled' /\ g.append /\ g.write
        /\ TrustsAp(h)' /\ h \notin misled /\ (Extending => Extending' /\ op'.h = h)
             => TrustsAp(h)
    BY DEF TrustsAp, Writer
  <2>2. TrustsAp(h) => On(file[h].name, file[h].ap.cluster)
    BY DEF Spots
  <2>3. On(g.name, file[h].ap.cluster) => OnIn(fat', place', g.name, file[h].ap.cluster)
    BY OnStays
  <2> QED
    BY <2>1, <2>2, <2>3
<1> QED
  BY <1>1, <1>2, SpotsStep

LEMMA AdvanceOn ==
  ASSUME TypeInv, Shape, SameNames, SameStarts, Quiet, f.name \in Name,
         NEW p \in Spot, NEW q, NEW good, Advance(p, q, good), On(f.name, p.cluster)
  PROVE  Shape' /\ Stays /\ OnIn(fat', place', f.name, q.cluster)
<1>1. CASE q = p /\ UNCHANGED table
  <2>1. Shape' /\ Stays
    BY <1>1, FrameSame DEF table
  <2> QED
    BY <1>1, <2>1, OnStays
<1>2. ASSUME NEW got,
             IF Ends(NextOf(p.cluster)) THEN LinkFree(p.cluster, f.name, got)
             ELSE got = NextOf(p.cluster) /\ UNCHANGED table,
             good = IsValid(got),
             q = IF good THEN [p EXCEPT !.sector = 0, !.cluster = got] ELSE p
      PROVE  Shape' /\ Stays /\ OnIn(fat', place', f.name, q.cluster)
  <2>1. q.cluster = p.cluster \/ (q.cluster = got /\ got \in Cluster)
    BY <1>2 DEF Spot, IsValid
  <2>2. CASE Ends(NextOf(p.cluster))
    <3>1. Shape' /\ Stays /\ (got \in Cluster => OnIn(fat', place', f.name, got))
      BY <1>2, <2>2, FrameLinked
    <3> QED
      BY <2>1, <3>1, OnStays
  <2>3. CASE ~Ends(NextOf(p.cluster))
    <3>1. Shape' /\ Stays
      BY <1>2, <2>3, FrameSame DEF table
    <3>2. On(f.name, got)
      BY <1>2, <2>3, NextOn DEF Shape
    <3> QED
      BY <2>1, <3>1, <3>2, OnStays
  <2> QED
    BY <2>2, <2>3
<1> QED
  BY <1>1, <1>2 DEF Advance

LEMMA ChainOfReadTail == ASSUME FileInv, ~conflict', ReadTail  PROVE ChainInv'
<1> DEFINE sectors == IF op.ok THEN op.remain \div Bps ELSE 0
           q == BySectors(op.pos, sectors)
           rest == op.remain - sectors * Bps
           End(p, n) == [f EXCEPT !.rw = p, !.cur = @ + (op.len - n)]
<1>1. /\ op.pc = "rchunk" /\ op' = Idle /\ UNCHANGED <<table, dir, fsInfo, notes>>
      /\ \/ Becomes(op.h, End([q EXCEPT !.byte = @ + rest], 0))
         \/ Becomes(op.h, End(op.pos, op.remain))
  BY DEF ReadTail, At, Moved
<1>2. TypeInv /\ ~conflict /\ Shape /\ Spots /\ CallOn
  BY <1>1, Peaceful DEF notes
<1>3. PICK k \in Handle : k = op.h
  BY <1>1, <1>2, CallFile
<1>4. f \in FileStruct /\ f = file[k] /\ f.name \in Name /\ op.pos \in Spot /\ op.remain \in Nat
  BY <1>1, <1>2, <1>3, CallFile, OpFields
<1>5. sectors \in Nat
  BY <1>4, SizesAssumption, Division
<1>6. q \in Spot /\ q.cluster = op.pos.cluster
  BY <1>4, <1>5, BySectorsType
<1> HIDE DEF sectors, q, rest
<1>7. ASSUME NEW p, NEW n, p.cluster = op.pos.cluster, Becomes(k, End(p, n))
      PROVE  ChainInv'
  <2> DEFINE g == End(p, n)
  <2>1. /\ g.inUse = f.inUse /\ g.write = f.write /\ g.name = f.name
        /\ g.modified = f.modified /\ g.start = f.start /\ g.append = f.append
        /\ g.rw = p /\ g.ap = f.ap
    BY <1>4 DEF FileStruct
  <2>2. Becomes(k, g)
    BY <1>7
  <2> HIDE DEF g, End
  <2>3. SameNames /\ SameStarts /\ file'[k] = g /\ \A j \in Handle \ {k} : file'[j] = file[j]
    BY <1>2, <1>4, <2>1, <2>2, NamesKept
  <2>4. Shape' /\ Stays
    BY <1>1, <1>2, <2>3, IdleFacts, FrameSame DEF Quiet, table, notes
  <2>5. Spots'
    <3>1. CASE ~f.write
      <4>1. ~TrustsRw(k)' /\ ~TrustsAp(k)'
        BY <1>4, <2>1, <2>3, <3>1 DEF TrustsRw, TrustsAp, Writer
      <4> QED
        BY <1>1, <1>2, <2>3, <2>4, <4>1, SpotsStep DEF Extending, notes
    <3>2. CASE f.write
      <4>1. k \in astray' \/ OnIn(fat', place', g.name, g.rw.cluster)
        <5>1. k \notin astray => On(f.name, op.pos.cluster)
          BY <1>1, <1>2, <1>3, <3>2 DEF CallOn, Straight
        <5> QED
          BY <1>1, <1>7, <2>1, <2>4, <5>1, OnStays DEF notes
      <4>2. ~Extending /\ astray' = astray /\ misled' = misled
        BY <1>1 DEF Extending, notes
      <4> QED
        BY <1>2, <1>4, <2>1, <2>3, <2>4, <4>1, <4>2, SpotsMoved
    <3> QED
      BY <3>1, <3>2
  <2> QED
    BY <1>1, <2>4, <2>5, IdleFacts, CallEnds, Settled
<1>8. CASE Becomes(op.h, End([q EXCEPT !.byte = @ + rest], 0))
  <2>1. [q EXCEPT !.byte = @ + rest].cluster = op.pos.cluster
    BY <1>6 DEF Spot
  <2> HIDE DEF End
  <2> QED
    BY <1>3, <1>7, <1>8, <2>1
<1>9. CASE Becomes(op.h, End(op.pos, op.remain))
  <2> HIDE DEF End
  <2> QED
    BY <1>3, <1>7, <1>9
<1> QED
  BY <1>1, <1>8, <1>9

-----------------------------------------------------------------------------
(***************************************************************************)
(* Writes.                                                                 *)
(***************************************************************************)
LEMMA SectorsBehind == \A p, n, s : BySectors(After(p, n), s).cluster = p.cluster
BY DEF BySectors, After, Position

\* A write takes the next cluster, if it needs one, and goes on.
LEMMA WriteAdvances ==
  ASSUME FileInv, ~conflict, op.pc \in {"head", "chunk", "group"}, file' = file,
         op'.h = op.h, op'.pc \in {"chunk", "group"},
         UNCHANGED <<dir, lost, conflict, astray, misled>>,
         NEW p \in Spot, NEW q, NEW good, Advance(p, q, good), On(f.name, p.cluster)
  PROVE  /\ Shape' /\ Stays /\ Spots' /\ f' = f
         /\ OnIn(fat', place', f.name, q.cluster)
<1>1. TypeInv /\ Shape /\ Spots
  BY Peaceful
<1>2. f.name \in Name
  BY <1>1, WritingCall
<1>3. Shape' /\ Stays /\ OnIn(fat', place', f.name, q.cluster)
  BY <1>1, <1>2, FilesUntouched, AdvanceOn DEF Quiet
<1>4. Spots'
  BY <1>1, <1>3, SpotsSame DEF Extending
<1>5. f' = f
  BY DEF f
<1> QED
  BY <1>3, <1>4, <1>5

LEMMA ChainOfWriteHead == ASSUME FileInv, ~conflict', WriteHead  PROVE ChainInv'
<1>1. /\ op.pc = "head" /\ UNCHANGED <<dir, lost, conflict, astray, misled, file>>
  BY DEF WriteHead, At, KeepNotes
<1>2. TypeInv /\ ~conflict /\ CallOn /\ op \in Stack /\ op.pos \in Spot
  BY <1>1, Peaceful, OpFields
<1>3. PICK q \in Positions, good \in BOOLEAN :
        /\ Advance(op.pos, q, good)
        /\ LET part == Part(q, op.remain)
               p == After(q, part)
               edge == ToEdge(p, op.remain - part)
               sectors == IF edge < Spc THEN edge ELSE 0
               n == part + sectors * Bps
           IN
           \/ op' = [op EXCEPT !.pc = "chunk", !.ok = FALSE]
           \/ op' = [op EXCEPT !.pc = "chunk", !.pos = BySectors(p, sectors),
                       !.remain = @ - n, !.off = @ + n]
           \/ op' = [op EXCEPT !.pc = "chunk", !.pos = p, !.ok = FALSE,
                       !.remain = @ - part, !.off = @ + part]
  BY DEF WriteHead
<1>4. op'.pc = "chunk" /\ op'.h = op.h /\ op'.pos.cluster \in {op.pos.cluster, q.cluster}
  <2> DEFINE part == Part(q, op.remain)
             p == After(q, part)
             edge == ToEdge(p, op.remain - part)
             sectors == IF edge < Spc THEN edge ELSE 0
             n == part + sectors * Bps
  <2>1. \/ op' = [op EXCEPT !.pc = "chunk", !.ok = FALSE]
        \/ op' = [op EXCEPT !.pc = "chunk", !.pos = BySectors(p, sectors),
                    !.remain = @ - n, !.off = @ + n]
        \/ op' = [op EXCEPT !.pc = "chunk", !.pos = p, !.ok = FALSE,
                    !.remain = @ - part, !.off = @ + part]
    BY <1>3
  <2>2. p.cluster = q.cluster /\ BySectors(p, sectors).cluster = q.cluster
    BY SectorsBehind, ClusterKept
  <2> HIDE DEF part, p, edge, sectors, n
  <2> QED
    BY <1>2, <2>1, <2>2 DEF Stack
<1>5. /\ Shape' /\ Stays /\ Spots' /\ f' = f /\ OnIn(fat', place', f.name, q.cluster)
  BY <1>1, <1>2, <1>3, <1>4, WriteAdvances DEF CallOn
<1>6. OnIn(fat', place', f.name, op.pos.cluster)
  BY <1>1, <1>2, <1>5, OnStays DEF CallOn
<1>7. CallOn'
  BY <1>4, <1>5, <1>6 DEF CallOn, On
<1> QED
  BY <1>5, <1>7, Settled

LEMMA ChainOfWriteChunk == ASSUME FileInv, ~conflict', WriteChunk  PROVE ChainInv'
<1>1. op.pc = "chunk" /\ UNCHANGED <<dir, lost, conflict, astray, misled, file>>
  BY DEF WriteChunk, At, notes
<1>2. TypeInv /\ ~conflict /\ CallOn /\ op \in Stack /\ op.pos \in Spot
  BY <1>1, Peaceful, OpFields
<1>3. PICK q \in Positions, good \in BOOLEAN :
        /\ Advance(op.pos, q, good)
        /\ \/ op' = [op EXCEPT !.pc = "group", !.pos = q, !.end = q.cluster,
                       !.next = q.cluster, !.chunk = Bpc]
           \/ op' = [op EXCEPT !.ok = FALSE]
  BY DEF WriteChunk
<1>4. /\ op'.pc \in {"chunk", "group"} /\ op'.h = op.h
      /\ op'.pos.cluster \in {op.pos.cluster, q.cluster}
      /\ op'.pc = "group" => op'.end = q.cluster /\ op'.next = q.cluster
  BY <1>1, <1>2, <1>3 DEF Stack
<1>5. /\ Shape' /\ Stays /\ Spots' /\ f' = f /\ OnIn(fat', place', f.name, q.cluster)
  BY <1>1, <1>2, <1>3, <1>4, WriteAdvances DEF CallOn
<1>6. OnIn(fat', place', f.name, op.pos.cluster)
  BY <1>1, <1>2, <1>5, OnStays DEF CallOn
<1>7. CallOn'
  BY <1>4, <1>5, <1>6 DEF CallOn, On
<1> QED
  BY <1>5, <1>7, Settled

LEMMA ChainOfWriteGroup == ASSUME FileInv, ~conflict', WriteGroup  PROVE ChainInv'
<1>1. op.pc = "group" /\ UNCHANGED <<dir, lost, conflict, astray, misled, file>>
  BY DEF WriteGroup, At, notes
<1>2. TypeInv /\ ~conflict /\ CallOn /\ op \in Stack /\ op.pos \in Spot /\ op.end \in Link
  BY <1>1, Peaceful, OpFields
<1> DEFINE p == Position(op.end, Spc, op.pos.byte)
<1>3. PICK q \in Positions, good \in BOOLEAN :
        /\ Advance(p, q, good)
        /\ \/ op' = [op EXCEPT !.ok = FALSE]
           \/ op' = [op EXCEPT !.next = q.cluster]
           \/ op' = [op EXCEPT !.end = q.cluster, !.next = q.cluster, !.chunk = @ + Bpc]
  BY DEF WriteGroup
<1>4. /\ op'.pc = "group" /\ op'.h = op.h /\ op'.pos = op.pos
      /\ op'.end \in {op.end, q.cluster} /\ op'.next \in {op.next, q.cluster}
  BY <1>1, <1>2, <1>3 DEF Stack
<1>5. p \in Spot /\ p.cluster = op.end
  <2>1. Spc \in Nat /\ op.pos.byte \in 0 .. Bps - 1
    BY <1>2, SpotParts, SizesAssumption
  <2> QED
    BY <1>2, <2>1, SpotType
<1> HIDE DEF p
<1>6. /\ Shape' /\ Stays /\ Spots' /\ f' = f /\ OnIn(fat', place', f.name, q.cluster)
  BY <1>1, <1>2, <1>3, <1>4, <1>5, WriteAdvances DEF CallOn
<1>7. /\ OnIn(fat', place', f.name, op.pos.cluster) /\ OnIn(fat', place', f.name, op.end)
      /\ OnIn(fat', place', f.name, op.next)
  BY <1>1, <1>2, <1>6, OnStays DEF CallOn
<1>8. CallOn'
  BY <1>4, <1>6, <1>7 DEF CallOn, On
<1> QED
  BY <1>6, <1>8, Settled

LEMMA ChainOfWriteTail == ASSUME FileInv, ~conflict', WriteTail  PROVE ChainInv'
<1>1. op.pc = "chunk" /\ op' = Idle /\ UNCHANGED <<dir, lost, conflict, astray, misled>>
  BY DEF WriteTail, At, KeepNotes
<1>2. TypeInv /\ ~conflict /\ Shape /\ Spots /\ CallOn /\ op \in Stack /\ op.pos \in Spot
  BY <1>1, Peaceful, OpFields
<1>3. PICK k \in Handle : k = op.h
  BY <1>1, <1>2, WritingCall
<1>4. f \in FileStruct /\ f = file[k] /\ f.name \in Name /\ On(f.name, op.pos.cluster)
  BY <1>1, <1>2, <1>3, WritingCall DEF f, CallOn
<1>5. PICK q \in Positions, good \in BOOLEAN :
        /\ Advance(op.pos, q, good) \/ (q = op.pos /\ UNCHANGED table)
        /\ \/ Written(q, op.remain)
           \/ Written([BySectors(q, op.remain \div Bps) EXCEPT !.byte = @ + (op.remain % Bps)], 0)
  BY DEF WriteTail
<1>6. PICK p, n : p.cluster = q.cluster /\ Written(p, n)
  <2>1. [BySectors(q, op.remain \div Bps) EXCEPT !.byte = @ + (op.remain % Bps)].cluster = q.cluster
    BY DEF BySectors, Positions
  <2> QED
    BY <1>5, <2>1
<1> DEFINE g == IF f.append
                THEN [f EXCEPT !.modified = TRUE, !.ap = p, !.size = @ + (op.len - n)]
                ELSE [f EXCEPT !.modified = TRUE, !.rw = p, !.cur = f.cur + (op.len - n),
                        !.size = IF @ < f.cur + (op.len - n) THEN f.cur + (op.len - n) ELSE @]
<1>7. Becomes(k, g)
  BY <1>3, <1>6 DEF Written
<1>8. /\ g.inUse = f.inUse /\ g.write = f.write /\ g.name = f.name /\ g.modified = TRUE
      /\ g.start = f.start /\ g.append = f.append
      /\ IF f.append THEN g.rw = f.rw /\ g.ap = p ELSE g.rw = p /\ g.ap = f.ap
  BY <1>4 DEF FileStruct
<1> HIDE DEF g
<1>9. SameNames /\ SameStarts /\ file'[k] = g /\ \A j \in Handle \ {k} : file'[j] = file[j]
  BY <1>2, <1>4, <1>7, <1>8, NamesKept
<1>10. Shape' /\ Stays /\ OnIn(fat', place', f.name, q.cluster)
  <2>1. Quiet
    BY <1>1, IdleFacts DEF Quiet
  <2>2. CASE Advance(op.pos, q, good)
    BY <1>2, <1>4, <1>9, <2>1, <2>2, AdvanceOn
  <2>3. CASE q = op.pos /\ UNCHANGED table
    <3>1. Shape' /\ Stays
      BY <1>2, <1>9, <2>1, <2>3, FrameSame DEF table
    <3> QED
      BY <1>4, <2>3, <3>1, OnStays
  <2> QED
    BY <1>5, <2>2, <2>3
<1>11. Spots'
  <2>1. ~Extending /\ astray' = astray /\ misled' = misled
    BY <1>1 DEF Extending
  <2>2. \/ k \in astray' \/ OnIn(fat', place', g.name, g.rw.cluster)
        \/ g.rw.cluster = file[k].rw.cluster /\ k \notin astray
    BY <1>1, <1>4, <1>6, <1>8, <1>10
  <2>3. \/ k \in misled' \/ ~g.append \/ OnIn(fat', place', g.name, g.ap.cluster)
        \/ g.ap.cluster = file[k].ap.cluster /\ k \notin misled
    BY <1>1, <1>4, <1>6, <1>8, <1>10
  <2> QED
    BY <1>2, <1>4, <1>8, <1>9, <1>10, <2>1, <2>2, <2>3, SpotsMoved
<1> QED
  BY <1>1, <1>10, <1>11, IdleFacts, CallEnds, Settled

-----------------------------------------------------------------------------
(***************************************************************************)
(* Extensions.                                                             *)
(***************************************************************************)
LEMMA ExtendedOn ==
  ASSUME FileInv, ~conflict, Extending, NEW p, Extended(p)
  PROVE  /\ SameNames /\ SameStarts /\ op'.pc # "clear"
         /\ Stays /\ OnIn(fat', place', f.name, p.cluster) /\ UNCHANGED <<astray, misled>>
              => Spots' /\ CallOn'
<1>1. TypeInv /\ Spots
  BY Peaceful
<1>2. PICK k \in Handle : k = op.h
  BY <1>1, ExtendingCall DEF Extending
<1>3. f \in FileStruct /\ f = file[k] /\ f.start # Free /\ (op.len > 0 => ~f.append)
  BY <1>1, <1>2, ExtendingCall DEF Extending, f
<1> DEFINE g == IF op.len > 0 THEN [f EXCEPT !.rw = p, !.size = op.goal]
                ELSE [f EXCEPT !.size = op.goal, !.modified = TRUE,
                        !.ap = IF f.append THEN p ELSE @]
<1>4. Becomes(k, g)
  BY <1>2 DEF Extended
<1>5. /\ g.inUse = f.inUse /\ g.write = f.write /\ g.name = f.name
      /\ (~g.modified => ~f.modified) /\ g.start = f.start /\ g.append = f.append
      /\ IF op.len > 0 THEN g.rw = p ELSE g.rw = f.rw /\ (f.append => g.ap = p)
  BY <1>3 DEF FileStruct
<1> HIDE DEF g
<1>6. SameNames /\ SameStarts /\ file'[k] = g /\ \A j \in Handle \ {k} : file'[j] = file[j]
  BY <1>1, <1>3, <1>4, <1>5, NamesKept
<1>7. IF op.len > 0 THEN op'.pc = "head" /\ op'.h = k /\ op'.pos = p ELSE op'.pc = "idle"
  <2>1. CASE op.len > 0
    <3>1. op' = [op EXCEPT !.pc = "head", !.then = "none", !.tip = Free, !.goal = 0,
                   !.pos = p, !.remain = op.len, !.off = op.goal]
      BY <2>1 DEF Extended
    <3> QED
      BY <1>1, <1>2, <2>1, <3>1, OpFields DEF Stack
  <2>2. CASE ~(op.len > 0)
    BY <2>2, IdleFacts DEF Extended
  <2> QED
    BY <2>1, <2>2
<1>8. ASSUME Stays, OnIn(fat', place', f.name, p.cluster), UNCHANGED <<astray, misled>>
      PROVE  Spots' /\ CallOn'
  <2>1. \/ k \in astray' \/ OnIn(fat', place', g.name, g.rw.cluster)
        \/ g.rw.cluster = file[k].rw.cluster /\ k \notin astray
    BY <1>3, <1>5, <1>8
  <2>2. ~g.append \/ OnIn(fat', place', g.name, g.ap.cluster)
    BY <1>3, <1>5, <1>8
  <2>3. Spots'
    BY <1>1, <1>2, <1>3, <1>5, <1>6, <1>8, <2>1, <2>2, SpotsMoved
  <2>4. CallOn'
    BY <1>2, <1>5, <1>6, <1>7, <1>8 DEF CallOn, On, f
  <2> QED
    BY <2>3, <2>4
<1> QED
  BY <1>6, <1>7, <1>8

LEMMA ExtendFailedOn ==
  ASSUME FileInv, ~conflict, Extending, ExtendFailed
  PROVE  /\ SameNames /\ SameStarts /\ op'.pc # "clear"
         /\ Stays /\ astray' = astray => Spots' /\ CallOn'
<1>1. TypeInv /\ Spots
  BY Peaceful
<1>2. PICK k \in Handle : k = op.h
  BY <1>1, ExtendingCall DEF Extending
<1>3. /\ f \in FileStruct /\ f = file[k] /\ f.start # Free /\ (op.len > 0 => ~f.append)
      /\ f.inUse /\ f.write /\ op.len \in Nat
  BY <1>1, <1>2, ExtendingCall, OpFields DEF Extending, f
<1> DEFINE g == IF op.len > 0 THEN f
                ELSE [f EXCEPT !.size = op.goal, !.modified = TRUE,
                        !.ap = IF f.append THEN f.rw ELSE @]
<1>4. Becomes(k, g) /\ op' = Idle
  BY <1>2 DEF ExtendFailed
<1>5. /\ g.inUse = f.inUse /\ g.write = f.write /\ g.name = f.name
      /\ (~g.modified => ~f.modified) /\ g.start = f.start /\ g.append = f.append
      /\ g.rw = f.rw /\ (op.len = 0 /\ f.append => g.ap = f.rw)
  BY <1>3 DEF FileStruct
<1> HIDE DEF g
<1>6. SameNames /\ SameStarts /\ file'[k] = g /\ \A j \in Handle \ {k} : file'[j] = file[j]
  BY <1>1, <1>3, <1>4, <1>5, NamesKept
<1>7. misled' = IF op.len = 0 /\ f.append /\ k \in astray THEN misled \cup {k} ELSE misled
  BY <1>2 DEF ExtendFailed
<1>8. ASSUME Stays, astray' = astray  PROVE Spots'
  <2>1. k \in astray \/ OnIn(fat', place', g.name, f.rw.cluster)
    <3>1. k \in astray \/ On(f.name, f.rw.cluster)
      BY <1>1, <1>3 DEF Spots, TrustsRw, Writer
    <3> QED
      BY <1>5, <1>8, <3>1, OnStays
  <2>2. \/ k \in misled' \/ ~g.append \/ OnIn(fat', place', g.name, g.ap.cluster)
    <3>1. f.append => op.len = 0
      BY <1>3
    <3> QED
      BY <1>5, <1>7, <2>1, <3>1
  <2>3. misled \ {k} \subseteq misled'
    BY <1>7
  <2> QED
    BY <1>1, <1>2, <1>3, <1>5, <1>6, <1>8, <2>1, <2>2, <2>3, SpotsMoved
<1> QED
  BY <1>4, <1>6, <1>8, IdleFacts, CallEnds

\* The file goes on growing: nothing of it has changed yet.
LEMMA ExtendGoesOn ==
  ASSUME FileInv, ~conflict, Extending, file' = file, op'.pc = "zero", op'.h = op.h,
         UNCHANGED <<astray, misled>>
  PROVE  /\ SameNames /\ SameStarts
         /\ Stays /\ OnIn(fat', place', f.name, op'.pos.cluster) => Spots' /\ CallOn'
<1>1. TypeInv /\ Spots
  BY Peaceful
<1>2. Stays => Spots'
  BY <1>1, SpotsSame DEF Extending
<1>3. OnIn(fat', place', f.name, op'.pos.cluster) => CallOn'
  BY DEF CallOn, On, f
<1> QED
  BY <1>2, <1>3, FilesUntouched

LEMMA ChainOfExtendFirst == ASSUME FileInv, ~conflict', ExtendFirst  PROVE ChainInv'
<1> DEFINE gap == op.goal - f.size
           q == Position(op.tip, (f.size % Bpc) \div Bps, f.size % Bps)
           atEdge == f.size > 0 /\ q.sector = 0 /\ q.byte = 0
           first == IF q.byte > 0 THEN Bps - q.byte ELSE 0
           At1(got) == [q EXCEPT !.cluster = got]
           At2(got) == [At1(got) EXCEPT !.byte = @ + gap]
<1>1. /\ op.pc = "walk" /\ op.then = "extend" /\ KeepNotes /\ UNCHANGED <<dir, fsInfo, astray>>
      /\ Extending
  BY DEF ExtendFirst, Walked, At, Extending
<1>2. TypeInv /\ ~conflict /\ Shape /\ Spots /\ CallOn /\ op \in Stack
  BY <1>1, Peaceful, OpFields DEF KeepNotes
<1>3. f.name \in Name /\ On(f.name, op.tip)
  BY <1>1, <1>2, ExtendingCall DEF CallOn, WalkOn
<1>4. PICK got :
        /\ IF atEdge THEN LinkFree(op.tip, f.name, got) ELSE got = op.tip /\ UNCHANGED table
        /\ \/ ExtendFailed
           \/ /\ ~(atEdge /\ ~IsValid(got)) /\ Extended(At2(got)) /\ UNCHANGED misled
           \/ /\ ~(atEdge /\ ~IsValid(got))
              /\ op' = [op EXCEPT !.pc = "zero", !.pos = After(At1(got), first),
                         !.remain = gap - first, !.off = f.size + first]
              /\ UNCHANGED <<file, misled>>
  BY DEF ExtendFirst
<1>5. At1(got).cluster = got /\ At2(got).cluster = got
  BY DEF Position
<1>6. After(At1(got), first).cluster = got
  BY <1>5, ClusterKept
<1> HIDE DEF gap, q, first, At1, At2
<1>7. ASSUME SameNames, SameStarts, op'.pc # "clear"
      PROVE  /\ Shape' /\ Stays
             /\ ~(atEdge /\ ~IsValid(got)) => OnIn(fat', place', f.name, got)
  <2>1. Quiet
    BY <1>1, <1>7 DEF Quiet, KeepNotes
  <2>2. CASE atEdge
    BY <1>2, <1>3, <1>4, <1>7, <2>1, <2>2, FrameLinked DEF IsValid
  <2>3. CASE ~atEdge
    <3>1. Shape' /\ Stays
      BY <1>2, <1>4, <1>7, <2>1, <2>3, FrameSame DEF table
    <3> QED
      BY <1>3, <1>4, <2>3, <3>1, OnStays
  <2> QED
    BY <2>2, <2>3
<1>8. CASE ExtendFailed
  BY <1>1, <1>2, <1>7, <1>8, ExtendFailedOn, Settled
<1>9. CASE ~(atEdge /\ ~IsValid(got)) /\ Extended(At2(got)) /\ UNCHANGED misled
  <2>1. SameNames /\ SameStarts /\ op'.pc # "clear"
    BY <1>1, <1>2, <1>9, ExtendedOn
  <2>2. Shape' /\ Stays /\ OnIn(fat', place', f.name, At2(got).cluster)
    BY <1>5, <1>7, <1>9, <2>1
  <2> QED
    BY <1>1, <1>2, <1>9, <2>2, ExtendedOn, Settled
<1>10. CASE /\ ~(atEdge /\ ~IsValid(got))
            /\ op' = [op EXCEPT !.pc = "zero", !.pos = After(At1(got), first),
                        !.remain = gap - first, !.off = f.size + first]
            /\ UNCHANGED <<file, misled>>
  <2>1. op'.pc = "zero" /\ op'.h = op.h /\ op'.pos.cluster = got
    BY <1>2, <1>6, <1>10 DEF Stack
  <2>2. SameNames /\ SameStarts /\ op'.pc # "clear"
    BY <1>10, <2>1, FilesUntouched
  <2>3. Shape' /\ Stays /\ OnIn(fat', place', f.name, op'.pos.cluster)
    BY <1>7, <1>10, <2>1, <2>2
  <2> QED
    BY <1>1, <1>2, <1>10, <2>1, <2>3, ExtendGoesOn, Settled
<1> QED
  BY <1>4, <1>8, <1>9, <1>10

LEMMA ChainOfExtendSector == ASSUME FileInv, ~conflict', ExtendSector  PROVE ChainInv'
<1> DEFINE P(got) == IF op.pos.sector >= Spc THEN Position(got, 0, op.pos.byte) ELSE op.pos
           full == op.pos.sector >= Spc
<1>1. op.pc = "zero" /\ KeepNotes /\ UNCHANGED <<dir, fsInfo, astray>> /\ Extending
  BY DEF ExtendSector, At, Extending
<1>2. TypeInv /\ ~conflict /\ Shape /\ Spots /\ CallOn /\ op \in Stack /\ op.pos \in Spot
  BY <1>1, Peaceful, OpFields DEF KeepNotes
<1>3. f.name \in Name /\ On(f.name, op.pos.cluster)
  BY <1>1, <1>2, ExtendingCall DEF CallOn
<1>4. PICK got :
        /\ IF full THEN LinkFree(op.pos.cluster, f.name, got)
           ELSE got = op.pos.cluster /\ UNCHANGED table
        /\ IF full /\ ~IsValid(got) THEN ExtendFailed
           ELSE /\ op' = [op EXCEPT !.pos = BySectors(P(got), 1), !.remain = @ - Bps,
                           !.off = @ + Bps]
                /\ UNCHANGED <<file, misled>>
  BY DEF ExtendSector
<1>5. ASSUME SameNames, SameStarts, op'.pc # "clear"
      PROVE  Shape' /\ Stays /\ (~(full /\ ~IsValid(got)) => OnIn(fat', place', f.name, got))
  <2>1. Quiet
    BY <1>1, <1>5 DEF Quiet, KeepNotes
  <2>2. CASE full
    BY <1>2, <1>3, <1>4, <1>5, <2>1, <2>2, FrameLinked DEF IsValid
  <2>3. CASE ~full
    <3>1. Shape' /\ Stays
      BY <1>2, <1>4, <1>5, <2>1, <2>3, FrameSame DEF table
    <3> QED
      BY <1>3, <1>4, <2>3, <3>1, OnStays
  <2> QED
    BY <2>2, <2>3
<1>6. CASE full /\ ~IsValid(got)
  BY <1>1, <1>2, <1>4, <1>5, <1>6, ExtendFailedOn, Settled
<1>7. CASE ~(full /\ ~IsValid(got))
  <2>1. P(got).cluster = got /\ BySectors(P(got), 1).cluster = got
    BY <1>2, <1>4 DEF Position, BySectors, Spot
  <2> HIDE DEF full, P
  <2>2. op'.pc = "zero" /\ op'.h = op.h /\ op'.pos.cluster = got
    BY <1>1, <1>2, <1>4, <1>7, <2>1 DEF Stack
  <2>3. SameNames /\ SameStarts /\ op'.pc # "clear"
    BY <1>4, <1>7, <2>2, FilesUntouched
  <2> QED
    BY <1>1, <1>2, <1>4, <1>5, <1>7, <2>2, <2>3, ExtendGoesOn, Settled
<1> QED
  BY <1>6, <1>7

LEMMA ChainOfExtendLast == ASSUME FileInv, ~conflict', ExtendLast  PROVE ChainInv'
<1>1. op.pc = "zero" /\ KeepNotes /\ UNCHANGED <<dir, fsInfo, astray>> /\ Extending
  BY DEF ExtendLast, At, Extending
<1>2. TypeInv /\ ~conflict /\ Shape /\ Spots /\ CallOn /\ op \in Stack /\ op.pos \in Spot
  BY <1>1, Peaceful, OpFields DEF KeepNotes
<1>3. f.name \in Name /\ On(f.name, op.pos.cluster)
  BY <1>1, <1>2, ExtendingCall DEF CallOn
<1>4. CASE Extended(op.pos) /\ UNCHANGED <<table, misled>>
  <2>1. SameNames /\ SameStarts /\ op'.pc # "clear"
    BY <1>1, <1>2, <1>4, ExtendedOn
  <2>2. Shape' /\ Stays
    BY <1>1, <1>2, <1>4, <2>1, FrameSame DEF Quiet, KeepNotes, table
  <2> QED
    BY <1>1, <1>2, <1>3, <1>4, <2>2, OnStays, ExtendedOn, Settled
<1>5. ASSUME NEW q \in Positions, NEW good \in BOOLEAN, Advance(op.pos, q, good),
             IF good THEN Extended([q EXCEPT !.byte = op.remain]) /\ UNCHANGED misled
             ELSE ExtendFailed
      PROVE  ChainInv'
  <2>1. ASSUME SameNames, SameStarts, op'.pc # "clear"
        PROVE  Shape' /\ Stays /\ OnIn(fat', place', f.name, q.cluster)
    <3>1. Quiet
      BY <1>1, <2>1 DEF Quiet, KeepNotes
    <3> QED
      BY <1>2, <1>3, <1>5, <2>1, <3>1, AdvanceOn
  <2>2. CASE good
    <3> DEFINE p == [q EXCEPT !.byte = op.remain]
    <3>1. p.cluster = q.cluster
      BY DEF Positions
    <3> HIDE DEF p
    <3>2. Extended(p) /\ UNCHANGED misled
      BY <1>5, <2>2 DEF p
    <3>3. Shape' /\ Stays /\ OnIn(fat', place', f.name, p.cluster)
      BY <1>1, <1>2, <2>1, <3>1, <3>2, ExtendedOn
    <3> QED
      BY <1>1, <1>2, <3>2, <3>3, ExtendedOn, Settled
  <2>3. CASE ~good
    BY <1>1, <1>2, <1>5, <2>1, <2>3, ExtendFailedOn, Settled
  <2> QED
    BY <2>2, <2>3
<1> QED
  BY <1>4, <1>5 DEF ExtendLast

-----------------------------------------------------------------------------
(***************************************************************************)
(* Seeks and changes of the size.                                          *)
(***************************************************************************)
LEMMA ChainOfSeek ==
  ASSUME FileInv, ~conflict', NEW h \in Handle, NEW p \in Places, Seek(h, p)
  PROVE  ChainInv'
<1> DEFINE g == file[h]
           ahead == p >= g.cur
           flagged == [g EXCEPT !.rw.sector = (p % Bpc) \div Bps, !.rw.byte = p % Bps]
           sought == [Idle EXCEPT !.pc = "walk", !.h = h, !.goal = p,
                      !.then = IF ahead THEN "seek" ELSE "rewind",
                      !.tip = IF ahead THEN g.rw.cluster ELSE g.start,
                      !.left = p \div Bpc - IF ahead THEN Counted(g) ELSE 0]
           inside == p <= g.size /\ g.start # Free
           k == IF inside THEN flagged ELSE [g EXCEPT !.cur = p]
<1>1. /\ op.pc = "idle" /\ g.inUse /\ UNCHANGED <<table, dir, fsInfo, notes>>
      /\ Becomes(h, k) /\ op' = IF inside THEN sought ELSE op
  BY DEF Seek, Call
<1>2. ~conflict /\ TypeInv /\ Shape /\ Heads /\ Spots
  BY <1>1, Peaceful DEF notes, Shape
<1>3. g \in FileStruct /\ g.rw \in Spot
  BY <1>2, FileFields DEF TypeInv, FilesOK
<1>4. /\ k.inUse = g.inUse /\ k.write = g.write /\ k.name = g.name /\ k.modified = g.modified
      /\ k.start = g.start /\ k.append = g.append /\ k.rw.cluster = g.rw.cluster /\ k.ap = g.ap
  <2>1. k.rw.cluster = g.rw.cluster
    BY <1>3 DEF FileStruct, Spot
  <2> QED
    BY <1>3, <2>1 DEF FileStruct
<1>5. IF inside THEN /\ op'.pc = "walk" /\ op'.h = h
                     /\ op'.then = IF ahead THEN "seek" ELSE "rewind"
                     /\ op'.tip = IF ahead THEN g.rw.cluster ELSE g.start
      ELSE op'.pc = "idle"
  BY <1>1 DEF Idle
<1> HIDE DEF k, ahead, sought
<1>6. SameNames /\ SameStarts /\ file'[h] = k /\ \A j \in Handle \ {h} : file'[j] = file[j]
  BY <1>1, <1>2, <1>4, NamesKept
<1>7. Shape' /\ Stays
  BY <1>1, <1>2, <1>5, <1>6, FrameSame DEF Quiet, table, notes
<1>8. Spots'
  <2>1. ~Extending /\ astray' = astray /\ misled' = misled
    BY <1>1 DEF Extending, notes
  <2>2. ASSUME h \in astray  PROVE h \in astray'
    BY <2>1, <2>2
  <2>3. ASSUME h \in misled  PROVE h \in misled'
    BY <2>1, <2>3
  <2> QED
    BY <1>2, <1>4, <1>6, <1>7, <2>1, <2>2, <2>3, SpotsMoved
<1>9. CallOn'
  <2>1. CASE ~inside
    BY <1>5, <2>1, CallEnds
  <2>2. CASE inside
    <3>1. ASSUME g.write  PROVE On(g.name, g.start)
      BY <1>1, <1>2, <2>2, <3>1, StartOn DEF Writer
    <3>2. ASSUME g.write, h \notin astray  PROVE On(g.name, g.rw.cluster)
      BY <1>1, <1>2, <2>2, <3>2 DEF Spots, TrustsRw, Writer
    <3>3. f' = k /\ (Straight' => g.write /\ h \notin astray)
      BY <1>1, <1>4, <1>5, <1>6, <2>2 DEF f, Straight, notes
    <3>4. \A c : On(g.name, c) => OnIn(fat', place', k.name, c)
      BY <1>4, <1>7, OnStays
    <3>5. WalkOn'
      BY <1>4, <1>5, <2>2, <3>1, <3>2, <3>3, <3>4 DEF WalkOn, On
    <3> QED
      BY <1>5, <2>2, <3>5 DEF CallOn
  <2> QED
    BY <2>1, <2>2
<1> QED
  BY <1>7, <1>8, <1>9, Settled

LEMMA ChainOfSought == ASSUME FileInv, ~conflict', Sought  PROVE ChainInv'
<1>1. /\ op.pc = "walk" /\ op.then \in {"seek", "rewind"} /\ op' = Idle
      /\ UNCHANGED <<table, dir, conflict, lost, misled>>
  BY DEF Sought, Walked, At, KeepNotes
<1>2. ~conflict /\ TypeInv /\ Shape /\ Spots /\ CallOn
  BY <1>1, Peaceful
<1>3. PICK k \in Handle : k = op.h
  BY <1>1, <1>2, CallFile
<1>4. f \in FileStruct /\ f = file[k] /\ f.rw \in Spot
  BY <1>1, <1>2, <1>3, CallFile, FileFields
<1>5. \/ /\ Becomes(k, [f EXCEPT !.rw.cluster = op.tip, !.cur = op.goal])
         /\ astray' = IF op.then = "rewind" THEN astray \ {k} ELSE astray
      \/ /\ Becomes(k, [f EXCEPT !.rw = Position(op.tip, Spc, 0), !.cur = op.goal])
         /\ UNCHANGED astray
      \/ UNCHANGED file /\ astray' = astray \cup {k}
  BY <1>3 DEF Sought
<1>6. f.write /\ (k \notin astray \/ op.then = "rewind") => On(f.name, op.tip)
  BY <1>1, <1>2, <1>3 DEF CallOn, WalkOn, Straight
<1>7. ~Extending /\ astray \ {k} \subseteq astray'
  BY <1>1, <1>5 DEF Extending
<1>8. CASE UNCHANGED file /\ astray' = astray \cup {k}
  <2>1. Shape' /\ Stays
    BY <1>1, <1>2, <1>8, IdleFacts, FilesUntouched, FrameSame DEF Quiet, table
  <2>2. Spots'
    BY <1>1, <1>2, <1>7, <1>8, <2>1, SpotsSame
  <2> QED
    BY <1>1, <2>1, <2>2, IdleFacts, CallEnds, Settled
<1>9. ASSUME NEW g, Becomes(k, g), g.rw.cluster = op.tip, g.ap = f.ap, g.append = f.append,
             g.inUse = f.inUse, g.write = f.write, g.name = f.name, g.modified = f.modified,
             g.start = f.start, k \in astray => k \in astray' \/ op.then = "rewind"
      PROVE  ChainInv'
  <2>1. SameNames /\ SameStarts /\ file'[k] = g /\ \A j \in Handle \ {k} : file'[j] = file[j]
    BY <1>2, <1>4, <1>9, NamesKept
  <2>2. Shape' /\ Stays
    BY <1>1, <1>2, <2>1, IdleFacts, FrameSame DEF Quiet, table
  <2>3. k \in astray' \/ ~g.write \/ OnIn(fat', place', g.name, g.rw.cluster)
    BY <1>6, <1>9, <2>2, OnStays
  <2>4. k \in misled => k \in misled'
    BY <1>1
  <2>5. Spots'
    BY <1>1, <1>2, <1>4, <1>7, <1>9, <2>1, <2>2, <2>3, <2>4, SpotsMoved
  <2> QED
    BY <1>1, <2>2, <2>5, IdleFacts, CallEnds, Settled
<1>10. CASE /\ Becomes(k, [f EXCEPT !.rw.cluster = op.tip, !.cur = op.goal])
            /\ astray' = IF op.then = "rewind" THEN astray \ {k} ELSE astray
  <2> DEFINE g == [f EXCEPT !.rw.cluster = op.tip, !.cur = op.goal]
  <2>1. /\ g.rw.cluster = op.tip /\ g.ap = f.ap /\ g.append = f.append /\ g.inUse = f.inUse
        /\ g.write = f.write /\ g.name = f.name /\ g.modified = f.modified /\ g.start = f.start
    BY <1>4 DEF FileStruct, Spot
  <2> HIDE DEF g
  <2>2. Becomes(k, g) /\ (k \in astray => k \in astray' \/ op.then = "rewind")
    BY <1>10 DEF g
  <2> QED
    BY <1>9, <2>1, <2>2
<1>11. CASE /\ Becomes(k, [f EXCEPT !.rw = Position(op.tip, Spc, 0), !.cur = op.goal])
            /\ UNCHANGED astray
  <2> DEFINE g == [f EXCEPT !.rw = Position(op.tip, Spc, 0), !.cur = op.goal]
  <2>1. /\ g.rw.cluster = op.tip /\ g.ap = f.ap /\ g.append = f.append /\ g.inUse = f.inUse
        /\ g.write = f.write /\ g.name = f.name /\ g.modified = f.modified /\ g.start = f.start
    BY <1>4 DEF FileStruct, Position
  <2> HIDE DEF g
  <2>2. Becomes(k, g) /\ (k \in astray => k \in astray' \/ op.then = "rewind")
    BY <1>11 DEF g
  <2> QED
    BY <1>9, <2>1, <2>2
<1> QED
  BY <1>5, <1>8, <1>10, <1>11

LEMMA ChainOfGrow ==
  ASSUME FileInv, ~conflict', NEW h \in Handle, NEW n \in Places, Grow(h, n)
  PROVE  ChainInv'
<1> DEFINE g == file[h]
           Growing(start) == [Idle EXCEPT !.pc = "walk", !.then = "extend", !.h = h,
                                !.tip = start, !.goal = n]
<1>1. /\ op.pc = "idle" /\ g.inUse /\ g.write
      /\ UNCHANGED <<dir, fsInfo, conflict, lost, misled>>
      /\ astray \subseteq astray' /\ ~Extending
  BY DEF Grow, Call, KeepNotes, Extending
<1>2. ~conflict /\ TypeInv /\ Shape /\ Heads /\ Spots
  BY <1>1, Peaceful DEF Shape
<1>3. g \in FileStruct /\ HandleOK(g) /\ g.name \in Name /\ Writer(h)
  BY <1>1, <1>2 DEF TypeInv, FilesOK, Handles, HandleOK, Writer
<1>4. ASSUME NEW c
      PROVE  /\ Growing(c).pc = "walk" /\ Growing(c).then = "extend" /\ Growing(c).h = h
             /\ Growing(c).tip = c
  BY DEF Idle
<1> HIDE DEF Growing
<1>5. CASE g.start # Free /\ op' = Growing(g.start) /\ UNCHANGED <<table, file>>
  <2>1. Shape' /\ Stays
    BY <1>1, <1>2, <1>4, <1>5, FilesUntouched, FrameSame DEF Quiet, table
  <2>2. Spots'
    BY <1>1, <1>2, <1>5, <2>1, SpotsSame
  <2>3. OnIn(fat', place', g.name, g.start)
    BY <1>2, <1>3, <1>5, <2>1, StartOn, OnStays
  <2>4. CallOn'
    BY <1>4, <1>5, <2>3 DEF CallOn, WalkOn, f, On
  <2> QED
    BY <2>1, <2>2, <2>4, Settled
<1>6. ASSUME g.start = Free, NEW got, LinkFree(Free, g.name, got),
             IF IsValid(got)
             THEN /\ op' = Growing(got)
                  /\ Becomes(h, [g EXCEPT !.start = got, !.rw = Position(got, 0, 0)])
             ELSE UNCHANGED <<file, op>>
      PROVE  ChainInv'
  <2>1. CASE ~IsValid(got)
    <3>1. Shape' /\ Stays
      BY <1>1, <1>2, <1>3, <1>6, <2>1, FilesUntouched, FrameFirst DEF Quiet
    <3>2. Spots'
      BY <1>1, <1>2, <1>6, <2>1, <3>1, SpotsSame
    <3> QED
      BY <1>1, <1>6, <2>1, <3>1, <3>2, CallEnds, Settled
  <2>2. CASE IsValid(got)
    <3> DEFINE k == [g EXCEPT !.start = got, !.rw = Position(got, 0, 0)]
    <3>1. /\ k.inUse = g.inUse /\ k.write = g.write /\ k.name = g.name
          /\ k.modified = g.modified /\ k.start = got /\ k.rw.cluster = got
      BY <1>3 DEF FileStruct, Position
    <3> HIDE DEF k
    <3>2. Becomes(h, k) /\ op' = Growing(got)
      BY <1>6, <2>2 DEF k
    <3>3. SameNames /\ file'[h] = k /\ \A j \in Handle \ {h} : file'[j] = file[j]
      BY <1>2, <3>1, <3>2, NamesKept
    <3>4. Shape' /\ Stays /\ OnIn(fat', place', g.name, got)
      <4>1. \A j \in Handle \ {h} : file'[j].start = file[j].start
        BY <3>3
      <4>2. file'[h].start = IF IsValid(got) THEN got ELSE Free
        BY <2>2, <3>1, <3>3
      <4> QED
        BY <1>1, <1>2, <1>3, <1>4, <1>6, <2>2, <3>2, <3>3, <4>1, <4>2, FrameFirst DEF Quiet, IsValid
    <3>5. Extending' /\ op'.h = h
      BY <1>4, <3>2 DEF Extending
    <3>6. Spots'
      <4>1. ~TrustsAp(h)'
        BY <3>5 DEF TrustsAp
      <4>2. OnIn(fat', place', file'[h].name, file'[h].rw.cluster)
        BY <3>1, <3>3, <3>4
      <4> QED
        BY <1>1, <1>2, <3>3, <3>4, <4>1, <4>2, SpotsStep
    <3>7. CallOn'
      BY <1>4, <3>1, <3>2, <3>3, <3>4 DEF CallOn, WalkOn, f, On
    <3> QED
      BY <3>4, <3>6, <3>7, Settled
  <2> QED
    BY <2>1, <2>2
<1> QED
  BY <1>5, <1>6 DEF Grow, Growing

LEMMA ChainOfSameSize ==
  ASSUME FileInv, ~conflict', NEW h \in Handle, SameSize(h)
  PROVE  ChainInv'
<1> DEFINE g == [file[h] EXCEPT !.modified = TRUE]
<1>1. /\ op.pc = "idle" /\ Becomes(h, g) /\ op' = op /\ UNCHANGED <<table, dir, fsInfo, notes>>
  BY DEF SameSize, Call
<1>2. ~conflict /\ TypeInv /\ Shape /\ Spots
  BY <1>1, Peaceful DEF notes
<1>3. /\ g.inUse = file[h].inUse /\ g.write = file[h].write /\ g.name = file[h].name
      /\ g.start = file[h].start /\ g.append = file[h].append /\ g.modified
      /\ g.rw = file[h].rw /\ g.ap = file[h].ap
  BY <1>2 DEF TypeInv, FilesOK, FileStruct
<1> HIDE DEF g
<1>4. SameNames /\ SameStarts /\ file'[h] = g /\ \A j \in Handle \ {h} : file'[j] = file[j]
  BY <1>1, <1>2, <1>3, NamesKept
<1>5. Shape' /\ Stays
  BY <1>1, <1>2, <1>4, FrameSame DEF Quiet, table, notes
<1>6. ~Extending /\ astray' = astray /\ misled' = misled
  BY <1>1 DEF Extending, notes
<1>7. (h \in astray => h \in astray') /\ (h \in misled => h \in misled')
  BY <1>6
<1>8. Spots'
  BY <1>2, <1>3, <1>4, <1>5, <1>6, <1>7, SpotsMoved
<1> QED
  BY <1>1, <1>5, <1>8, CallEnds, Settled

-----------------------------------------------------------------------------
(***************************************************************************)
(* Steps that bring entries up to date.                                    *)
(***************************************************************************)

\* The chains are as they were, and each is still found where it starts.
LEMMA ShapeOfEntries ==
  ASSUME Shape, UNCHANGED <<fat, place>>, op.pc # "clear", op'.pc # "clear",
         OneWriter', Heads', lost' = {} => lost = {},
         lost' = {} => \A c \in Cluster : Starts(c) => Starts(c)'
  PROVE  Shape' /\ Stays
<1>1. Links' /\ Stays
  BY DEF Shape, Links, Stays
<1>2. Clears'
  BY DEF Clears
<1>3. ASSUME lost' = {}, NEW c \in Cluster, fat'[c] # Free
      PROVE  (\E d \in Cluster : fat'[d] = c) \/ Starts(c)'
  BY <1>3 DEF Shape, Kept
<1> QED
  BY <1>1, <1>2, <1>3 DEF Shape, Kept

\* What a writer leaves in the entry: its chain, unless that is lost.
LEMMA SyncedStart ==
  ASSUME TypeInv, OneWriter, Heads, NEW h \in Handle, Writer(h), NEW n, n = file[h].name
  PROVE  /\ n \in Name /\ Synced(n, h) # NoEntry
         /\ Synced(n, h).start \in {file[h].start, Free}
         /\ Synced(n, h).start \in Cluster => IsFirst(n, Synced(n, h).start)
         /\ ~Unsynced(h) => Synced(n, h).start = file[h].start
<1>1. n \in Name /\ file[h].start \in Cluster \cup {Free} /\ file[h].inUse /\ file[h].write
  BY FileFields DEF TypeInv, FilesOK, Handles, HandleOK, Writer
<1>2. dir[n] # NoEntry /\ (~file[h].modified => dir[n].start \in {file[h].start, Free})
  BY DEF OneWriter
<1>3. CASE file[h].modified
  <2>1. Synced(n, h) = Entry(file[h].start, file[h].size)
    BY <1>1, <1>2, <1>3 DEF Synced, SyncEntry
  <2>2. Synced(n, h).start = file[h].start
    BY <2>1 DEF Entry
  <2>3. NoEntry.start = Eof
    BY DEF NoEntry, Entry
  <2> QED
    BY <1>1, <2>2, <2>3, Outside DEF Heads
<1>4. CASE ~file[h].modified
  <2>1. Synced(n, h) = dir[n]
    BY <1>4 DEF Synced
  <2>2. ~Unsynced(h) => file[h].start = dir[n].start
    BY <1>1, <1>4 DEF Unsynced
  <2>3. dir[n].start \in Cluster => dir[n].start = file[h].start
    BY <1>2, <1>4, Outside
  <2> QED
    BY <1>1, <1>2, <1>4, <2>1, <2>2, <2>3 DEF Heads
<1> QED
  BY <1>3, <1>4

LEMMA ChainOfFsync ==
  ASSUME FileInv, ~conflict', NEW h \in Handle, Fsync(h)
  PROVE  ChainInv'
<1> DEFINE g == file[h]
           k == [g EXCEPT !.modified = FALSE]
<1>1. /\ op.pc = "idle" /\ g.inUse /\ Becomes(h, k) /\ op' = op
      /\ dir' = [dir EXCEPT ![g.name] = Synced(g.name, h)]
      /\ UNCHANGED <<table, fsInfo, notes>>
  BY DEF Fsync, Call
<1>2. ~conflict /\ TypeInv /\ Shape /\ OneWriter /\ Heads /\ Spots
  BY <1>1, Peaceful DEF notes, Shape
<1>3. /\ k.inUse = g.inUse /\ k.write = g.write /\ k.name = g.name
      /\ k.start = g.start /\ k.append = g.append /\ ~k.modified
      /\ k.rw = g.rw /\ k.ap = g.ap
  BY <1>2 DEF TypeInv, FilesOK, FileStruct
<1> HIDE DEF k
<1>4. file'[h] = k /\ \A j \in Handle \ {h} : file'[j] = file[j]
  BY <1>1, <1>2 DEF Becomes, TypeInv, FilesOK
<1>5. g.name \in Name /\ \A m \in Name : dir'[m] = IF m = g.name THEN Synced(m, h) ELSE dir[m]
  BY <1>1, <1>2 DEF TypeInv, DiscOK, FilesOK, Handles, HandleOK
<1>6. ~g.write => Synced(g.name, h) = dir[g.name]
  BY DEF Synced
<1>7. \A j \in Handle : /\ Writer(j)' <=> Writer(j)
                        /\ file'[j].name = file[j].name /\ file'[j].start = file[j].start
  BY <1>3, <1>4 DEF Writer
<1>8. \A m \in Name : Unwritten(m)' <=> Unwritten(m)
  BY <1>7 DEF Unwritten
<1>9. \A m \in Name : Unwritten(m) => dir'[m] = dir[m]
  BY <1>1, <1>5, <1>6 DEF Unwritten, Writer
<1>10. OneWriter'
  <2>1. ASSUME NEW i \in Handle, NEW j \in Handle, Writer(i)', Writer(j)',
               file'[i].name = file'[j].name
        PROVE  i = j
    BY <1>2, <1>7, <2>1 DEF OneWriter
  <2>2. ASSUME NEW j \in Handle, Writer(j)'
        PROVE  /\ dir'[file'[j].name] # NoEntry
               /\ ~file'[j].modified => dir'[file'[j].name].start \in {file'[j].start, Free}
    <3>1. Writer(j) /\ file[j].name \in Name
      BY <1>2, <1>7, <2>2 DEF TypeInv, FilesOK, Handles, HandleOK, Writer
    <3>2. CASE j = h
      <4>1. dir'[g.name] = Synced(g.name, h)
        BY <1>5
      <4>2. Synced(g.name, h) # NoEntry /\ Synced(g.name, h).start \in {g.start, Free}
        BY <1>2, <3>1, <3>2, SyncedStart
      <4> QED
        BY <1>7, <3>2, <4>1, <4>2
    <3>3. CASE j # h
      <4>1. file[j].name = g.name => ~g.write
        BY <1>1, <1>2, <3>1, <3>3 DEF OneWriter, Writer
      <4>2. dir'[file[j].name] = dir[file[j].name]
        BY <1>5, <1>6, <3>1, <4>1
      <4> QED
        BY <1>2, <1>4, <3>1, <3>3, <4>2 DEF OneWriter
    <3> QED
      BY <3>2, <3>3
  <2> QED
    BY <2>1, <2>2 DEF OneWriter
<1>11. Heads'
  <2>1. fat' = fat /\ place' = place
    BY <1>1 DEF table
  <2>2. \A m, c : IsFirst(m, c) => fat'[c] # Free /\ place'[c].of = m /\ place'[c].rank = 0
    BY <2>1 DEF IsFirst
  <2>3. ASSUME NEW j \in Handle, Writer(j)', file'[j].start \in Cluster
        PROVE  IsFirst(file[j].name, file[j].start)'
    <3>1. IsFirst(file[j].name, file[j].start)
      BY <1>2, <1>7, <2>3 DEF Heads
    <3> QED
      BY <1>7, <2>2, <3>1 DEF IsFirst
  <2>4. ASSUME NEW m \in Name, Unwritten(m)', dir'[m].start \in Cluster
        PROVE  IsFirst(m, dir[m].start)'
    <3>1. IsFirst(m, dir[m].start) /\ dir'[m] = dir[m]
      BY <1>2, <1>8, <1>9, <2>4 DEF Heads
    <3> QED
      BY <2>2, <3>1 DEF IsFirst
  <2> QED
    BY <2>3, <2>4 DEF Heads
<1>12. ASSUME NEW c, Starts(c)  PROVE Starts(c)'
  BY <1>7, <1>8, <1>9, <1>12 DEF Starts
<1>13. Shape' /\ Stays
  <2>1. lost' = lost
    BY <1>1 DEF notes
  <2> QED
    BY <1>1, <1>2, <1>10, <1>11, <1>12, <2>1, ShapeOfEntries DEF table
<1>14. ~Extending /\ astray' = astray /\ misled' = misled
  BY <1>1 DEF Extending, notes
<1>15. (h \in astray => h \in astray') /\ (h \in misled => h \in misled')
  BY <1>14
<1>16. Spots'
  BY <1>2, <1>3, <1>4, <1>13, <1>14, <1>15, SpotsMoved
<1> QED
  BY <1>1, <1>13, <1>16, CallEnds, Settled

LEMMA ClosedFacts == ~Closed.inUse /\ Closed.start = Free
BY DEF Closed

LEMMA ChainOfClose ==
  ASSUME FileInv, ~conflict', NEW h \in Handle, Close(h)
  PROVE  ChainInv'
<1> DEFINE g == file[h]
<1>1. /\ op.pc = "idle" /\ g.inUse /\ Becomes(h, Closed) /\ op' = op
      /\ dir' = [dir EXCEPT ![g.name] = Synced(g.name, h)]
      /\ lost' = IF Unsynced(h) THEN lost \cup {g.name} ELSE lost
      /\ astray' = astray \ {h} /\ misled' = misled \ {h}
      /\ UNCHANGED <<table, fsInfo, conflict>>
  BY DEF Close, Call
<1>2. ~conflict /\ TypeInv /\ Shape /\ OneWriter /\ Heads /\ Spots
  BY <1>1, Peaceful DEF Shape
<1>3. file'[h] = Closed /\ \A j \in Handle \ {h} : file'[j] = file[j]
  BY <1>1, <1>2 DEF Becomes, TypeInv, FilesOK
<1>4. g.name \in Name /\ \A m \in Name : dir'[m] = IF m = g.name THEN Synced(m, h) ELSE dir[m]
  BY <1>1, <1>2 DEF TypeInv, DiscOK, FilesOK, Handles, HandleOK
<1>5. ~g.write => Synced(g.name, h) = dir[g.name] /\ ~Unsynced(h)
  BY DEF Synced, Unsynced
<1>6. \A j \in Handle : Writer(j)' <=> Writer(j) /\ j # h
  BY <1>3, ClosedFacts DEF Writer
<1>7. \A j \in Handle : Writer(j)' => file'[j] = file[j] /\ Writer(j) /\ j # h
  BY <1>3, <1>6
<1>8. \A m \in Name : Unwritten(m) => Unwritten(m)' /\ dir'[m] = dir[m]
  BY <1>1, <1>4, <1>5, <1>7 DEF Unwritten, Writer
<1>9. \A m \in Name : Unwritten(m)' => Unwritten(m) \/ (m = g.name /\ Writer(h))
  BY <1>1, <1>3, <1>6 DEF Unwritten
<1>10. ASSUME NEW m \in Name, m = g.name, Writer(h)  PROVE Unwritten(m)'
  BY <1>2, <1>7, <1>10 DEF Unwritten, OneWriter
<1>11. OneWriter'
  <2>1. ASSUME NEW i \in Handle, NEW j \in Handle, Writer(i)', Writer(j)',
               file'[i].name = file'[j].name
        PROVE  i = j
    BY <1>2, <1>7, <2>1 DEF OneWriter
  <2>2. ASSUME NEW j \in Handle, Writer(j)'
        PROVE  /\ dir'[file'[j].name] # NoEntry
               /\ ~file'[j].modified => dir'[file'[j].name].start \in {file'[j].start, Free}
    <3>1. Writer(j) /\ file[j].name \in Name /\ j # h /\ file'[j] = file[j]
      BY <1>2, <1>7, <2>2 DEF TypeInv, FilesOK, Handles, HandleOK, Writer
    <3>2. file[j].name = g.name => ~g.write
      BY <1>1, <1>2, <3>1 DEF OneWriter, Writer
    <3>3. dir'[file[j].name] = dir[file[j].name]
      BY <1>4, <1>5, <3>1, <3>2
    <3> QED
      BY <1>2, <3>1, <3>3 DEF OneWriter
  <2> QED
    BY <2>1, <2>2 DEF OneWriter
<1>12. Heads'
  <2>1. \A m, c : IsFirst(m, c) => fat'[c] # Free /\ place'[c].of = m /\ place'[c].rank = 0
    BY <1>1 DEF IsFirst, table
  <2>2. ASSUME NEW j \in Handle, Writer(j)', file'[j].start \in Cluster
        PROVE  IsFirst(file[j].name, file[j].start)'
    <3>1. IsFirst(file[j].name, file[j].start) /\ file'[j] = file[j]
      BY <1>2, <1>7, <2>2 DEF Heads
    <3> QED
      BY <2>1, <3>1 DEF IsFirst
  <2>3. ASSUME NEW m \in Name, Unwritten(m)', dir'[m].start \in Cluster
        PROVE  IsFirst(m, dir[m].start)'
    <3>1. CASE Unwritten(m)
      <4>1. IsFirst(m, dir[m].start) /\ dir'[m] = dir[m]
        BY <1>2, <1>8, <2>3, <3>1 DEF Heads
      <4> QED
        BY <2>1, <4>1 DEF IsFirst
    <3>2. CASE m = g.name /\ Writer(h)
      <4>1. dir'[m] = Synced(m, h) /\ IsFirst(m, Synced(m, h).start)
        BY <1>2, <1>4, <2>3, <3>2, SyncedStart
      <4> QED
        BY <2>1, <4>1 DEF IsFirst
    <3> QED
      BY <1>9, <2>3, <3>1, <3>2
  <2> QED
    BY <2>2, <2>3 DEF Heads
<1>13. ASSUME lost' = {}, NEW c \in Cluster, Starts(c)
       PROVE  Starts(c)'
  <2>1. ~Unsynced(h)
    BY <1>1, <1>13
  <2>2. CASE \E j \in Handle : Writer(j) /\ file[j].start = c /\ j # h
    BY <1>3, <1>6, <2>2 DEF Starts
  <2>3. CASE Writer(h) /\ g.start = c
    <3>1. PICK m \in Name : m = g.name
      BY <1>4
    <3>2. dir'[m].start = c /\ Unwritten(m)'
      BY <1>2, <1>4, <1>10, <2>1, <2>3, <3>1, SyncedStart
    <3> QED
      BY <3>2 DEF Starts
  <2>4. CASE \E m \in Name : Unwritten(m) /\ dir[m].start = c
    BY <1>8, <2>4 DEF Starts
  <2> QED
    BY <1>13, <2>2, <2>3, <2>4 DEF Starts
<1>14. Shape' /\ Stays
  <2>1. lost' = {} => lost = {}
    BY <1>1
  <2> QED
    BY <1>1, <1>2, <1>11, <1>12, <1>13, <2>1, ShapeOfEntries DEF table
<1>15. Spots'
  <2>1. ~TrustsRw(h)' /\ ~TrustsAp(h)' /\ ~Extending
    BY <1>1, <1>6 DEF TrustsRw, TrustsAp, Extending
  <2> QED
    BY <1>1, <1>2, <1>3, <1>14, <2>1, SpotsStep
<1> QED
  BY <1>1, <1>14, <1>15, CallEnds, Settled

LEMMA ChainOfStatvfs == ASSUME FileInv, ~conflict', Statvfs  PROVE ChainInv'
<1>1. /\ op.pc = "idle" /\ op' = op /\ UNCHANGED <<fat, place, dir, file, notes>>
  BY DEF Statvfs, Call
<1>2. Calm
  BY <1>1 DEF Calm, Extending, notes
<1> QED
  BY <1>1, <1>2, CalmStep, CallEnds, Settled

LEMMA ChainOfRemount == ASSUME FileInv, ~conflict', Remount  PROVE ChainInv'
<1> DEFINE TheWriter(n) == CHOOSE h \in Writers(n) : TRUE
<1>1. /\ op.pc = "idle" /\ op' = op /\ UNCHANGED <<fat, place, conflict>>
      /\ dir' = [n \in Name |-> IF Writers(n) = {} THEN dir[n] ELSE Synced(n, TheWriter(n))]
      /\ file' = [h \in Handle |-> Closed]
      /\ lost' = lost \cup {file[h].name : h \in {g \in Handle : file[g].inUse /\ Unsynced(g)}}
  BY DEF Remount, Call
<1>2. ~conflict /\ TypeInv /\ Shape /\ OneWriter /\ Heads
  BY <1>1, Peaceful DEF Shape
<1>3. \A h \in Handle : ~Writer(h)'
  BY <1>1, ClosedFacts DEF Writer
<1>4. \A n \in Name : Unwritten(n)'
  BY <1>3 DEF Unwritten
<1>5. ASSUME NEW h \in Handle, Writer(h)
      PROVE  file[h].name \in Name /\ dir'[file[h].name] = Synced(file[h].name, h)
  <2>1. file[h].name \in Name /\ h \in Writers(file[h].name)
    BY <1>2, <1>5 DEF Writers, OpenOn, Writer, TypeInv, FilesOK, Handles, HandleOK
  <2>2. \A j \in Writers(file[h].name) : j = h
    BY <1>2, <1>5 DEF Writers, OpenOn, Writer, OneWriter
  <2>3. TheWriter(file[h].name) = h
    BY <2>1, <2>2
  <2> QED
    BY <1>1, <2>1, <2>3
<1>6. ASSUME NEW n \in Name, Unwritten(n)  PROVE dir'[n] = dir[n]
  <2>1. Writers(n) = {}
    BY <1>6 DEF Writers, OpenOn, Unwritten, Writer
  <2> QED
    BY <1>1, <2>1
<1>7. OneWriter'
  BY <1>3 DEF OneWriter
<1>8. Heads'
  <2>1. \A m, c : IsFirst(m, c) => fat'[c] # Free /\ place'[c].of = m /\ place'[c].rank = 0
    BY <1>1 DEF IsFirst
  <2>2. ASSUME NEW n \in Name, dir'[n].start \in Cluster
        PROVE  IsFirst(n, dir[n].start)'
    <3>1. CASE Unwritten(n)
      <4>1. dir'[n] = dir[n]
        BY <1>6, <3>1
      <4>2. IsFirst(n, dir[n].start)
        BY <1>2, <2>2, <3>1, <4>1 DEF Heads
      <4> QED
        BY <2>1, <4>1, <4>2 DEF IsFirst
    <3>2. CASE ~Unwritten(n)
      <4>1. PICK h \in Handle : Writer(h) /\ file[h].name = n
        BY <3>2 DEF Unwritten
      <4>2. dir'[n] = Synced(n, h)
        BY <1>5, <4>1
      <4>3. IsFirst(n, Synced(n, h).start)
        BY <1>2, <2>2, <4>1, <4>2, SyncedStart
      <4> QED
        BY <2>1, <4>2, <4>3 DEF IsFirst
    <3> QED
      BY <3>1, <3>2
  <2> QED
    BY <1>3, <2>2 DEF Heads
<1>9. ASSUME lost' = {}, NEW c \in Cluster, Starts(c)
      PROVE  Starts(c)'
  <2>1. CASE \E n \in Name : Unwritten(n) /\ dir[n].start = c
    BY <1>4, <1>6, <2>1 DEF Starts
  <2>2. CASE \E h \in Handle : Writer(h) /\ file[h].start = c
    <3>1. PICK h \in Handle : Writer(h) /\ file[h].start = c
      BY <2>2
    <3>2. ~Unsynced(h)
      <4>1. Unsynced(h) => file[h].name \in lost'
        BY <1>1, <3>1 DEF Writer
      <4> QED
        BY <1>9, <4>1
    <3>3. Synced(file[h].name, h).start = c
      BY <1>2, <3>1, <3>2, SyncedStart
    <3> QED
      BY <1>4, <1>5, <3>1, <3>3 DEF Starts
  <2> QED
    BY <1>9, <2>1, <2>2 DEF Starts
<1>10. Shape'
  <2>1. lost' = {} => lost = {}
    BY <1>1
  <2> QED
    BY <1>1, <1>2, <1>7, <1>8, <1>9, <2>1, ShapeOfEntries
<1>11. Spots'
  BY <1>3 DEF Spots, TrustsRw, TrustsAp
<1> QED
  BY <1>1, <1>10, <1>11, CallEnds, Settled

-----------------------------------------------------------------------------
(***************************************************************************)
(* Steps that give chains back.                                            *)
(***************************************************************************)

\* A first cluster, and only that, has nothing before it.
LEMMA StartsAreFirst ==
  ASSUME Heads, NEW c \in Cluster, Starts(c)
  PROVE  \E n \in {file[h].name : h \in Handle} \cup Name : IsFirst(n, c)
BY DEF Heads, Starts

LEMMA NothingBeforeFirst ==
  ASSUME TypeInv, Links, NEW n, NEW c \in Cluster, IsFirst(n, c), NEW d \in Cluster
  PROVE  fat[d] # c
<1>1. place[d].rank \in Nat /\ place[c].rank = 0
  BY DEF IsFirst, TypeInv, TableOK, PlaceType
<1>2. fat[d] = c => place[c].rank = place[d].rank + 1
  BY DEF Links
<1> QED
  BY <1>1, <1>2

LEMMA LinkedIsNoStart ==
  ASSUME TypeInv, Links, Heads, NEW d \in Cluster, fat[d] \in Cluster
  PROVE  ~Starts(fat[d])
BY NothingBeforeFirst, StartsAreFirst

LEMMA ChainOfClear == ASSUME FileInv, ~conflict', Clear  PROVE ChainInv'
<1> DEFINE c == op.tip
           next == NextOf(c)
<1>1. /\ op.pc = "clear" /\ fat' = Cleared(c) /\ UNCHANGED <<dir, file, fsInfo, notes>>
      /\ place' = [d \in Cluster |-> IF d = c THEN NoPlace ELSE place[d]]
      /\ op' = IF Ends(next) THEN Idle ELSE Clearing(next)
  BY DEF Clear, At, ClearLink
<1>2. ~conflict /\ TypeInv /\ Shape /\ OneWriter /\ Links /\ Heads /\ Kept /\ Spots
  BY <1>1, Peaceful DEF notes, Shape
<1>3. c = Beyond \/ (c \in Cluster /\ CutOff(c))
  BY <1>1, <1>2 DEF Shape, Clears
<1>4. next \in Link
  BY <1>2, NextInLink
<1>5. IF Ends(next) THEN op'.pc = "idle" ELSE op'.pc = "clear" /\ op'.tip = next
  BY <1>1, <1>4, IdleFacts, ClearingFacts
<1>6. SameNames /\ SameStarts /\ ~Extending /\ ~Extending'
  BY <1>1, <1>5, FilesUntouched DEF Extending
<1>7. /\ \A d \in Cluster : fat'[d] = IF d = c THEN Free ELSE fat[d]
      /\ \A d \in Cluster \ {c} : place'[d] = place[d]
  BY <1>1 DEF Cleared
<1>8. OneWriter'
  BY <1>1, <1>2, <1>6, OneWriterStays
<1>9. c \in Cluster =>
        /\ fat[c] # Free /\ next = fat[c] /\ ~Starts(c) /\ \A d \in Cluster : fat[d] # c
  BY <1>3, Outside DEF NextOf, CutOff
<1>10. Links'
  <2>1. ASSUME NEW d \in Cluster, fat'[d] \in Cluster
        PROVE  d # c /\ fat'[d] = fat[d] /\ fat[d] # c
    BY <1>7, <1>9, <2>1, Outside
  <2>2. ASSUME NEW d \in Cluster, fat'[d] \in Cluster
        PROVE  /\ place'[fat'[d]].of = place'[d].of
               /\ place'[fat'[d]].rank = place'[d].rank + 1
               /\ fat'[fat'[d]] # Free
    <3>1. d # c /\ fat'[d] = fat[d] /\ fat[d] # c /\ fat[d] \in Cluster
      BY <2>1, <2>2
    <3>2. /\ place[fat[d]].of = place[d].of /\ place[fat[d]].rank = place[d].rank + 1
          /\ fat[fat[d]] # Free
      BY <1>2, <3>1 DEF Links
    <3> QED
      BY <1>7, <3>1, <3>2
  <2>3. ASSUME NEW d \in Cluster, NEW e \in Cluster, fat'[d] \in Cluster, fat'[d] = fat'[e]
        PROVE  d = e
    BY <1>2, <2>1, <2>3 DEF Links
  <2> QED
    BY <2>2, <2>3 DEF Links
<1>11. \A x : Starts(x)' <=> Starts(x)
  BY <1>1 DEF Starts, Writer, Unwritten
<1>12. \A n, x : x \in Cluster /\ x # c /\ IsFirst(n, x) =>
         fat'[x] # Free /\ place'[x].of = n /\ place'[x].rank = 0
  BY <1>7 DEF IsFirst
<1>13. Heads'
  <2>1. ASSUME NEW h \in Handle, Writer(h)', file'[h].start \in Cluster
        PROVE  IsFirst(file[h].name, file[h].start)'
    <3>1. Writer(h) /\ IsFirst(file[h].name, file[h].start) /\ file' = file
      BY <1>1, <1>2, <2>1 DEF Heads, Writer
    <3>2. file[h].start # c
      BY <1>9, <2>1, <3>1 DEF Starts
    <3> QED
      BY <1>12, <2>1, <3>1, <3>2 DEF IsFirst
  <2>2. ASSUME NEW n \in Name, Unwritten(n)', dir'[n].start \in Cluster
        PROVE  IsFirst(n, dir[n].start)'
    <3>1. Unwritten(n) /\ IsFirst(n, dir[n].start) /\ dir' = dir
      BY <1>1, <1>2, <2>2 DEF Heads, Unwritten, Writer
    <3>2. dir[n].start # c
      BY <1>9, <2>2, <3>1 DEF Starts
    <3> QED
      BY <1>12, <2>2, <3>1, <3>2 DEF IsFirst
  <2> QED
    BY <2>1, <2>2 DEF Heads
<1>14. Kept'
  <2>1. ASSUME lost' = {}, NEW x \in Cluster, fat'[x] # Free
        PROVE  \/ \E d \in Cluster : fat'[d] = x
               \/ Starts(x)'
               \/ op'.pc = "clear" /\ op'.tip = x
    <3>1. x # c /\ fat[x] # Free
      BY <1>7, <2>1
    <3>2. (\E d \in Cluster : fat[d] = x) \/ Starts(x)
      BY <1>1, <1>2, <2>1, <3>1 DEF Kept, notes
    <3>3. ASSUME NEW d \in Cluster, fat[d] = x, d # c  PROVE fat'[d] = x
      BY <1>7, <3>3
    <3>4. c \in Cluster /\ fat[c] = x => op'.pc = "clear" /\ op'.tip = x
      BY <1>5, <1>9, Outside DEF Ends
    <3> QED
      BY <1>11, <3>2, <3>3, <3>4
  <2> QED
    BY <2>1 DEF Kept
<1>15. Clears'
  <2> SUFFICES ASSUME ~Ends(next), next # Beyond
               PROVE  next \in Cluster /\ CutOff(op.tip)'
    BY <1>5 DEF Clears
  <2>1. next \in Cluster
    BY <1>4 DEF Ends, Link
  <2>2. c \in Cluster /\ next = fat[c]
    BY <1>2, <1>3, <1>9, <2>1, Outside DEF NextOf, TypeInv, TableOK, TableType
  <2>3. /\ place[next].of = place[c].of /\ place[next].rank = place[c].rank + 1
        /\ fat[next] # Free /\ next # c
    BY <1>2, <1>9, <2>1, <2>2 DEF Links
  <2>4. fat'[next] # Free /\ place'[next] = place[next] /\ op'.tip = next
    BY <1>5, <1>7, <2>1, <2>3
  <2>5. ASSUME NEW d \in Cluster  PROVE fat'[d] # next
    <3>1. CASE d = c
      BY <1>7, <2>1, <3>1, Outside
    <3>2. CASE d # c
      <4>1. fat[d] # fat[c]
        BY <1>2, <2>1, <2>2, <3>2 DEF Links
      <4> QED
        BY <1>7, <2>2, <3>2, <4>1
    <3> QED
      BY <3>1, <3>2
  <2>6. ~Starts(next)
    BY <1>2, <2>1, <2>2, LinkedIsNoStart
  <2>7. ASSUME NEW n, NEW p, Before(n, p, c), p \in Cluster, place'[next].of = n
        PROVE  place'[p].rank < place'[next].rank
    <3>1. place[p].rank < place[c].rank /\ p # c
      <4>1. place[p].rank < place[c].rank
        BY <2>3, <2>4, <2>7 DEF Before
      <4>2. place[c].rank \in Nat
        BY <1>2, <2>2 DEF TypeInv, TableOK, PlaceType
      <4> QED
        BY <4>1, <4>2
    <3>2. place'[p] = place[p] /\ place[p].rank \in Nat /\ place[c].rank \in Nat
      BY <1>2, <1>7, <2>2, <2>7, <3>1 DEF TypeInv, TableOK, PlaceType
    <3> QED
      BY <2>3, <2>4, <3>1, <3>2
  <2>8. ASSUME NEW h \in Handle
        PROVE  /\ TrustsRw(h)' => TrustsRw(h)
               /\ TrustsAp(h)' => TrustsAp(h)
    BY <1>1, <1>6 DEF TrustsRw, TrustsAp, Writer, notes
  <2>9. ASSUME NEW h \in Handle
        PROVE  /\ TrustsRw(h) => Before(file[h].name, file[h].rw.cluster, c)
               /\ TrustsAp(h) => Before(file[h].name, file[h].ap.cluster, c)
    BY <1>3, <2>2, Outside DEF CutOff
  <2>10. ASSUME NEW h \in Handle
         PROVE  /\ TrustsRw(h)' => Before(file[h].name, file[h].rw.cluster, op.tip)'
                /\ TrustsAp(h)' => Before(file[h].name, file[h].ap.cluster, op.tip)'
    <3>1. file' = file /\ op'.tip = next
      BY <1>1, <2>4
    <3>2. ASSUME TrustsRw(h)', file'[h].rw.cluster \in Cluster, place'[op'.tip].of = file'[h].name
          PROVE  place'[file'[h].rw.cluster].rank < place'[op'.tip].rank
      BY <2>7, <2>8, <2>9, <3>1, <3>2
    <3>3. ASSUME TrustsAp(h)', file'[h].ap.cluster \in Cluster, place'[op'.tip].of = file'[h].name
          PROVE  place'[file'[h].ap.cluster].rank < place'[op'.tip].rank
      BY <2>7, <2>8, <2>9, <3>1, <3>3
    <3> QED
      BY <3>2, <3>3 DEF Before
  <2> QED
    BY <1>11, <2>1, <2>4, <2>5, <2>6, <2>10 DEF CutOff
<1>16. Spots'
  <2>1. ASSUME NEW n, NEW p, On(n, p), Before(n, p, c) \/ c = Beyond
        PROVE  OnIn(fat', place', n, p)
    <3>1. CASE p = Beyond
      BY <3>1 DEF OnIn
    <3>2. CASE p \in Cluster
      <4>1. fat[p] # Free /\ place[p].of = n
        BY <2>1, <3>2, Outside DEF On, OnIn
      <4>2. p # c
        <5>1. place[p].rank \in Nat
          BY <1>2, <3>2 DEF TypeInv, TableOK, PlaceType
        <5> QED
          BY <2>1, <3>2, <4>1, <5>1, Outside DEF Before
      <4> QED
        BY <1>7, <3>2, <4>1, <4>2 DEF OnIn
    <3> QED
      BY <2>1, <3>1, <3>2 DEF On, OnIn
  <2>2. ASSUME NEW h \in Handle
        PROVE  /\ TrustsRw(h)' => TrustsRw(h)
               /\ TrustsAp(h)' => TrustsAp(h)
    BY <1>1, <1>6 DEF TrustsRw, TrustsAp, Writer, notes
  <2>3. ASSUME NEW h \in Handle, TrustsRw(h)
        PROVE  OnIn(fat', place', file[h].name, file[h].rw.cluster)
    <3>1. On(file[h].name, file[h].rw.cluster)
      BY <1>2, <2>3 DEF Spots
    <3>2. Before(file[h].name, file[h].rw.cluster, c) \/ c = Beyond
      BY <1>3, <2>3 DEF CutOff
    <3> QED
      BY <2>1, <3>1, <3>2
  <2>4. ASSUME NEW h \in Handle, TrustsAp(h)
        PROVE  OnIn(fat', place', file[h].name, file[h].ap.cluster)
    <3>1. On(file[h].name, file[h].ap.cluster)
      BY <1>2, <2>4 DEF Spots
    <3>2. Before(file[h].name, file[h].ap.cluster, c) \/ c = Beyond
      BY <1>3, <2>4 DEF CutOff
    <3> QED
      BY <2>1, <3>1, <3>2
  <2>5. ASSUME NEW h \in Handle
        PROVE  /\ TrustsRw(h)' => OnIn(fat', place', file'[h].name, file'[h].rw.cluster)
               /\ TrustsAp(h)' => OnIn(fat', place', file'[h].name, file'[h].ap.cluster)
    <3>1. file' = file
      BY <1>1
    <3> QED
      BY <2>2, <2>3, <2>4, <3>1
  <2> QED
    BY <2>5 DEF Spots, On
<1> QED
  BY <1>5, <1>8, <1>10, <1>13, <1>14, <1>15, <1>16, CallEnds, Settled DEF Shape

\* A name gives up its first cluster: all of its chain is about to be given back.
LEMMA CutLoose ==
  ASSUME TypeInv, Shape, op.pc # "clear", UNCHANGED <<fat, place>>, OneWriter', Heads',
         NEW n \in Name, NEW c \in Cluster, IsFirst(n, c),
         op'.pc = "clear", op'.tip = c, lost' = lost,
         \A x \in Cluster : Starts(x) /\ x # c => Starts(x)',
         \A h \in Handle : Writer(h)' /\ file'[h].name = n => file'[h].start = Free,
         Unwritten(n)' => dir'[n].start \notin Cluster
  PROVE  Shape' /\ Stays /\ CallOn'
<1>1. Links' /\ Links /\ Stays /\ Heads /\ Kept
  BY DEF Shape, Links, Stays
<1>2. Kept'
  <2>1. ASSUME lost' = {}, NEW x \in Cluster, fat'[x] # Free, x # c
        PROVE  (\E d \in Cluster : fat'[d] = x) \/ Starts(x)'
    BY <1>1, <2>1 DEF Kept
  <2> QED
    BY <2>1 DEF Kept
<1>3. fat[c] # Free /\ place[c].of = n
  BY DEF IsFirst
<1>4. ~Starts(op.tip)'
  <2>1. ASSUME NEW h \in Handle, Writer(h)', file'[h].start = c  PROVE FALSE
    <3>1. place'[c].of = file'[h].name
      BY <2>1 DEF Heads, IsFirst
    <3> QED
      BY <1>3, <2>1, <3>1, Outside
  <2>2. ASSUME NEW m \in Name, Unwritten(m)', dir'[m].start = c  PROVE FALSE
    <3>1. place'[c].of = m
      BY <2>2 DEF Heads, IsFirst
    <3> QED
      BY <1>3, <2>2, <3>1
  <2> QED
    BY <2>1, <2>2 DEF Starts
<1>5. \A d \in Cluster : fat'[d] # c
  BY <1>1, NothingBeforeFirst
<1>6. ASSUME NEW h \in Handle, TrustsRw(h)' \/ TrustsAp(h)'
      PROVE  \A p : Before(file'[h].name, p, c)
  <2>1. file'[h].name # n
    BY <1>6 DEF TrustsRw, TrustsAp
  <2> QED
    BY <1>3, <2>1 DEF Before
<1>7. Clears'
  <2>1. ASSUME NEW h \in Handle
        PROVE  /\ TrustsRw(h)' => Before(file[h].name, file[h].rw.cluster, op.tip)'
               /\ TrustsAp(h)' => Before(file[h].name, file[h].ap.cluster, op.tip)'
    BY <1>6 DEF Before
  <2> QED
    BY <1>3, <1>4, <1>5, <2>1 DEF Clears, CutOff
<1> QED
  BY <1>1, <1>2, <1>7, CallEnds DEF Shape

LEMMA ChainOfUnlink ==
  ASSUME FileInv, ~conflict', NEW n \in Name, Unlink(n)
  PROVE  ChainInv'
<1> DEFINE c == dir[n].start
<1>1. /\ op.pc = "idle" /\ dir' = [dir EXCEPT ![n] = NoEntry]
      /\ IF IsValid(c) THEN op' = Clearing(c) ELSE op' = op
      /\ UNCHANGED <<fat, place, file, astray, misled, lost>> /\ ~conflict /\ Writers(n) = {}
  BY DEF Unlink, Call
<1>2. TypeInv /\ Shape /\ OneWriter /\ Heads /\ Spots
  BY <1>1, Peaceful DEF Shape
<1>3. \A m \in Name : dir'[m] = IF m = n THEN NoEntry ELSE dir[m]
  BY <1>1, <1>2 DEF TypeInv, DiscOK
<1>4. dir'[n].start \notin Cluster
  BY <1>3, Outside DEF NoEntry, Entry
<1>5. Unwritten(n) /\ \A h \in Handle : Writer(h) => file[h].name # n /\ file[h].name \in Name
  <2>1. \A h \in Handle : ~(Writer(h) /\ file[h].name = n)
    BY <1>1 DEF Writers, OpenOn, Writer
  <2>2. \A h \in Handle : Writer(h) => file[h].name \in Name
    BY <1>2 DEF Writer, TypeInv, FilesOK, Handles, HandleOK
  <2> QED
    BY <2>1, <2>2 DEF Unwritten
<1>6. /\ \A h \in Handle : Writer(h)' <=> Writer(h)
      /\ \A m \in Name : Unwritten(m)' <=> Unwritten(m)
  BY <1>1 DEF Writer, Unwritten
<1>7. OneWriter'
  BY <1>1, <1>2, <1>3, <1>5, <1>6 DEF OneWriter
<1>8. Heads'
  <2>1. ASSUME NEW h \in Handle, Writer(h)', file'[h].start \in Cluster
        PROVE  IsFirst(file[h].name, file[h].start)'
    BY <1>1, <1>2, <1>6, <2>1 DEF Heads, IsFirst
  <2>2. ASSUME NEW m \in Name, Unwritten(m)', dir'[m].start \in Cluster
        PROVE  IsFirst(m, dir[m].start)'
    <3>1. m # n /\ dir'[m] = dir[m]
      BY <1>3, <1>4, <2>2
    <3> QED
      BY <1>1, <1>2, <1>6, <2>2, <3>1 DEF Heads, IsFirst
  <2> QED
    BY <2>1, <2>2 DEF Heads
<1>9. ASSUME NEW x \in Cluster, Starts(x), x # c  PROVE Starts(x)'
  <2>1. CASE \E h \in Handle : Writer(h) /\ file[h].start = x
    BY <1>1, <1>6, <2>1 DEF Starts
  <2>2. CASE \E m \in Name : Unwritten(m) /\ dir[m].start = x
    BY <1>3, <1>6, <1>9, <2>2 DEF Starts
  <2> QED
    BY <1>9, <2>1, <2>2 DEF Starts
<1>10. CASE IsValid(c)
  <2>1. c \in Cluster /\ IsFirst(n, c)
    BY <1>2, <1>5, <1>10 DEF IsValid, Heads
  <2>2. c \in Link /\ op'.pc = "clear" /\ op'.tip = c
    BY <1>1, <1>10, <2>1, Outside, ClearingFacts
  <2>3. PICK e \in Cluster : e = c
    BY <2>1
  <2>4. ~(\E h \in Handle : Writer(h)' /\ file'[h].name = n)
    BY <1>1, <1>5, <1>6
  <2>5. Shape' /\ Stays /\ CallOn'
    BY <1>1, <1>2, <1>4, <1>7, <1>8, <1>9, <2>1, <2>2, <2>3, <2>4, CutLoose
  <2>6. Spots'
    BY <1>1, <1>2, <2>5, SpotsSame DEF Extending
  <2> QED
    BY <2>5, <2>6, Settled
<1>11. CASE ~IsValid(c)
  <2>1. Shape' /\ Stays
    BY <1>1, <1>2, <1>7, <1>8, <1>9, <1>11, ShapeOfEntries DEF IsValid
  <2>2. Spots'
    BY <1>1, <1>2, <2>1, SpotsSame DEF Extending
  <2> QED
    BY <1>1, <1>11, <2>1, <2>2, CallEnds, Settled
<1> QED
  BY <1>10, <1>11

LEMMA ChainOfShrink ==
  ASSUME FileInv, ~conflict', NEW h \in Handle, NEW n \in Places, Shrink(h, n)
  PROVE  ChainInv'
<1> DEFINE g == file[h]
           none == [g EXCEPT !.size = 0, !.modified = TRUE, !.start = Free,
                      !.ap = Position(Free, 0, 0)]
           trim == [Idle EXCEPT !.pc = "walk", !.then = "trim", !.h = h, !.tip = g.start,
                      !.left = (n - 1) \div Bpc, !.goal = n]
<1>1. /\ op.pc = "idle" /\ g.inUse /\ g.write /\ n < g.size
      /\ IF n = 0 THEN Becomes(h, none) /\ op' = Clearing(g.start)
         ELSE op' = trim /\ UNCHANGED file
      /\ astray' = IF n > 0 THEN astray \cup {h} ELSE astray
      /\ UNCHANGED <<fat, place, dir, conflict, misled, lost>>
  BY DEF Shrink, Call
<1>2. ~conflict /\ TypeInv /\ Shape /\ OneWriter /\ Heads /\ Spots
  BY <1>1, Peaceful DEF Shape
<1>3. g \in FileStruct /\ HandleOK(g) /\ g.name \in Name /\ Writer(h) /\ g.size \in Nat /\ n \in Nat
  BY <1>1, <1>2, FileFields, CallsAssumption
     DEF TypeInv, FilesOK, Handles, HandleOK, Writer
<1>4. g.start # Free
  BY <1>1, <1>3 DEF HandleOK
<1>5. g.start \in Cluster /\ On(g.name, g.start) /\ IsFirst(g.name, g.start)
  BY <1>2, <1>3, <1>4, StartOn
<1>6. ~Extending /\ astray \subseteq astray'
  BY <1>1 DEF Extending
<1>7. CASE n = 0
  <2>1. PICK m \in Name : m = g.name
    BY <1>3
  <2>2. PICK c \in Cluster : c = g.start
    BY <1>5
  <2>3. none.inUse /\ none.write /\ none.name = m /\ none.modified /\ none.start = Free
    BY <1>1, <1>3, <2>1 DEF FileStruct
  <2> HIDE DEF none
  <2>4. file'[h] = none /\ \A j \in Handle \ {h} : file'[j] = file[j]
    BY <1>1, <1>2, <1>7 DEF Becomes, TypeInv, FilesOK
  <2>5. op'.pc = "clear" /\ op'.tip = c
    BY <1>1, <1>5, <1>7, <2>2, Outside, ClearingFacts
  <2>6. /\ \A j \in Handle : (Writer(j)' <=> Writer(j)) /\ file'[j].name = file[j].name
        /\ \A x \in Name : Unwritten(x)' <=> Unwritten(x)
    <3>1. \A j \in Handle : (Writer(j)' <=> Writer(j)) /\ file'[j].name = file[j].name
      BY <1>3, <2>1, <2>3, <2>4 DEF Writer
    <3> QED
      BY <3>1 DEF Unwritten
  <2>7. OneWriter'
    BY <1>1, <1>2, <2>3, <2>4, <2>6 DEF OneWriter
  <2>8. Heads'
    <3>1. ASSUME NEW j \in Handle, Writer(j)', file'[j].start \in Cluster
          PROVE  IsFirst(file[j].name, file[j].start)'
      <4>1. j # h /\ file'[j] = file[j]
        BY <2>3, <2>4, <3>1, Outside
      <4> QED
        BY <1>1, <1>2, <2>6, <3>1, <4>1 DEF Heads, IsFirst
    <3>2. ASSUME NEW x \in Name, Unwritten(x)', dir'[x].start \in Cluster
          PROVE  IsFirst(x, dir[x].start)'
      BY <1>1, <1>2, <2>6, <3>2 DEF Heads, IsFirst
    <3> QED
      BY <3>1, <3>2 DEF Heads
  <2>9. ASSUME NEW x \in Cluster, Starts(x), x # c  PROVE Starts(x)'
    <3>1. CASE \E j \in Handle : Writer(j) /\ file[j].start = x
      <4>1. PICK j \in Handle : Writer(j) /\ file[j].start = x
        BY <3>1
      <4>2. j # h
        BY <2>2, <2>9, <4>1
      <4> QED
        BY <2>4, <2>6, <4>1, <4>2 DEF Starts
    <3>2. CASE \E y \in Name : Unwritten(y) /\ dir[y].start = x
      BY <1>1, <2>6, <3>2 DEF Starts
    <3> QED
      BY <2>9, <3>1, <3>2 DEF Starts
  <2>10. \A j \in Handle : Writer(j)' /\ file'[j].name = m => file'[j].start = Free
    BY <1>2, <1>3, <2>1, <2>3, <2>4, <2>6 DEF OneWriter
  <2>11. ~Unwritten(m)'
    BY <1>3, <2>1, <2>6 DEF Unwritten
  <2>12. Shape' /\ Stays /\ CallOn'
    BY <1>1, <1>2, <1>5, <2>1, <2>2, <2>5, <2>7, <2>8, <2>9, <2>10, <2>11, CutLoose
  <2>13. Spots'
    <3>1. ~TrustsRw(h)' /\ ~TrustsAp(h)'
      BY <2>3, <2>4 DEF TrustsRw, TrustsAp
    <3> QED
      BY <1>1, <1>2, <1>6, <2>4, <2>12, <3>1, SpotsStep
  <2> QED
    BY <2>12, <2>13, Settled
<1>8. CASE n # 0
  <2>1. trim.pc = "walk" /\ trim.then = "trim" /\ trim.h = h /\ trim.tip = g.start
    BY DEF Idle
  <2> HIDE DEF trim
  <2>2. op' = trim /\ file' = file /\ h \in astray'
    BY <1>1, <1>3, <1>8
  <2>3. Shape' /\ Stays
    BY <1>1, <1>2, <2>1, <2>2, FilesUntouched, FrameSame DEF Quiet
  <2>4. Spots'
    BY <1>1, <1>2, <1>6, <2>2, <2>3, SpotsSame
  <2>5. OnIn(fat', place', g.name, g.start)
    BY <1>5, <2>3, OnStays
  <2>6. CallOn'
    BY <2>1, <2>2, <2>5 DEF CallOn, WalkOn, f, On
  <2> QED
    BY <2>3, <2>4, <2>6, Settled
<1> QED
  BY <1>7, <1>8

LEMMA ChainOfTrim == ASSUME FileInv, ~conflict', Trim  PROVE ChainInv'
<1> DEFINE g == [f EXCEPT !.size = op.goal, !.modified = TRUE,
                   !.ap = IF f.append THEN EndPosition(op.tip, op.goal) ELSE @]
<1>1. /\ op.pc = "walk" /\ op.then = "trim" /\ fat' = MarkEnd(op.tip)
      /\ IF IsValid(NextOf(op.tip)) THEN op' = Clearing(NextOf(op.tip)) ELSE op' = Idle
      /\ Becomes(op.h, g) /\ UNCHANGED <<place, dir, notes>>
  BY DEF Trim, Walked, At, Trimmed
<1>2. ~conflict /\ TypeInv /\ Shape /\ OneWriter /\ Links /\ Heads /\ Kept /\ Spots /\ CallOn
  BY <1>1, Peaceful DEF notes, Shape
<1>3. PICK c \in Link, next \in Link, k \in Handle : c = op.tip /\ next = NextOf(c) /\ k = op.h
  BY <1>1, <1>2, CallFile, OpFields, NextInLink
<1>4. /\ f \in FileStruct /\ f = file[k] /\ f.name \in Name /\ f.inUse /\ f.write
      /\ op.goal \in Nat /\ c \in Link
  BY <1>1, <1>2, <1>3, CallFile, OpFields DEF TypeInv, OpOK, CallOK, WalkOK
<1>5. On(f.name, c) /\ k \in astray /\ astray' = astray /\ misled' = misled /\ lost' = lost
  BY <1>1, <1>2, <1>3 DEF CallOn, WalkOn, notes
<1>6. /\ g.inUse /\ g.write /\ g.name = f.name /\ g.modified /\ g.start = f.start
      /\ g.append = f.append /\ (f.append => g.ap.cluster = c)
  <2>1. EndPosition(op.tip, op.goal).cluster = c
    BY <1>3, <1>4, EndPositionType
  <2> HIDE DEF EndPosition
  <2> QED
    BY <1>4, <2>1 DEF FileStruct
<1> HIDE DEF g
<1>7. SameNames /\ SameStarts /\ file'[k] = g /\ \A j \in Handle \ {k} : file'[j] = file[j]
  BY <1>1, <1>2, <1>3, <1>4, <1>6, NamesKept
<1>8. \A d \in Cluster : fat'[d] = IF d = c THEN Eof ELSE fat[d]
  BY <1>1, <1>3 DEF MarkEnd
<1>9. c \in Cluster => next = fat[c] /\ fat[c] # Free /\ place[c].of = f.name
  BY <1>3, <1>5, Outside DEF NextOf, On, OnIn
<1>10. next \in Cluster => c \in Cluster
  BY <1>2, <1>3, <1>5, Outside DEF NextOf, TypeInv, TableOK, TableType, On, OnIn
<1>11. IF next \in Cluster THEN op'.pc = "clear" /\ op'.tip = next ELSE op'.pc = "idle"
  BY <1>1, <1>3, Outside, IdleFacts, ClearingFacts DEF IsValid
<1>12. Stays
  BY <1>1, <1>8, Outside DEF Stays
<1>13. OneWriter' /\ Heads'
  BY <1>1, <1>2, <1>7, <1>12, OneWriterStays, HeadsStay
<1>14. Links'
  <2>1. ASSUME NEW d \in Cluster, fat'[d] \in Cluster  PROVE d # c /\ fat'[d] = fat[d]
    BY <1>8, <2>1, Outside
  <2>2. ASSUME NEW d \in Cluster, fat'[d] \in Cluster
        PROVE  /\ place'[fat'[d]].of = place'[d].of
               /\ place'[fat'[d]].rank = place'[d].rank + 1
               /\ fat'[fat'[d]] # Free
    <3>1. /\ place[fat[d]].of = place[d].of /\ place[fat[d]].rank = place[d].rank + 1
          /\ fat[fat[d]] # Free
      BY <1>2, <2>1, <2>2 DEF Links
    <3> QED
      BY <1>1, <1>12, <2>1, <2>2, <3>1 DEF Stays
  <2>3. ASSUME NEW d \in Cluster, NEW e \in Cluster, fat'[d] \in Cluster, fat'[d] = fat'[e]
        PROVE  d = e
    BY <1>2, <2>1, <2>3 DEF Links
  <2> QED
    BY <2>2, <2>3 DEF Links
<1>15. Kept'
  <2>1. ASSUME lost' = {}, NEW x \in Cluster, fat'[x] # Free
        PROVE  \/ \E d \in Cluster : fat'[d] = x
               \/ Starts(x)'
               \/ op'.pc = "clear" /\ op'.tip = x
    <3>1. fat[x] # Free
      BY <1>8, <1>9, <2>1
    <3>2. (\E d \in Cluster : fat[d] = x) \/ Starts(x)
      BY <1>1, <1>2, <1>5, <2>1, <3>1 DEF Kept
    <3>3. ASSUME NEW d \in Cluster, fat[d] = x, d # c  PROVE fat'[d] = x
      BY <1>8, <3>3
    <3>4. c \in Cluster /\ fat[c] = x => op'.pc = "clear" /\ op'.tip = x
      BY <1>9, <1>11
    <3>5. Starts(x) => Starts(x)'
      BY <1>1, <1>7, StartsStay DEF Starts
    <3> QED
      BY <3>2, <3>3, <3>4, <3>5
  <2> QED
    BY <2>1 DEF Kept
<1>16. Clears'
  <2> SUFFICES ASSUME next \in Cluster  PROVE CutOff(op.tip)'
    BY <1>11 DEF Clears
  <2>1. /\ c \in Cluster /\ next = fat[c] /\ place[next].of = f.name
        /\ place[next].rank = place[c].rank + 1 /\ fat[next] # Free
    BY <1>2, <1>9, <1>10 DEF Links
  <2>2. fat'[next] # Free /\ op'.tip = next /\ place' = place
    BY <1>1, <1>11, <1>12, <2>1 DEF Stays
  <2>3. ASSUME NEW d \in Cluster  PROVE fat'[d] # next
    <3>1. CASE d = c
      BY <1>8, <3>1, Outside
    <3>2. CASE d # c
      <4>1. fat[d] # fat[c]
        BY <1>2, <2>1, <3>2 DEF Links
      <4> QED
        BY <1>8, <2>1, <3>2, <4>1
    <3> QED
      BY <3>1, <3>2
  <2>4. ~Starts(next)'
    <3>1. ASSUME NEW n, IsFirst(n, next)'  PROVE FALSE
      <4>1. place[next].rank = 0 /\ place[c].rank \in Nat
        BY <1>2, <2>1, <2>2, <3>1 DEF IsFirst, TypeInv, TableOK, PlaceType
      <4> QED
        BY <2>1, <4>1
    <3>2. ASSUME NEW n, IsFirst(n, next)  PROVE FALSE
      <4>1. place[next].rank = 0 /\ place[c].rank \in Nat
        BY <1>2, <2>1, <3>2 DEF IsFirst, TypeInv, TableOK, PlaceType
      <4> QED
        BY <2>1, <4>1
    <3>3. ~Starts(next)
      BY <1>2, <3>2, StartsAreFirst
    <3>4. Starts(next)' => Starts(next)
      BY <1>1, <1>7, WritersSame DEF Starts, SameStarts
    <3> QED
      BY <3>3, <3>4
  <2>5. ASSUME NEW j \in Handle
        PROVE  /\ TrustsRw(j)' => Before(file[j].name, file[j].rw.cluster, op.tip)'
               /\ TrustsAp(j)' => Before(file[j].name, file[j].ap.cluster, op.tip)'
    <3>1. CASE j # k
      <4>1. Writer(j)' => file'[j].name # f.name
        BY <1>2, <1>4, <1>7, <3>1, WritersSame DEF OneWriter, Writer, SameNames
      <4>2. (TrustsRw(j)' \/ TrustsAp(j)') => file'[j].name # f.name
        BY <4>1 DEF TrustsRw, TrustsAp
      <4> QED
        BY <2>1, <2>2, <4>2 DEF Before
    <3>2. CASE j = k
      <4>1. ~TrustsRw(j)'
        BY <1>5, <3>2 DEF TrustsRw
      <4>2. TrustsAp(j)' => file'[j].ap.cluster = c
        BY <1>6, <1>7, <3>2 DEF TrustsAp
      <4>3. place[c].rank < place[next].rank
        <5>1. place[c].rank \in Nat
          BY <1>2, <2>1 DEF TypeInv, TableOK, PlaceType
        <5> QED
          BY <2>1, <5>1
      <4> QED
        BY <2>2, <4>1, <4>2, <4>3 DEF Before
    <3> QED
      BY <3>1, <3>2
  <2> QED
    BY <2>2, <2>3, <2>4, <2>5 DEF CutOff
<1>17. Spots'
  <2>1. ~Extending
    BY <1>1 DEF Extending
  <2>2. k \in astray'
    BY <1>5
  <2>3. ~g.append \/ OnIn(fat', place', g.name, g.ap.cluster)
    BY <1>5, <1>6, <1>12, OnStays
  <2> QED
    BY <1>2, <1>4, <1>5, <1>6, <1>7, <1>12, <2>1, <2>2, <2>3, SpotsMoved
<1> QED
  BY <1>11, <1>13, <1>14, <1>15, <1>16, <1>17, CallEnds, Settled DEF Shape

LEMMA ChainOfOpen ==
  ASSUME FileInv, ~conflict', NEW h \in Handle, NEW n \in Name, NEW m \in Mode, Open(h, n, m)
  PROVE  ChainInv'
<1> DEFINE known == dir[n] # NoEntry
           old == IF known THEN dir[n] ELSE Entry(Free, 0)
           cut == Truncates(m) /\ old.start # Free
           start == CutStart(cut, old.start)
           g == [Closed EXCEPT
                   !.inUse = TRUE, !.name = n, !.read = Reads(m), !.write = Writes(m),
                   !.append = Appends(m), !.size = IF cut THEN 0 ELSE old.size,
                   !.start = start, !.modified = cut \/ ~known,
                   !.rw = Position(start, 0, 0), !.ap = Position(start, 0, 0)]
           o == [Idle EXCEPT !.pc = "walk", !.then = "append", !.h = h, !.tip = start]
<1>1. /\ op.pc = "idle" /\ ~file[h].inUse /\ (known \/ Creates(m))
      /\ dir' = [dir EXCEPT ![n] = old] /\ Becomes(h, g)
      /\ op' = IF cut THEN Clearing(old.start) ELSE IF Appends(m) THEN o ELSE Idle
      /\ UNCHANGED <<fat, place, astray, misled, lost>>
      /\ ~conflict /\ (Writes(m) => Writers(n) = {})
  BY DEF Open, Call
<1>2. TypeInv /\ Shape /\ OneWriter /\ Heads /\ Spots
  BY <1>1, Peaceful DEF Shape
<1>3. /\ old.start \in Cluster \cup {Free} /\ old # NoEntry
      /\ known => old = dir[n]
      /\ ~known => old.start = Free /\ Writes(m)
  <2>1. ~known => Writes(m)
    BY <1>1 DEF Creates, Writes
  <2>2. NoEntry.start = Eof
    BY DEF NoEntry, Entry
  <2>3. CASE known
    BY <1>2, <2>2, <2>3, Outside DEF TypeInv, DiscOK, Entries
  <2>4. CASE ~known
    <3>1. old = Entry(Free, 0) /\ Entry(Free, 0).start = Free
      BY <2>4 DEF Entry
    <3> QED
      BY <2>1, <2>2, <2>4, <3>1, Outside
  <2> QED
    BY <2>3, <2>4
<1>4. /\ start = IF cut THEN Free ELSE old.start
      /\ cut => old.start \in Cluster /\ known /\ Writes(m) /\ ~Appends(m)
      /\ Appends(m) => Writes(m)
  BY <1>3, Outside DEF CutStart, Truncates, Writes, Appends
<1>5. /\ g.inUse /\ g.name = n /\ g.write = Writes(m) /\ g.append = Appends(m)
      /\ g.start = start /\ (~g.modified => known /\ ~cut)
      /\ g.rw.cluster = start /\ g.ap.cluster = start
  BY DEF Closed, Position
<1>6. o.pc = "walk" /\ o.then = "append" /\ o.h = h /\ o.tip = start
  BY DEF Idle
<1> HIDE DEF known, old, cut, start, g, o
<1>7. file'[h] = g /\ \A j \in Handle \ {h} : file'[j] = file[j]
  BY <1>1, <1>2 DEF Becomes, TypeInv, FilesOK
<1>8. \A x \in Name : dir'[x] = IF x = n THEN old ELSE dir[x]
  BY <1>1, <1>2 DEF TypeInv, DiscOK
<1>9. /\ \A j \in Handle \ {h} : Writer(j)' <=> Writer(j)
      /\ Writer(h)' <=> Writes(m)
      /\ ~Writer(h)
  BY <1>1, <1>5, <1>7 DEF Writer
<1>10. /\ Writes(m) => Unwritten(n)
       /\ \A x \in Name : Unwritten(x)' <=> Unwritten(x) /\ ~(Writes(m) /\ x = n)
  <2>1. Writes(m) => Unwritten(n)
    BY <1>1 DEF Unwritten, Writers, OpenOn, Writer
  <2>2. ASSUME NEW x \in Name
        PROVE  Unwritten(x)' <=> Unwritten(x) /\ ~(Writes(m) /\ x = n)
    BY <1>5, <1>7, <1>9 DEF Unwritten
  <2> QED
    BY <2>1, <2>2
<1>11. \A j \in Handle \ {h} :
         Writer(j) => file[j].name \in Name /\ (Writes(m) => file[j].name # n)
  <2>1. \A j \in Handle : Writer(j) => file[j].name \in Name
    BY <1>2 DEF Writer, TypeInv, FilesOK, Handles, HandleOK
  <2> QED
    BY <1>10, <2>1 DEF Unwritten
<1>12. OneWriter'
  <2>1. ASSUME NEW i \in Handle, NEW j \in Handle, Writer(i)', Writer(j)',
               file'[i].name = file'[j].name
        PROVE  i = j
    BY <1>2, <1>5, <1>7, <1>9, <1>11, <2>1 DEF OneWriter
  <2>2. ASSUME NEW j \in Handle, Writer(j)'
        PROVE  /\ dir'[file'[j].name] # NoEntry
               /\ ~file'[j].modified => dir'[file'[j].name].start \in {file'[j].start, Free}
    <3>1. CASE j = h
      BY <1>3, <1>4, <1>5, <1>7, <1>8, <3>1
    <3>2. CASE j # h
      <4>1. Writer(j) /\ file'[j] = file[j] /\ file[j].name \in Name
        BY <1>7, <1>9, <1>11, <2>2, <3>2
      <4>2. dir'[file[j].name] = dir[file[j].name]
        BY <1>2, <1>3, <1>8, <4>1 DEF OneWriter, known
      <4> QED
        BY <1>2, <4>1, <4>2 DEF OneWriter
    <3> QED
      BY <3>1, <3>2
  <2> QED
    BY <2>1, <2>2 DEF OneWriter
<1>13. Writes(m) /\ old.start \in Cluster => IsFirst(n, old.start)
  BY <1>2, <1>3, <1>10, Outside DEF Heads
<1>14. Heads'
  <2>1. ASSUME NEW j \in Handle, Writer(j)', file'[j].start \in Cluster
        PROVE  IsFirst(file[j].name, file[j].start)'
    <3>1. CASE j = h
      <4>1. IsFirst(n, start) /\ file'[j].name = n /\ file'[j].start = start
        BY <1>4, <1>5, <1>7, <1>9, <1>13, <2>1, <3>1, Outside
      <4> QED
        BY <1>1, <4>1 DEF IsFirst
    <3>2. CASE j # h
      BY <1>1, <1>2, <1>7, <1>9, <2>1, <3>2 DEF Heads, IsFirst
    <3> QED
      BY <3>1, <3>2
  <2>2. ASSUME NEW x \in Name, Unwritten(x)', dir'[x].start \in Cluster
        PROVE  IsFirst(x, dir[x].start)'
    <3>1. Unwritten(x) /\ dir'[x] = dir[x]
      BY <1>3, <1>8, <1>10, <2>2
    <3> QED
      BY <1>1, <1>2, <2>2, <3>1 DEF Heads, IsFirst
  <2> QED
    BY <2>1, <2>2 DEF Heads
<1>15. ASSUME NEW x \in Cluster, Starts(x), ~(cut /\ x = old.start)  PROVE Starts(x)'
  <2>1. CASE \E j \in Handle : Writer(j) /\ file[j].start = x
    BY <1>7, <1>9, <2>1 DEF Starts
  <2>2. CASE \E y \in Name : Unwritten(y) /\ dir[y].start = x
    <3>1. PICK y \in Name : Unwritten(y) /\ dir[y].start = x
      BY <2>2
    <3>2. CASE Writes(m) /\ y = n
      <4>1. known
        <5>1. NoEntry.start \notin Cluster
          BY Outside DEF NoEntry, Entry
        <5> QED
          BY <3>1, <3>2, <5>1 DEF known
      <4>2. file'[h].start = x /\ Writer(h)'
        BY <1>3, <1>4, <1>5, <1>7, <1>9, <1>15, <3>1, <3>2, <4>1
      <4> QED
        BY <4>2 DEF Starts
    <3>3. CASE ~(Writes(m) /\ y = n)
      <4>1. Unwritten(y)' /\ dir'[y].start = x
        BY <1>3, <1>8, <1>10, <3>1, <3>3
      <4> QED
        BY <4>1 DEF Starts
    <3> QED
      BY <3>2, <3>3
  <2> QED
    BY <1>15, <2>1, <2>2 DEF Starts
<1>16. /\ cut => op'.pc = "clear" /\ op'.tip = old.start
       /\ ~cut => op'.pc \in {"idle", "walk"}
       /\ ~cut /\ op'.pc = "walk" => op' = o /\ Appends(m)
  <2>1. cut => Clearing(old.start).pc = "clear" /\ Clearing(old.start).tip = old.start
    BY <1>4, Outside, ClearingFacts
  <2> QED
    BY <1>1, <1>6, <2>1, IdleFacts
<1>17. CASE cut
  <2>1. PICK c \in Cluster : c = old.start
    BY <1>4, <1>17
  <2>2. \A j \in Handle : Writer(j)' /\ file'[j].name = n => file'[j].start = Free
    BY <1>4, <1>5, <1>7, <1>9, <1>11, <1>17
  <2>3. ~Unwritten(n)'
    BY <1>4, <1>10, <1>17
  <2>4. IsFirst(n, c)
    BY <1>4, <1>13, <1>17, <2>1
  <2>5. Shape' /\ Stays /\ CallOn'
    BY <1>1, <1>2, <1>12, <1>14, <1>15, <1>16, <1>17, <2>1, <2>2, <2>3, <2>4, CutLoose
  <2>6. Spots'
    <3>1. ~TrustsRw(h)' /\ ~TrustsAp(h)' /\ ~Extending
      BY <1>1, <1>4, <1>5, <1>7, <1>17 DEF TrustsRw, TrustsAp, Extending
    <3> QED
      BY <1>1, <1>2, <1>7, <2>5, <3>1, SpotsStep
  <2> QED
    BY <2>5, <2>6, Settled
<1>18. CASE ~cut
  <2>1. Shape' /\ Stays
    BY <1>1, <1>2, <1>12, <1>14, <1>15, <1>16, <1>18, ShapeOfEntries
  <2>2. Writes(m) /\ start # Free => OnIn(fat', place', n, start)
    <3>1. Writes(m) /\ start # Free => IsFirst(n, start) /\ start \in Cluster
      BY <1>3, <1>4, <1>13, <1>18
    <3> QED
      BY <1>1, <3>1 DEF IsFirst, OnIn
  <2>3. Spots'
    <3>1. /\ TrustsRw(h)' => OnIn(fat', place', file'[h].name, file'[h].rw.cluster)
          /\ TrustsAp(h)' => OnIn(fat', place', file'[h].name, file'[h].ap.cluster)
      <4>1. TrustsRw(h)' \/ TrustsAp(h)' => Writes(m) /\ start # Free
        BY <1>5, <1>7, <1>9 DEF TrustsRw, TrustsAp
      <4> QED
        BY <1>5, <1>7, <2>2, <4>1
    <3>2. ~Extending
      BY <1>1 DEF Extending
    <3> QED
      BY <1>1, <1>2, <1>7, <2>1, <3>1, <3>2, SpotsStep
  <2>4. CallOn'
    <3>1. CASE op'.pc = "idle"
      BY <3>1, CallEnds
    <3>2. CASE op'.pc = "walk"
      <4>1. f' = g /\ op'.tip = start /\ op'.then = "append" /\ Writes(m)
        BY <1>4, <1>6, <1>7, <1>16, <1>18, <3>2 DEF f
      <4>2. WalkOn'
        BY <1>5, <2>2, <4>1 DEF WalkOn, On
      <4> QED
        BY <3>2, <4>2 DEF CallOn
    <3> QED
      BY <1>16, <1>18, <3>1, <3>2
  <2> QED
    BY <2>1, <2>3, <2>4, Settled
<1> QED
  BY <1>17, <1>18

-----------------------------------------------------------------------------
(***************************************************************************)
(* The invariant of the chains.                                            *)
(***************************************************************************)
LEMMA FileOfInit == Init => FileInv
<1> SUFFICES ASSUME Init  PROVE FileInv
  OBVIOUS
<1>1. TypeInv
  BY TypeOfInit
<1>2. \A c \in Cluster : fat[c] = Free
  BY DEF Init, TableInit
<1>3. \A h \in Handle : ~Writer(h)
  BY ClosedFacts DEF Init, Writer
<1>4. op.pc = "idle"
  BY IdleFacts DEF Init
<1>5. \A n \in Name : dir[n].start \notin Cluster
  BY Outside DEF Init, NoEntry, Entry
<1>6. Links
  BY <1>2, Outside DEF Links
<1>7. OneWriter /\ Heads /\ Kept /\ Clears
  BY <1>2, <1>3, <1>4, <1>5 DEF OneWriter, Heads, Kept, Clears
<1>8. Spots /\ CallOn
  BY <1>3, <1>4 DEF Spots, TrustsRw, TrustsAp, CallOn
<1> QED
  BY <1>1, <1>6, <1>7, <1>8 DEF FileInv, ChainInv, Shape

LEMMA ChainOfStuttering == ASSUME FileInv, ~conflict', UNCHANGED vars  PROVE ChainInv'
<1>1. ~conflict /\ ChainInv
  BY DEF FileInv, vars, notes
<1>2. UNCHANGED <<fat, place, tail, dir, file, op, lost, astray, misled>>
  BY DEF vars, table, notes
<1>3. \A c : NextOf(c)' = NextOf(c)
  BY <1>2 DEF NextOf
<1>4. /\ \A h : /\ Writer(h)' <=> Writer(h)
                /\ TrustsRw(h)' <=> TrustsRw(h)
                /\ TrustsAp(h)' <=> TrustsAp(h)
      /\ \A n : Unwritten(n)' <=> Unwritten(n)
  BY <1>2 DEF Writer, TrustsRw, TrustsAp, Extending, Unwritten
<1>5. (OneWriter /\ Links /\ Heads)'
  BY <1>1, <1>2, <1>4 DEF ChainInv, Shape, OneWriter, Links, Heads, IsFirst
<1>6. \A c : Starts(c)' <=> Starts(c)
  BY <1>2, <1>4 DEF Starts
<1>7. (Kept /\ Clears)'
  BY <1>1, <1>2, <1>4, <1>6 DEF ChainInv, Shape, Kept, Clears, CutOff, Before
<1>8. Spots'
  BY <1>1, <1>2, <1>4 DEF ChainInv, Spots, On
<1>9. CallOn'
  BY <1>1, <1>2, <1>3 DEF ChainInv, CallOn, WalkOn, Straight, On, f
<1> QED
  BY <1>5, <1>7, <1>8, <1>9 DEF ChainInv, Shape

LEMMA FileStep == FileInv /\ [Next]_vars => FileInv'
<1> SUFFICES ASSUME FileInv, [Next]_vars  PROVE FileInv'
  OBVIOUS
<1>1. TypeInv'
  BY TypeStep DEF FileInv
<1> SUFFICES ASSUME ~conflict'  PROVE ChainInv'
  BY <1>1 DEF FileInv
<1>2. CASE Step
  BY <1>2, ChainOfClear, ChainOfWalk, ChainOfOpenAppended, ChainOfReadGroup, ChainOfReadGet,
     ChainOfReadTail, ChainOfExtendFirst, ChainOfExtendSector, ChainOfExtendLast,
     ChainOfWriteHead, ChainOfWriteChunk, ChainOfWriteGroup, ChainOfWritePut, ChainOfWriteTail,
     ChainOfSought, ChainOfTrim
  DEF Step
<1>3. ASSUME NEW h \in Handle, Begin(h)  PROVE ChainInv'
  BY <1>3, ChainOfOpen, ChainOfClose, ChainOfFsync, ChainOfReadBegin, ChainOfWriteBegin,
     ChainOfSeek, ChainOfGrow, ChainOfShrink, ChainOfSameSize
  DEF Begin
<1>4. CASE (\E n \in Name : Unlink(n)) \/ Statvfs \/ Remount
  BY <1>4, ChainOfUnlink, ChainOfStatvfs, ChainOfRemount
<1>5. CASE Done \/ UNCHANGED vars
  BY <1>5, ChainOfStuttering DEF Done
<1> QED
  BY <1>2, <1>3, <1>4, <1>5 DEF Next

\* As long as no file is written through two handles or from a position that
\* went astray, nor removed under its writer: a cluster in use has one place in
\* one chain, every position that is trusted is on its file's chain, and what is
\* being given back has been cut off (_FAT_fat_linkFreeCluster,
\* _FAT_fat_clearLinks, _FAT_fat_trimChain and all of fatfile.c that calls them).
THEOREM FileInvariance == Spec => []FileInv
BY FileOfInit, FileStep, PTL DEF Spec

-----------------------------------------------------------------------------
(***************************************************************************)
(* One owner for every cluster.                                            *)
(***************************************************************************)
LEMMA HeadOf ==
  ASSUME TypeInv, OneWriter, NEW n \in Name, NEW c
  PROVE  Head(n) = c <=> \/ \E h \in Handle : Writer(h) /\ file[h].name = n /\ file[h].start = c
                         \/ Unwritten(n) /\ dir[n].start = c
<1>1. Writers(n) = {h \in Handle : Writer(h) /\ file[h].name = n}
  BY DEF Writers, OpenOn, Writer
<1>2. CASE Writers(n) = {}
  BY <1>1, <1>2 DEF Head, Unwritten
<1>3. CASE Writers(n) # {}
  <2>1. PICK h \in Handle : Writer(h) /\ file[h].name = n
    BY <1>1, <1>3
  <2>2. \A g \in Writers(n) : g = h
    BY <1>1, <2>1 DEF OneWriter
  <2>3. (CHOOSE g \in Writers(n) : TRUE) = h
    BY <1>3, <2>2
  <2>4. Head(n) = file[h].start
    BY <1>3, <2>3 DEF Head
  <2> QED
    BY <1>1, <2>1, <2>2, <2>4 DEF Unwritten
<1> QED
  BY <1>2, <1>3

\* A name whose chain begins with c holds c as its first cluster.
LEMMA HeadIsFirst ==
  ASSUME TypeInv, OneWriter, Heads, NEW n \in Name, NEW c \in Cluster, Head(n) = c
  PROVE  IsFirst(n, c) /\ Starts(c)
BY HeadOf DEF Heads, Starts

LEMMA StartIsHead ==
  ASSUME TypeInv, OneWriter, NEW c, Starts(c)
  PROVE  \E n \in Name : Head(n) = c
<1>1. \A h \in Handle : Writer(h) => file[h].name \in Name
  BY DEF TypeInv, FilesOK, Handles, HandleOK, Writer
<1>2. CASE \E h \in Handle : Writer(h) /\ file[h].start = c
  <2>1. PICK h \in Handle : Writer(h) /\ file[h].start = c
    BY <1>2
  <2>2. file[h].name \in Name
    BY <1>1, <2>1
  <2>3. Head(file[h].name) = c
    BY <2>1, <2>2, HeadOf
  <2> QED
    BY <2>2, <2>3
<1>3. CASE \E n \in Name : Unwritten(n) /\ dir[n].start = c
  <2>1. PICK n \in Name : Unwritten(n) /\ dir[n].start = c
    BY <1>3
  <2>2. Head(n) = c
    BY <2>1, HeadOf
  <2> QED
    BY <2>2
<1> QED
  BY <1>2, <1>3 DEF Starts

LEMMA FileInvGivesOneOwner == FileInv => OneOwner
<1> SUFFICES ASSUME FileInv, ~conflict, NEW c \in Cluster
             PROVE  /\ \A o, p \in Owners(c) : o = p
                    /\ fat[c] = Free => Owners(c) = {}
                    /\ fat[c] # Free /\ lost = {} => Owners(c) # {}
  BY DEF OneOwner
<1>1. TypeInv /\ OneWriter /\ Links /\ Heads /\ Kept /\ Clears
  BY DEF FileInv, ChainInv, Shape
<1>2. c # Beyond
  BY Outside
<1>3. ASSUME NEW d \in Cluster, fat[d] = c
      PROVE  /\ fat[c] # Free
             /\ \A e \in Cluster : fat[e] = c => e = d
             /\ \A n \in Name : Head(n) # c
             /\ ~(op.pc = "clear" /\ op.tip = c)
  <2>1. \A n \in Name : Head(n) # c
    BY <1>1, <1>3, HeadIsFirst, LinkedIsNoStart
  <2> QED
    BY <1>1, <1>2, <1>3, <2>1 DEF Links, Clears, CutOff
<1>4. ASSUME NEW n \in Name, Head(n) = c
      PROVE  /\ fat[c] # Free
             /\ \A m \in Name : Head(m) = c => m = n
             /\ ~(op.pc = "clear" /\ op.tip = c)
  BY <1>1, <1>2, <1>4, HeadIsFirst DEF IsFirst, Clears, CutOff
<1>5. op.pc = "clear" /\ op.tip = c => fat[c] # Free
  BY <1>1, <1>2 DEF Clears, CutOff
<1>6. \A o : o \in Owners(c) <=>
               \/ \E d \in Cluster : fat[d] = c /\ o = <<"link", d>>
               \/ \E n \in Name : Head(n) = c /\ o = <<"name", n>>
               \/ op.pc = "clear" /\ op.tip = c /\ o = <<"call", c>>
  BY DEF Owners
<1>7. \A o, p \in Owners(c) : o = p
  BY <1>3, <1>4, <1>6
<1>8. fat[c] = Free => Owners(c) = {}
  BY <1>3, <1>4, <1>5, <1>6
<1>9. fat[c] # Free /\ lost = {} => Owners(c) # {}
  <2>1. ASSUME fat[c] # Free, lost = {}
        PROVE  (\E d \in Cluster : fat[d] = c) \/ Starts(c) \/ (op.pc = "clear" /\ op.tip = c)
    BY <1>1, <2>1 DEF Kept
  <2> QED
    BY <1>1, <1>6, <2>1, StartIsHead
<1> QED
  BY <1>7, <1>8, <1>9

\* An allocated cluster has one owner and a free one has none, also half way
\* through a call that gives a chain back: no cluster is in two files and none
\* that is in use is handed out again (linkFreeCluster, clearLinks, trimChain).
THEOREM EveryClusterHasOneOwner == Spec => []OneOwner
BY FileInvariance, FileInvGivesOneOwner, PTL

-----------------------------------------------------------------------------
(***************************************************************************)
(* The number of free clusters.                                            *)
(***************************************************************************)
CountRight == ~miscounted => numberFree = Recount

\* What a step does to the table when it allocates: nothing, or one cluster for
\* the end of a chain or for a new one.
Allocates ==
  \/ UNCHANGED table
  \/ \E n \in Name : \E c, got : (c = Free \/ On(n, c)) /\ LinkFree(c, n, got)

LEMMA CountOfLinkFree ==
  ASSUME TypeInv, CountRight, ~miscounted', NEW n \in Name, NEW c, c = Free \/ On(n, c), NEW got,
         LinkFree(c, n, got)
  PROVE  numberFree' = Recount'
<1>1. CASE UNCHANGED <<fat, numberFree, miscounted>>
  BY <1>1 DEF CountRight, Recount, FreeClusters
<1>2. CASE /\ c <= Last /\ NextOf(c) \notin Cluster
           /\ Found(got)
           /\ fat' = Linked(c, got)
           /\ numberFree' = Less(numberFree)
           /\ miscounted' = (miscounted \/ got = Beyond)
  <2>1. ~miscounted /\ got # Beyond
    BY <1>2
  <2>2. got \in FreeClusters /\ got \in Cluster
    BY <1>2, <2>1 DEF Found, FreeClusters
  <2>3. c \in Cluster => fat[c] # Free
    BY Outside DEF On, OnIn
  <2>4. \A d \in Cluster : fat'[d] = IF d = got THEN Eof ELSE IF d = c THEN got ELSE fat[d]
    BY <1>2 DEF Linked
  <2>5. FreeClusters' = FreeClusters \ {got}
    BY <2>2, <2>3, <2>4, Outside DEF FreeClusters
  <2>6. IsFiniteSet(FreeClusters) /\ Cardinality(FreeClusters) \in Nat
    BY RecountType, FS_CardinalityType
  <2>7. Cardinality(FreeClusters \ {got}) = Cardinality(FreeClusters) - 1
    BY <2>2, <2>6, FS_RemoveElement
  <2>8. Cardinality(FreeClusters \ {got}) \in Nat
    BY <2>6, FS_CardinalityType, FS_RemoveElement
  <2>9. Recount' = Cardinality(FreeClusters \ {got})
    BY <2>5 DEF Recount
  <2>10. numberFree = Cardinality(FreeClusters)
    BY <2>1 DEF CountRight, Recount
  <2> QED
    BY <1>2, <2>6, <2>7, <2>8, <2>9, <2>10 DEF Less
<1> QED
  BY <1>1, <1>2 DEF LinkFree, table

LEMMA CountOfAllocation ==
  ASSUME TypeInv, CountRight, Allocates  PROVE CountRight'
<1>1. CASE UNCHANGED table
  BY <1>1 DEF table, CountRight, Recount, FreeClusters
<1>2. CASE \E n \in Name : \E c, got : (c = Free \/ On(n, c)) /\ LinkFree(c, n, got)
  BY <1>2, CountOfLinkFree DEF CountRight
<1> QED
  BY <1>1, <1>2 DEF Allocates

LEMMA CountOfAdvance ==
  ASSUME TypeInv, CountRight, NEW p, f.name \in Name, On(f.name, p.cluster),
         NEW q, NEW good, Advance(p, q, good)
  PROVE  CountRight'
<1>1. Allocates
  BY DEF Advance, Allocates
<1> QED
  BY <1>1, CountOfAllocation

LEMMA CountKept ==
  ASSUME CountRight, UNCHANGED <<fat, numberFree, miscounted>>  PROVE CountRight'
BY DEF CountRight, Recount, FreeClusters

LEMMA CountOfClear ==
  ASSUME TypeInv, Clears, CountRight, Clear  PROVE CountRight'
<1> DEFINE c == op.tip
<1>1. /\ op.pc = "clear" /\ fat' = Cleared(c) /\ numberFree' = More(numberFree)
      /\ miscounted' = (miscounted \/ c \notin Cluster \/ NextOf(c) = Free)
  BY DEF Clear, At, ClearLink
<1> SUFFICES ASSUME ~miscounted'  PROVE numberFree' = Recount'
  BY DEF CountRight
<1>2. ~miscounted /\ c \in Cluster
  BY <1>1
<1>3. fat[c] # Free /\ c \notin FreeClusters
  BY <1>1, <1>2, Outside DEF Clears, CutOff, FreeClusters
<1>4. \A d \in Cluster : fat'[d] = IF d = c THEN Free ELSE fat[d]
  BY <1>1 DEF Cleared
<1>5. FreeClusters' = FreeClusters \cup {c}
  BY <1>2, <1>4 DEF FreeClusters
<1>6. IsFiniteSet(FreeClusters) /\ Cardinality(FreeClusters) \in Nat /\ IsFiniteSet(Cluster)
  BY RecountType, FS_CardinalityType
<1>7. Cardinality(FreeClusters \cup {c}) = Cardinality(FreeClusters) + 1
  BY <1>3, <1>6, FS_AddElement
<1>8. Cardinality(FreeClusters \cup {c}) <= Last - 1
  <2>1. FreeClusters \cup {c} \subseteq Cluster
    BY <1>2 DEF FreeClusters
  <2> QED
    BY <2>1, RecountType, FS_Subset
<1>9. Recount' = Cardinality(FreeClusters) + 1 /\ numberFree = Cardinality(FreeClusters)
  BY <1>2, <1>5, <1>7 DEF Recount, CountRight
<1> QED
  BY <1>1, <1>6, <1>7, <1>8, <1>9, Constants, OverheadAssumption DEF More

LEMMA CountOfTrim ==
  ASSUME FileInv, ~conflict, CountRight, Trim  PROVE CountRight'
<1>1. /\ op.pc = "walk" /\ op.then = "trim" /\ fat' = MarkEnd(op.tip)
      /\ UNCHANGED <<numberFree, miscounted>>
  BY DEF Trim, Walked, At, Trimmed
<1>2. op.tip \in Cluster => fat[op.tip] # Free
  BY <1>1, Peaceful, Outside DEF CallOn, WalkOn, On, OnIn
<1>3. \A d \in Cluster : fat'[d] = IF d = op.tip THEN Eof ELSE fat[d]
  BY <1>1 DEF MarkEnd
<1>4. FreeClusters' = FreeClusters
  BY <1>2, <1>3, Outside DEF FreeClusters
<1> QED
  BY <1>1, <1>4 DEF CountRight, Recount

LEMMA CountOfMount ==
  ASSUME Statvfs \/ Remount  PROVE CountRight'
<1>1. fat' = fat
  BY DEF Statvfs, Remount
<1>2. Recount' = Recount
  BY <1>1 DEF Recount, FreeClusters
<1>3. \E n : numberFree' = FromInfo(n) /\ miscounted' = (FromInfo(n) # Recount)
  BY DEF Statvfs, Remount
<1>4. ASSUME ~miscounted'  PROVE numberFree' = Recount
  BY <1>3, <1>4
<1> QED
  BY <1>2, <1>4 DEF CountRight

LEMMA CountOfWrites ==
  ASSUME FileInv, ~conflict, CountRight,
         WriteHead \/ WriteChunk \/ WriteGroup \/ WriteTail
  PROVE  CountRight'
<1>1. op.pc \in {"head", "chunk", "group"}
  BY DEF WriteHead, WriteChunk, WriteGroup, WriteTail, At
<1>2. TypeInv /\ f.name \in Name
  BY <1>1, Peaceful, WritingCall
<1>3. On(f.name, op.pos.cluster) /\ (op.pc = "group" => On(f.name, op.end))
  BY <1>1, Peaceful DEF CallOn
<1>4. CASE UNCHANGED table
  BY <1>2, <1>4, CountOfAllocation DEF Allocates
<1>5. CASE \E q, good : Advance(op.pos, q, good)
  BY <1>2, <1>3, <1>5, CountOfAdvance
<1>6. CASE WriteGroup
  <2>1. op.pc = "group"
    BY <1>6 DEF WriteGroup, At
  <2>2. Position(op.end, Spc, op.pos.byte).cluster = op.end
    BY DEF Position
  <2>3. PICK q, good : Advance(Position(op.end, Spc, op.pos.byte), q, good)
    BY <1>6 DEF WriteGroup
  <2> QED
    BY <1>2, <1>3, <2>1, <2>2, <2>3, CountOfAdvance
<1>7. WriteHead => \E q, good : Advance(op.pos, q, good)
  BY DEF WriteHead
<1>8. WriteChunk => \E q, good : Advance(op.pos, q, good)
  BY DEF WriteChunk
<1>9. WriteTail => UNCHANGED table \/ \E q, good : Advance(op.pos, q, good)
  BY DEF WriteTail
<1> QED
  BY <1>4, <1>5, <1>6, <1>7, <1>8, <1>9

LEMMA CountOfExtend ==
  ASSUME FileInv, ~conflict, CountRight, ExtendFirst \/ ExtendSector \/ ExtendLast
  PROVE  CountRight'
<1>1. op.pc = "zero" \/ (op.pc = "walk" /\ op.then = "extend")
  BY DEF ExtendFirst, ExtendSector, ExtendLast, At, Walked
<1>2. TypeInv /\ f.name \in Name
  BY <1>1, Peaceful, ExtendingCall
<1>3. CASE UNCHANGED table
  BY <1>2, <1>3, CountOfAllocation DEF Allocates
<1>4. CASE ExtendFirst
  <2>1. On(f.name, op.tip)
    BY <1>4, Peaceful DEF ExtendFirst, Walked, At, CallOn, WalkOn
  <2>2. UNCHANGED table \/ \E got : LinkFree(op.tip, f.name, got)
    BY <1>4 DEF ExtendFirst
  <2> QED
    BY <1>2, <2>1, <2>2, CountOfAllocation DEF Allocates
<1>5. ASSUME op.pc = "zero"  PROVE On(f.name, op.pos.cluster)
  BY <1>5, Peaceful DEF CallOn
<1>6. CASE ExtendSector
  <2>1. op.pc = "zero"
    BY <1>6 DEF ExtendSector, At
  <2>2. UNCHANGED table \/ \E got : LinkFree(op.pos.cluster, f.name, got)
    BY <1>6 DEF ExtendSector
  <2> QED
    BY <1>2, <1>5, <2>1, <2>2, CountOfAllocation DEF Allocates
<1>7. CASE ExtendLast
  <2>1. op.pc = "zero"
    BY <1>7 DEF ExtendLast, At
  <2>2. UNCHANGED table \/ \E q, good : Advance(op.pos, q, good)
    BY <1>7 DEF ExtendLast
  <2> QED
    BY <1>2, <1>3, <1>5, <2>1, <2>2, CountOfAdvance
<1> QED
  BY <1>4, <1>6, <1>7

\* A call that may allocate the first cluster of its file.
LEMMA CountOfFirst ==
  ASSUME FileInv, ~conflict, CountRight, NEW h \in Handle, NEW n,
         WriteBegin(h, n) \/ Grow(h, n)
  PROVE  CountRight'
<1>1. TypeInv /\ file[h].inUse
  BY Peaceful DEF WriteBegin, Grow
<1>2. file[h].name \in Name
  BY <1>1 DEF TypeInv, FilesOK, Handles, HandleOK
<1>3. WriteBegin(h, n) => UNCHANGED table \/ \E got : LinkFree(Free, file[h].name, got)
  BY DEF WriteBegin
<1>4. Grow(h, n) => UNCHANGED table \/ \E got : LinkFree(Free, file[h].name, got)
  BY DEF Grow
<1>5. Allocates
  BY <1>2, <1>3, <1>4 DEF Allocates
<1> QED
  BY <1>1, <1>5, CountOfAllocation

LEMMA CountOfCall ==
  ASSUME CountRight,
         \/ \E h \in Handle : \/ \E n \in Name, m \in Mode : Open(h, n, m)
                              \/ Close(h) \/ Fsync(h) \/ SameSize(h)
                              \/ \E n \in Lens : ReadBegin(h, n)
                              \/ \E p \in Places : Seek(h, p) \/ Shrink(h, p)
         \/ \E n \in Name : Unlink(n)
         \/ Walk \/ OpenAppended \/ ReadGroup \/ ReadGet \/ ReadTail \/ WritePut \/ Sought
         \/ UNCHANGED vars
  PROVE  CountRight'
<1>1. ASSUME NEW h \in Handle,
             \/ \E n \in Name, m \in Mode : Open(h, n, m)
             \/ Close(h) \/ Fsync(h) \/ SameSize(h)
             \/ \E n \in Lens : ReadBegin(h, n)
             \/ \E p \in Places : Seek(h, p) \/ Shrink(h, p)
      PROVE  UNCHANGED <<fat, numberFree, miscounted>>
  <2>1. CASE \E n \in Name, m \in Mode : Open(h, n, m)
    BY <2>1 DEF Open
  <2>2. CASE Close(h) \/ Fsync(h) \/ SameSize(h)
    BY <2>2 DEF Close, Fsync, SameSize, table
  <2>3. CASE \E n \in Lens : ReadBegin(h, n)
    BY <2>3 DEF ReadBegin, table
  <2>4. CASE \E p \in Places : Seek(h, p) \/ Shrink(h, p)
    <3>1. \A p : Seek(h, p) => UNCHANGED <<fat, numberFree, miscounted>>
      BY DEF Seek, table
    <3>2. \A p : Shrink(h, p) => UNCHANGED <<fat, numberFree, miscounted>>
      BY DEF Shrink
    <3> QED
      BY <2>4, <3>1, <3>2
  <2> QED
    BY <1>1, <2>1, <2>2, <2>3, <2>4
<1>2. (\E n \in Name : Unlink(n)) => UNCHANGED <<fat, numberFree, miscounted>>
  BY DEF Unlink
<1>3. Walk \/ OpenAppended \/ ReadGroup \/ ReadGet => UNCHANGED <<fat, numberFree, miscounted>>
  BY DEF Walk, OpenAppended, ReadGroup, ReadGet, table
<1>4. ReadTail \/ WritePut \/ Sought \/ UNCHANGED vars => UNCHANGED <<fat, numberFree, miscounted>>
  BY DEF ReadTail, WritePut, Sought, vars, table
<1> QED
  BY <1>1, <1>2, <1>3, <1>4, CountKept

\* Nothing takes a conflict back.
LEMMA ConflictStays == [Next]_vars /\ ~conflict' => ~conflict
<1> SUFFICES ASSUME [Next]_vars, ~conflict'  PROVE ~conflict
  OBVIOUS
<1>1. CASE Step
  BY <1>1 DEF Step, Clear, Walk, OpenAppended, ReadGroup, ReadGet, ReadTail, ExtendFirst,
     ExtendSector, ExtendLast, WriteHead, WriteChunk, WriteGroup, WritePut, WriteTail, Sought,
     Trim, notes, KeepNotes
<1>2. ASSUME NEW h \in Handle, Begin(h)  PROVE ~conflict
  <2>1. CASE \E n \in Name, m \in Mode : Open(h, n, m)
    BY <2>1 DEF Open
  <2>2. CASE Close(h) \/ Fsync(h) \/ SameSize(h)
    BY <2>2 DEF Close, Fsync, SameSize, notes
  <2>3. CASE \E n \in Lens : ReadBegin(h, n) \/ WriteBegin(h, n)
    BY <2>3 DEF ReadBegin, WriteBegin, notes
  <2>4. CASE \E p \in Places : Seek(h, p) \/ Grow(h, p) \/ Shrink(h, p)
    BY <2>4 DEF Seek, Grow, Shrink, notes, KeepNotes
  <2> QED
    BY <1>2, <2>1, <2>2, <2>3, <2>4 DEF Begin
<1>3. CASE (\E n \in Name : Unlink(n)) \/ Statvfs \/ Remount
  BY <1>3 DEF Unlink, Statvfs, Remount, notes
<1>4. CASE Done \/ UNCHANGED vars
  BY <1>4 DEF Done, vars, notes
<1> QED
  BY <1>1, <1>2, <1>3, <1>4 DEF Next

CountInv == FileInv /\ (~conflict => CountRight)

LEMMA CountOfInit == Init => CountInv
<1> SUFFICES ASSUME Init  PROVE CountInv
  OBVIOUS
<1>1. FreeClusters = Cluster /\ numberFree = Cardinality(Cluster)
  BY DEF Init, TableInit, FreeClusters
<1> QED
  BY <1>1, FileOfInit DEF CountInv, CountRight, Recount

LEMMA CountStep == CountInv /\ [Next]_vars => CountInv'
<1> SUFFICES ASSUME CountInv, [Next]_vars  PROVE CountInv'
  OBVIOUS
<1>1. FileInv'
  BY FileStep DEF CountInv
<1> SUFFICES ASSUME ~conflict'  PROVE CountRight'
  BY <1>1 DEF CountInv
<1>2. FileInv /\ ~conflict /\ CountRight
  BY ConflictStays DEF CountInv
<1>3. CASE Step
  <2>1. CASE Clear
    BY <1>2, <2>1, Peaceful, CountOfClear DEF Shape
  <2>2. CASE Trim
    BY <1>2, <2>2, CountOfTrim
  <2>3. CASE WriteHead \/ WriteChunk \/ WriteGroup \/ WriteTail
    BY <1>2, <2>3, CountOfWrites
  <2>4. CASE ExtendFirst \/ ExtendSector \/ ExtendLast
    BY <1>2, <2>4, CountOfExtend
  <2>5. CASE Walk \/ OpenAppended \/ ReadGroup \/ ReadGet \/ ReadTail \/ WritePut \/ Sought
    BY <1>2, <2>5, CountOfCall
  <2> QED
    BY <1>3, <2>1, <2>2, <2>3, <2>4, <2>5 DEF Step
<1>4. ASSUME NEW h \in Handle, Begin(h)  PROVE CountRight'
  <2>1. CASE (\E n \in Lens : WriteBegin(h, n)) \/ (\E p \in Places : Grow(h, p))
    BY <1>2, <2>1, CountOfFirst
  <2>2. CASE \/ \E n \in Name, m \in Mode : Open(h, n, m)
             \/ Close(h) \/ Fsync(h) \/ SameSize(h)
             \/ \E n \in Lens : ReadBegin(h, n)
             \/ \E p \in Places : Seek(h, p) \/ Shrink(h, p)
    BY <1>2, <2>2, CountOfCall
  <2> QED
    BY <1>4, <2>1, <2>2 DEF Begin
<1>5. CASE \E n \in Name : Unlink(n)
  BY <1>2, <1>5, CountOfCall
<1>6. CASE Statvfs \/ Remount
  BY <1>6, CountOfMount
<1>7. CASE Done \/ UNCHANGED vars
  <2>1. UNCHANGED vars
    BY <1>7 DEF Done
  <2> QED
    BY <1>2, <2>1, CountOfCall
<1> QED
  BY <1>3, <1>4, <1>5, <1>6, <1>7 DEF Next

\* The number of free clusters that the partition keeps is the number of free
\* entries after every step that allocates or gives back a cluster, until a
\* cluster behind the last one is handed out, or a number that is no count is
\* taken from the disc (linkFreeCluster, clearLinks, readFSinfo).
THEOREM FreeClustersAreCounted == Spec => []FreeCountExact
<1>1. Spec => []CountInv
  BY CountOfInit, CountStep, PTL DEF Spec
<1>2. CountInv => FreeCountExact
  BY DEF CountInv, CountRight, FreeCountExact
<1> QED
  BY <1>1, <1>2, PTL

=============================================================================
