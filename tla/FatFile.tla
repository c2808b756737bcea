------------------------------- MODULE FatFile -------------------------------
(***************************************************************************)
(* Files of libfat (fat/fatfile.c): handles on the entries of a directory, *)
(* their positions in the chains of FatTable, and the transfers between    *)
(* them and the disc.  A call holds the partition's lock from its first    *)
(* step to its last; where it loops over clusters it is several actions,   *)
(* and op is what it keeps on its stack.  The bytes themselves are left    *)
(* out: a transfer is where it happens and which bytes of the file it      *)
(* stands for.                                                             *)
(***************************************************************************)
EXTENDS FatTable

CONSTANTS
  Bps,           \* bytesPerSector
  Spc,           \* sectorsPerCluster
  LimitSectors,  \* LIMIT_SECTORS
  MaxFile,       \* FILE_MAX_SIZE
  Handle, Name,
  Mode,          \* the fopen modes in use
  Lens, Places,  \* lengths and positions of the calls
  MaxCalls       \* bound on the calls of a behaviour

Bpc == Bps * Spc

ASSUME SizesAssumption == Bps \in Nat \ {0} /\ Spc \in Nat \ {0} /\ LimitSectors \in Nat
ASSUME CallsAssumption ==
  MaxFile \in Nat /\ MaxCalls \in Nat /\ Lens \subseteq Nat \ {0} /\ Places \subseteq Nat
ASSUME ModeAssumption == Mode \subseteq {"r", "r+", "w", "w+", "a", "a+"}

VARIABLES
  dir,       \* name -> its entry on the disc
  file,      \* handle -> FILE_STRUCT
  op,        \* the call that holds the lock
  fsInfo,    \* the number of free clusters in the FS information sector
  io,        \* the transfers of the last step
  calls,
  conflict,  \* history: a file was written by two handles, or by one that had gone
             \* astray, or removed under its writer
  loose,     \* history: handles whose clusters somebody else gave back
  astray,    \* history: handles whose rwPosition was left behind
  misled,    \* history: handles that took such a position for their appendPosition
  lost,      \* history: names whose first cluster never reached the entry
  uneven     \* history: names whose chain a failure left longer or shorter than the size

notes == <<conflict, loose, astray, misled, lost, uneven>>
vars == <<table, dir, file, op, fsInfo, io, calls, notes>>

Reads(m) == m \in {"r", "r+", "w+", "a+"}
Writes(m) == m # "r"
Appends(m) == m \in {"a", "a+"}
Creates(m) == m \in {"w", "w+", "a", "a+"}
Truncates(m) == m \in {"w", "w+"}

Position(c, s, b) == [cluster |-> c, sector |-> s, byte |-> b]
Entry(c, n) == [start |-> c, size |-> n]
NoEntry == Entry(Eof, 0)

Closed == [inUse |-> FALSE, name |-> "none", read |-> FALSE, write |-> FALSE,
           append |-> FALSE, size |-> 0, start |-> Free, cur |-> 0, modified |-> FALSE,
           rw |-> Position(Free, 0, 0), ap |-> Position(Free, 0, 0)]
Idle == [pc |-> "idle", then |-> "none", h |-> "none", tip |-> Free, left |-> 0,
         pos |-> Position(Free, 0, 0), len |-> 0, remain |-> 0, off |-> 0, ok |-> TRUE,
         end |-> Free, next |-> Free, chunk |-> 0, goal |-> 0]

OpenOn(n) == {h \in Handle : file[h].inUse /\ file[h].name = n}
Writers(n) == {h \in OpenOn(n) : file[h].write}

Call == op.pc = "idle" /\ calls < MaxCalls /\ calls' = calls + 1
At(pc) == op.pc = pc /\ UNCHANGED calls
f == file[op.h]                                \* the file of the call under way
Becomes(h, g) == file' = [file EXCEPT ![h] = g]
NoIo == io' = {}

\* A transfer of n bytes at position p, for the file's bytes from off on.
Transfer(h, p, off, n) ==
  IF n = 0 THEN {}
  ELSE {[h |-> h, off |-> off, n |-> n, at |-> p.cluster * Bpc + p.sector * Bps + p.byte]}

\* The end of a file of n bytes whose last cluster is c; at the edge of the
\* cluster the sector is a flag: a cluster is due.
EndPosition(c, n) ==
  Position(c, IF n > 0 /\ n % Bpc = 0 THEN Spc ELSE (n % Bpc) \div Bps, n % Bps)

(***************************************************************************)
(* A chain that is given back, one turn of _FAT_fat_clearLinks a step.     *)
(***************************************************************************)
Clearing(c) == [Idle EXCEPT !.pc = "clear", !.tip = c]

Clear ==
  /\ At("clear")
  /\ ClearLink(op.tip)
  /\ op' = IF Ends(NextOf(op.tip)) THEN Idle ELSE Clearing(NextOf(op.tip))
  /\ NoIo /\ UNCHANGED <<dir, file, fsInfo, notes>>

(***************************************************************************)
(* The walks along a chain: to its end (_FAT_fat_lastCluster), or a number *)
(* of clusters far (_FAT_seek_r, _FAT_fat_trimChain).                      *)
(***************************************************************************)
ToTheEnd == op.then \in {"append", "extend"}
MoreToWalk == (ToTheEnd \/ op.left > 0) /\ ~Ends(NextOf(op.tip))

Walk ==
  /\ At("walk") /\ MoreToWalk
  /\ op' = [op EXCEPT !.tip = NextOf(@), !.left = IF ToTheEnd THEN @ ELSE @ - 1]
  /\ NoIo /\ UNCHANGED <<table, dir, file, fsInfo, notes>>

Walked(then) == At("walk") /\ op.then = then /\ ~MoreToWalk

(***************************************************************************)
(* _FAT_open_r.  The directory search and addEntry are those of FatTree;   *)
(* here an entry is there or not, and a new one is created empty.          *)
(***************************************************************************)
CutStart(cut, start) == IF cut THEN Free ELSE start

\* The entry e names clusters that the file g, not yet synced, has no longer.
Outdated(e, g) == g.start # e.start \/ g.size < e.size

Open(h, n, m) ==
  LET known == dir[n] # NoEntry
      old == IF known THEN dir[n] ELSE Entry(Free, 0)
      cut == Truncates(m) /\ old.start # Free
      start == CutStart(cut, old.start)
  IN
  /\ Call /\ ~file[h].inUse
  /\ known \/ Creates(m)
  /\ dir' = [dir EXCEPT ![n] = old]
  /\ Becomes(h, [Closed EXCEPT
       !.inUse = TRUE, !.name = n, !.read = Reads(m), !.write = Writes(m),
       !.append = Appends(m), !.size = IF cut THEN 0 ELSE old.size, !.start = start,
       !.modified = cut \/ ~known,
       !.rw = Position(start, 0, 0), !.ap = Position(start, 0, 0)])
  /\ op' = IF cut THEN Clearing(old.start)
           ELSE IF Appends(m)
           THEN [Idle EXCEPT !.pc = "walk", !.then = "append", !.h = h, !.tip = start]
           ELSE Idle
  /\ IF cut THEN StartClear(old.start) ELSE UNCHANGED firstFree
  /\ conflict' = (conflict \/ (Writes(m) /\ Writers(n) # {}))
  /\ loose' = loose \cup (IF cut THEN OpenOn(n) ELSE {})
                    \cup (IF \E g \in Writers(n) : Outdated(old, file[g]) THEN {h} ELSE {})
  /\ NoIo
  /\ UNCHANGED <<fat, numberFree, tail, miscounted, place, fsInfo, astray, misled, lost, uneven>>

OpenAppended ==
  /\ Walked("append")
  /\ Becomes(op.h, [f EXCEPT !.ap = EndPosition(op.tip, f.size)])
  /\ op' = Idle
  /\ NoIo /\ UNCHANGED <<table, dir, fsInfo, notes>>

(***************************************************************************)
(* _FAT_syncToDisc, _FAT_close_r, _FAT_fsync_r.  The entry of a name that  *)
(* is gone stays gone: only its size and cluster are written.              *)
(***************************************************************************)
SyncSizeOnly(e, g) == Entry(e.start, g.size)    \* (faulty: the start cluster is left)
SyncEntry(e, g) == Entry(g.start, g.size)
Synced(n, h) ==
  IF file[h].write /\ file[h].modified /\ dir[n] # NoEntry
  THEN SyncEntry(dir[n], file[h]) ELSE dir[n]
Unsynced(h) ==
  file[h].write /\ ~file[h].modified /\ file[h].start # dir[file[h].name].start

Close(h) ==
  /\ Call /\ file[h].inUse
  /\ dir' = [dir EXCEPT ![file[h].name] = Synced(file[h].name, h)]
  /\ Becomes(h, Closed)
  /\ lost' = IF Unsynced(h) THEN lost \cup {file[h].name} ELSE lost
  /\ loose' = loose \ {h} /\ astray' = astray \ {h} /\ misled' = misled \ {h}
  /\ NoIo /\ UNCHANGED <<table, op, fsInfo, conflict, uneven>>

Fsync(h) ==
  /\ Call /\ file[h].inUse
  /\ dir' = [dir EXCEPT ![file[h].name] = Synced(file[h].name, h)]
  /\ Becomes(h, [file[h] EXCEPT !.modified = FALSE])
  /\ NoIo /\ UNCHANGED <<table, op, fsInfo, notes>>

(***************************************************************************)
(* _FAT_read_r.  Up to the edge of the first cluster, then runs of         *)
(* clusters that lie one behind the other, then the rest.  A transfer of   *)
(* whole sectors may fail (EIO); the result of a partial one is not read.  *)
(***************************************************************************)
Least(a, b) == IF a < b THEN a ELSE b
Outcome(sectors) == IF sectors > 0 THEN BOOLEAN ELSE {TRUE}

\* The part of a first sector, and the position and the rest behind it.
Part(p, n) == IF Least(Bps - p.byte, n) < Bps THEN Least(Bps - p.byte, n) ELSE 0
After(p, n) ==
  IF p.byte + n >= Bps THEN Position(p.cluster, p.sector + 1, 0)
  ELSE Position(p.cluster, p.sector, p.byte + n)
ToEdge(p, n) ==    \* behind the edge the difference, which is unsigned, is huge
  IF p.sector <= Spc /\ n > (Spc - p.sector) * Bps THEN Spc - p.sector ELSE n \div Bps
BySectors(p, s) == [p EXCEPT !.sector = @ + s]
AtHead(p) == [p EXCEPT !.sector = 0]     \* clusterToSector alone
OnSector(p) == [p EXCEPT !.byte = 0]

\* The next cluster, once the sector is past the edge; at the end of the chain
\* the position stays there, with the sector for a flag.
OverEdge(p) ==
  IF p.sector < Spc \/ ~IsValid(NextOf(p.cluster)) THEN p
  ELSE [p EXCEPT !.sector = 0, !.cluster = NextOf(p.cluster)]
AtFlag(p) == p.sector = Spc
EdgeFails(p, n) ==
  p.sector >= Spc /\ ~(n = 0 /\ NextOf(p.cluster) = Eof) /\ ~IsValid(NextOf(p.cluster))

ReadBegin(h, n) ==
  LET g == file[h]
      len == Least(n, g.size - g.cur)
      part == Part(g.rw, len)
      p == After(g.rw, part)
      sectors == ToEdge(p, len - part)
      rest == len - part - sectors * Bps
      q == BySectors(p, sectors)
  IN
  /\ Call /\ g.inUse /\ g.read
  /\ g.cur < g.size /\ g.start # Free
  /\ \E good \in Outcome(sectors) :
       LET started == [Idle EXCEPT !.pc = "rchunk", !.h = h, !.len = len] IN
       /\ io' = Transfer(h, g.rw, g.cur, part)
                \cup IF good THEN Transfer(h, p, g.cur + part, sectors * Bps) ELSE {}
       /\ op' = IF good
                THEN [started EXCEPT !.pos = OverEdge(q), !.remain = rest,
                        !.off = g.cur + len - rest, !.ok = ~EdgeFails(q, rest),
                        !.next = OverEdge(q).cluster]
                ELSE [started EXCEPT !.pos = p, !.remain = len - part,
                        !.off = g.cur + part, !.ok = FALSE]
  /\ astray' = IF AtFlag(g.rw) /\ part > 0 /\ ~IsValid(NextOf(g.rw.cluster))
               THEN astray \cup {h} ELSE astray
  /\ UNCHANGED <<table, dir, file, fsInfo, conflict, loose, misled, lost, uneven>>

InRun(chunk) == chunk + Bpc <= LimitSectors * Bps

ReadGroup ==
  /\ At("rchunk") /\ op.ok
  /\ op.remain >= Bpc
  /\ LET next == NextOf(op.next)
         chunk == op.chunk + Bpc
     IN op' = [op EXCEPT !.end = op.next, !.next = next, !.chunk = chunk,
                 !.pc = IF next = op.next + 1 /\ InRun(chunk) /\ chunk + Bpc <= op.remain
                        THEN "rchunk" ELSE "rget"]
  /\ NoIo /\ UNCHANGED <<table, dir, file, fsInfo, notes>>

ReadGet ==
  /\ At("rget")
  /\ \/ LET rest == op.remain - op.chunk
            ended == rest = 0 /\ op.next = Eof
            good == ended \/ IsValid(op.next)
            p == CASE ended -> [op.pos EXCEPT !.cluster = op.end, !.sector = Spc]
                   [] ~ended /\ good -> [op.pos EXCEPT !.cluster = op.next, !.sector = 0]
                   [] OTHER -> op.pos
        IN /\ io' = Transfer(op.h, OnSector(AtHead(op.pos)), op.off, op.chunk)
           /\ op' = [op EXCEPT !.pc = "rchunk", !.chunk = 0, !.remain = rest, !.pos = p,
                       !.off = @ + op.chunk, !.ok = good, !.next = p.cluster]
           /\ astray' = IF good THEN astray ELSE astray \cup {op.h}
     \/ /\ op' = [op EXCEPT !.pc = "rchunk", !.chunk = 0, !.ok = FALSE]   \* EIO
        /\ NoIo /\ UNCHANGED astray
  /\ UNCHANGED <<table, dir, file, fsInfo, conflict, loose, misled, lost, uneven>>

Moved(p) == p

ReadTail ==
  LET sectors == IF op.ok THEN op.remain \div Bps ELSE 0
      q == BySectors(op.pos, sectors)
      rest == op.remain - sectors * Bps
      Done(p, n) == Becomes(op.h, [f EXCEPT !.rw = Moved(p), !.cur = @ + (op.len - n)])
  IN
  /\ At("rchunk") /\ op.chunk = 0
  /\ op.remain < Bpc \/ ~op.ok
  /\ \E good \in Outcome(sectors) :
       IF op.ok /\ good
       THEN /\ io' = Transfer(op.h, OnSector(AtHead(op.pos)), op.off, sectors * Bps)
                     \cup Transfer(op.h, OnSector(q), op.off + sectors * Bps, rest)
            /\ Done([q EXCEPT !.byte = @ + rest], 0)
       ELSE Done(op.pos, op.remain) /\ NoIo
  /\ op' = Idle
  /\ UNCHANGED <<table, dir, fsInfo, notes>>

(***************************************************************************)
(* _FAT_write_r and _FAT_file_extend_r.                                    *)
(***************************************************************************)

\* _FAT_check_position_for_next_cluster, when there is more to write: q is
\* the position behind it and good its result.
Advance(p, q, good) ==
  \/ p.sector < Spc /\ q = p /\ good = TRUE /\ UNCHANGED table
  \/ /\ p.sector = Spc
     /\ \E got \in Link \cup Results :
          /\ IF Ends(NextOf(p.cluster)) THEN LinkFree(p.cluster, f.name, got)
             ELSE got = NextOf(p.cluster) /\ UNCHANGED table
          /\ good = IsValid(got)
          /\ q = IF good THEN [p EXCEPT !.sector = 0, !.cluster = got] ELSE p

Positions == [cluster : Link, sector : 0 .. Spc, byte : 0 .. Bps - 1]
MadeUneven == uneven' = uneven \cup {f.name}
KeepNotes == UNCHANGED <<conflict, loose, lost>>

\* A file without a first cluster gets one.
Headed(h, got) ==
  [file[h] EXCEPT !.start = got, !.rw = Position(got, 0, 0), !.ap = Position(got, 0, 0)]

PastEnd(g) == g.cur > g.size

Writing(h, g, len) ==
  LET base == [Idle EXCEPT !.h = h, !.len = len, !.remain = len] IN
  IF ~g.append /\ PastEnd(g)
  THEN [base EXCEPT !.pc = "walk", !.then = "extend", !.tip = g.start, !.goal = g.cur]
  ELSE [base EXCEPT !.pc = "head", !.pos = IF g.append THEN g.ap ELSE g.rw,
          !.off = IF g.append THEN g.size ELSE g.cur]

\* A file that grows under its read pointer leaves it behind when the pointer is
\* past the old end, or flagged there.
LeftBehind(g) == g.cur > g.size \/ AtFlag(g.rw)

WriteBegin(h, n) ==
  LET g == file[h]
      len == IF n + g.size > MaxFile THEN MaxFile - g.size ELSE n
  IN
  /\ Call /\ g.inUse /\ g.write
  /\ len > 0
  /\ \/ /\ g.start # Free
        /\ op' = Writing(h, g, len)
        /\ UNCHANGED <<table, file>>
     \/ /\ g.start = Free
        /\ \E got \in Results :
             /\ LinkFree(Free, g.name, got)
             /\ IF IsValid(got)
                THEN Becomes(h, Headed(h, got)) /\ op' = Writing(h, Headed(h, got), len)
                ELSE UNCHANGED <<file, op>>     \* ENOSPC
  /\ astray' = IF g.append /\ LeftBehind(g) THEN astray \cup {h} ELSE astray
  /\ conflict' = (conflict \/ h \in IF g.append THEN misled ELSE astray)
  /\ NoIo /\ UNCHANGED <<dir, fsInfo, loose, misled, lost, uneven>>

\* The end of _FAT_file_extend_r with its position p, in a write, which goes
\* on there, or in _FAT_ftruncate_r, which puts the read pointer back.
Extended(p) ==
  IF op.len > 0
  THEN /\ Becomes(op.h, [f EXCEPT !.rw = p, !.size = op.goal])
       /\ op' = [op EXCEPT !.pc = "head", !.then = "none", !.tip = Free, !.goal = 0,
                   !.pos = p, !.remain = op.len, !.off = op.goal]
  ELSE /\ Becomes(op.h, [f EXCEPT !.size = op.goal, !.modified = TRUE,
                           !.ap = IF f.append THEN p ELSE @])
       /\ op' = Idle

ExtendFailed ==
  /\ Becomes(op.h, IF op.len > 0 THEN f
                   ELSE [f EXCEPT !.size = op.goal, !.modified = TRUE,
                           !.ap = IF f.append THEN f.rw ELSE @])
  /\ op' = Idle
  /\ misled' = IF op.len = 0 /\ f.append /\ op.h \in astray THEN misled \cup {op.h} ELSE misled
  /\ MadeUneven /\ NoIo

ExtendFirst ==
  LET gap == op.goal - f.size
      q == Position(op.tip, (f.size % Bpc) \div Bps, f.size % Bps)
      atEdge == f.size > 0 /\ q.sector = 0 /\ q.byte = 0
  IN
  /\ Walked("extend")
  /\ \E got \in Link \cup Results :
       LET p == [q EXCEPT !.cluster = got]
           first == IF q.byte > 0 THEN Bps - q.byte ELSE 0
       IN
       /\ IF atEdge THEN LinkFree(op.tip, f.name, got) ELSE got = op.tip /\ UNCHANGED table
       /\ \/ atEdge /\ ~IsValid(got) /\ ExtendFailed
          \/ /\ ~(atEdge /\ ~IsValid(got)) /\ gap + q.byte < Bps
             /\ Extended([p EXCEPT !.byte = @ + gap])
             /\ io' = Transfer(op.h, p, f.size, gap) /\ UNCHANGED <<uneven, misled>>
          \/ /\ ~(atEdge /\ ~IsValid(got)) /\ gap + q.byte >= Bps
             /\ op' = [op EXCEPT !.pc = "zero", !.pos = After(p, first),
                         !.remain = gap - first, !.off = f.size + first]
             /\ io' = Transfer(op.h, p, f.size, first) /\ UNCHANGED <<file, uneven, misled>>
  /\ KeepNotes /\ UNCHANGED <<dir, fsInfo, astray>>

ExtendSector ==
  /\ At("zero") /\ op.remain >= Bps
  /\ \E got \in Link \cup Results :
       LET p == IF op.pos.sector >= Spc THEN Position(got, 0, op.pos.byte) ELSE op.pos IN
       /\ IF op.pos.sector >= Spc THEN LinkFree(op.pos.cluster, f.name, got)
          ELSE got = op.pos.cluster /\ UNCHANGED table
       /\ IF op.pos.sector >= Spc /\ ~IsValid(got) THEN ExtendFailed
          ELSE /\ op' = [op EXCEPT !.pos = BySectors(p, 1), !.remain = @ - Bps,
                           !.off = @ + Bps]
               /\ io' = Transfer(op.h, OnSector(p), op.off, Bps)
               /\ UNCHANGED <<file, uneven, misled>>
  /\ KeepNotes /\ UNCHANGED <<dir, fsInfo, astray>>

ExtendLast ==
  /\ At("zero") /\ op.remain < Bps
  /\ \/ /\ op.remain = 0
        /\ Extended(op.pos)
        /\ NoIo /\ UNCHANGED <<table, uneven, misled>>
     \/ /\ op.remain > 0
        /\ \E q \in Positions, good \in BOOLEAN :
             /\ Advance(op.pos, q, good)
             /\ IF good
                THEN /\ Extended([q EXCEPT !.byte = op.remain])
                     /\ io' = Transfer(op.h, OnSector(q), op.off, op.remain)
                     /\ UNCHANGED <<uneven, misled>>
                ELSE ExtendFailed
  /\ KeepNotes /\ UNCHANGED <<dir, fsInfo, astray>>

\* The rest of a sector, then of a cluster.
WriteHead ==
  /\ At("head")
  /\ \E q \in Positions, good \in BOOLEAN :
       /\ Advance(op.pos, q, good)
       /\ LET part == Part(q, op.remain)
              p == After(q, part)
              edge == ToEdge(p, op.remain - part)
              sectors == IF edge < Spc THEN edge ELSE 0
              n == part + sectors * Bps
          IN
          IF ~good
          THEN op' = [op EXCEPT !.pc = "chunk", !.ok = FALSE] /\ NoIo /\ UNCHANGED uneven
          ELSE \/ /\ op' = [op EXCEPT !.pc = "chunk", !.pos = BySectors(p, sectors),
                              !.remain = @ - n, !.off = @ + n]
                  /\ io' = Transfer(op.h, q, op.off, part)
                           \cup Transfer(op.h, p, op.off + part, sectors * Bps)
                  /\ UNCHANGED uneven
               \/ /\ sectors > 0      \* EIO
                  /\ op' = [op EXCEPT !.pc = "chunk", !.pos = p, !.ok = FALSE,
                              !.remain = @ - part, !.off = @ + part]
                  /\ io' = Transfer(op.h, q, op.off, part)
                  /\ MadeUneven
  /\ KeepNotes /\ UNCHANGED <<dir, file, fsInfo, astray, misled>>

\* Whole clusters: a run of them is made, or found, before it is written.
WriteChunk ==
  /\ At("chunk") /\ op.ok
  /\ op.remain >= Bpc
  /\ \E q \in Positions, good \in BOOLEAN :
       /\ Advance(op.pos, q, good)
       /\ op' = IF good
                THEN [op EXCEPT !.pc = "group", !.pos = q, !.end = q.cluster,
                        !.next = q.cluster, !.chunk = Bpc]
                ELSE [op EXCEPT !.ok = FALSE]
  /\ NoIo /\ UNCHANGED <<dir, file, fsInfo, notes>>

GroupsOn == op.ok /\ op.next = op.end /\ InRun(op.chunk) /\ op.chunk + Bpc < op.remain

WriteGroup ==
  /\ At("group") /\ GroupsOn
  /\ \E q \in Positions, good \in BOOLEAN :
       /\ Advance(Position(op.end, Spc, op.pos.byte), q, good)
       /\ op' = CASE ~good -> [op EXCEPT !.ok = FALSE]
                  [] good /\ q.cluster # op.end + 1 -> [op EXCEPT !.next = q.cluster]
                  [] OTHER -> [op EXCEPT !.end = q.cluster, !.next = q.cluster,
                                 !.chunk = @ + Bpc]
  /\ NoIo /\ UNCHANGED <<dir, file, fsInfo, notes>>

AfterRun ==
  IF op.end # op.next /\ IsValid(op.next) THEN Position(op.next, 0, op.pos.byte)
  ELSE Position(op.end, Spc, op.pos.byte)

WritePut ==
  /\ At("group") /\ ~GroupsOn
  /\ LET put == [op EXCEPT !.pc = "chunk", !.end = Free, !.next = Free, !.chunk = 0] IN
     \/ /\ op' = [put EXCEPT !.pos = AfterRun, !.remain = @ - op.chunk, !.off = @ + op.chunk]
        /\ io' = Transfer(op.h, OnSector(AtHead(op.pos)), op.off, op.chunk)
        /\ UNCHANGED uneven
     \/ /\ op' = [put EXCEPT !.ok = FALSE]      \* EIO
        /\ NoIo /\ MadeUneven
  /\ KeepNotes /\ UNCHANGED <<table, dir, file, fsInfo, astray, misled>>

\* What is left, and the end of the call.
Written(p, n) ==
  LET done == op.len - n
      cur == f.cur + done
  IN Becomes(op.h, IF f.append
                   THEN [f EXCEPT !.modified = TRUE, !.ap = p, !.size = @ + done]
                   ELSE [f EXCEPT !.modified = TRUE, !.rw = p, !.cur = cur,
                           !.size = IF @ < cur THEN cur ELSE @])

WriteTail ==
  /\ At("chunk")
  /\ op.remain < Bpc \/ ~op.ok
  /\ \E q \in Positions, good \in BOOLEAN :
       /\ IF op.remain > 0 /\ op.ok THEN Advance(op.pos, q, good)
          ELSE q = op.pos /\ good = op.ok /\ UNCHANGED table
       /\ LET sectors == op.remain \div Bps
              p == BySectors(q, sectors)
              rest == op.remain % Bps
          IN
          \/ ~good /\ Written(q, op.remain) /\ NoIo /\ UNCHANGED uneven
          \/ /\ good
             /\ Written([p EXCEPT !.byte = @ + rest], 0)
             /\ io' = Transfer(op.h, OnSector(AtHead(q)), op.off, sectors * Bps)
                      \cup Transfer(op.h, OnSector(p), op.off + sectors * Bps, rest)
             /\ UNCHANGED uneven
          \/ good /\ sectors > 0 /\ Written(q, op.remain) /\ NoIo /\ MadeUneven   \* EIO
  /\ op' = Idle
  /\ KeepNotes /\ UNCHANGED <<dir, fsInfo, astray, misled>>

(***************************************************************************)
(* _FAT_seek_r (SEEK_SET: the other directions only compute the position). *)
(***************************************************************************)
CountedFromStart(g) == 0     \* (faulty: from the current cluster, counted from the first)
Counted(g) == g.cur \div Bpc - (IF g.rw.sector = Spc THEN 1 ELSE 0)

Seek(h, p) ==
  LET g == file[h]
      ahead == p >= g.cur
      flagged == [g EXCEPT !.rw.sector = (p % Bpc) \div Bps, !.rw.byte = p % Bps]
  IN
  /\ Call /\ g.inUse
  /\ IF p <= g.size /\ g.start # Free
     THEN /\ Becomes(h, flagged)
          /\ op' = [Idle EXCEPT !.pc = "walk", !.h = h, !.goal = p,
                      !.then = IF ahead THEN "seek" ELSE "rewind",
                      !.tip = IF ahead THEN g.rw.cluster ELSE g.start,
                      !.left = p \div Bpc - IF ahead THEN Counted(g) ELSE 0]
     ELSE Becomes(h, [g EXCEPT !.cur = p]) /\ UNCHANGED op
  /\ NoIo /\ UNCHANGED <<table, dir, fsInfo, notes>>

Sought ==
  /\ op.then \in {"seek", "rewind"} /\ Walked(op.then)
  /\ \/ /\ op.left <= 0
        /\ Becomes(op.h, [f EXCEPT !.rw.cluster = op.tip, !.cur = op.goal])
        /\ astray' = IF op.then = "rewind" THEN astray \ {op.h} ELSE astray
     \/ /\ op.left > 0
        /\ IF op.left = 1 /\ f.size = op.goal /\ f.rw.sector = 0
           THEN /\ Becomes(op.h, [f EXCEPT !.rw = Position(op.tip, Spc, 0), !.cur = op.goal])
                /\ UNCHANGED astray
           ELSE UNCHANGED file /\ astray' = astray \cup {op.h}     \* EINVAL
  /\ op' = Idle
  /\ NoIo /\ KeepNotes /\ UNCHANGED <<table, dir, fsInfo, misled, uneven>>

(***************************************************************************)
(* _FAT_ftruncate_r.                                                       *)
(***************************************************************************)
Grow(h, n) ==
  LET g == file[h]
      Growing(start) == [Idle EXCEPT !.pc = "walk", !.then = "extend", !.h = h,
                           !.tip = start, !.goal = n]
  IN
  /\ Call /\ g.inUse /\ g.write /\ n > g.size
  /\ \/ g.start # Free /\ op' = Growing(g.start) /\ UNCHANGED <<table, file>>
     \/ /\ g.start = Free
        /\ \E got \in Results :
             /\ LinkFree(Free, g.name, got)
             /\ IF IsValid(got)
                THEN /\ op' = Growing(got)
                     /\ Becomes(h, [g EXCEPT !.start = got, !.rw = Position(got, 0, 0)])
                ELSE UNCHANGED <<file, op>>
  /\ astray' = IF LeftBehind(g) THEN astray \cup {h} ELSE astray
  /\ NoIo /\ KeepNotes /\ UNCHANGED <<dir, fsInfo, misled, uneven>>

Shrink(h, n) ==
  LET g == file[h]
      none == [g EXCEPT !.size = 0, !.modified = TRUE, !.start = Free,
                 !.ap = Position(Free, 0, 0)]
  IN
  /\ Call /\ g.inUse /\ g.write /\ n < g.size
  /\ IF n = 0
     THEN /\ Becomes(h, none)
          /\ StartClear(g.start) /\ op' = Clearing(g.start)
     ELSE /\ op' = [Idle EXCEPT !.pc = "walk", !.then = "trim", !.h = h, !.tip = g.start,
                      !.left = (n - 1) \div Bpc, !.goal = n]
          /\ UNCHANGED <<firstFree, file>>
  /\ astray' = IF n > 0 THEN astray \cup {h} ELSE astray
  /\ loose' = loose \cup (OpenOn(g.name) \ {h})
  /\ NoIo /\ UNCHANGED <<fat, numberFree, tail, miscounted, place, dir, fsInfo, conflict, misled, lost,
                         uneven>>

\* The end of _FAT_fat_trimChain: what is behind the last cluster is given back.
DroppedOnly(c) == fat      \* (faulty: the last cluster keeps its link)
Trimmed(c) == MarkEnd(c)

Trim ==
  LET next == NextOf(op.tip) IN
  /\ Walked("trim")
  /\ fat' = Trimmed(op.tip)
  /\ IF IsValid(next) THEN StartClear(next) /\ op' = Clearing(next)
     ELSE op' = Idle /\ UNCHANGED firstFree
  /\ Becomes(op.h, [f EXCEPT !.size = op.goal, !.modified = TRUE,
                      !.ap = IF f.append THEN EndPosition(op.tip, op.goal) ELSE @])
  /\ NoIo /\ UNCHANGED <<numberFree, tail, miscounted, place, dir, fsInfo, notes>>

SameSize(h) ==
  /\ Call /\ file[h].inUse /\ file[h].write
  /\ Becomes(h, [file[h] EXCEPT !.modified = TRUE])
  /\ NoIo /\ UNCHANGED <<table, dir, op, fsInfo, notes>>

(***************************************************************************)
(* _FAT_unlinkCommon for a file, _FAT_statvfs_r, and a partition that is   *)
(* unmounted and mounted again.                                            *)
(***************************************************************************)
Unlink(n) ==
  LET c == dir[n].start IN
  /\ Call /\ dir[n] # NoEntry
  /\ dir' = [dir EXCEPT ![n] = NoEntry]
  /\ IF IsValid(c) THEN StartClear(c) /\ op' = Clearing(c) ELSE UNCHANGED <<firstFree, op>>
  /\ conflict' = (conflict \/ Writers(n) # {})
  /\ loose' = loose \cup OpenOn(n)
  /\ uneven' = uneven \ {n}
  /\ NoIo /\ UNCHANGED <<fat, numberFree, tail, miscounted, place, file, fsInfo, astray, misled, lost>>

\* _FAT_partition_readFSinfo: a sector that says 0 is made anew from a count.
Recount == Cardinality(FreeClusters)
FromInfo(n) == IF n = 0 THEN Recount ELSE n

Statvfs ==
  /\ Call
  /\ numberFree' = FromInfo(fsInfo) /\ fsInfo' = FromInfo(fsInfo)
  /\ miscounted' = (FromInfo(fsInfo) # Recount)
  /\ NoIo /\ UNCHANGED <<fat, firstFree, tail, place, dir, file, op, notes>>

Remount ==
  /\ Call
  /\ dir' = [n \in Name |-> IF Writers(n) = {} THEN dir[n]
                            ELSE Synced(n, CHOOSE h \in Writers(n) : TRUE)]
  /\ file' = [h \in Handle |-> Closed]
  /\ fsInfo' = FromInfo(numberFree) /\ numberFree' = FromInfo(numberFree)
  /\ miscounted' = (FromInfo(numberFree) # Recount)
  /\ firstFree' = First
  /\ lost' = lost \cup {file[h].name : h \in {g \in Handle : file[g].inUse /\ Unsynced(g)}}
  /\ loose' = {} /\ astray' = {} /\ misled' = {}
  /\ NoIo /\ UNCHANGED <<fat, tail, place, op, conflict, uneven>>

----------------------------------------------------------------------------

Init ==
  /\ TableInit
  /\ fsInfo = numberFree
  /\ dir = [n \in Name |-> NoEntry]
  /\ file = [h \in Handle |-> Closed]
  /\ op = Idle
  /\ io = {} /\ calls = 0
  /\ conflict = FALSE
  /\ loose = {} /\ astray = {} /\ misled = {} /\ lost = {} /\ uneven = {}

Step ==
  \/ Clear \/ Walk \/ OpenAppended \/ ReadGroup \/ ReadGet \/ ReadTail
  \/ ExtendFirst \/ ExtendSector \/ ExtendLast
  \/ WriteHead \/ WriteChunk \/ WriteGroup \/ WritePut \/ WriteTail
  \/ Sought \/ Trim

Begin(h) ==
  \/ \E n \in Name, m \in Mode : Open(h, n, m)
  \/ Close(h) \/ Fsync(h)
  \/ \E n \in Lens : ReadBegin(h, n) \/ WriteBegin(h, n)
  \/ \E p \in Places : Seek(h, p) \/ Grow(h, p) \/ Shrink(h, p)
  \/ SameSize(h)

Done == op.pc = "idle" /\ calls = MaxCalls /\ UNCHANGED vars   \* (the bound)

Next ==
  \/ Step
  \/ \E h \in Handle : Begin(h)
  \/ \E n \in Name : Unlink(n)
  \/ Statvfs \/ Remount
  \/ Done

Spec == Init /\ [][Next]_vars

----------------------------------------------------------------------------
(***************************************************************************)
(* Properties                                                              *)
(***************************************************************************)

Spot == [cluster : Link, sector : Nat, byte : 0 .. Bps - 1]
FileStruct ==
  [inUse : BOOLEAN, name : Name \cup {"none"}, read : BOOLEAN, write : BOOLEAN,
   append : BOOLEAN, size : Nat, start : Cluster \cup {Free}, cur : Nat,
   modified : BOOLEAN, rw : Spot, ap : Spot]
Stack ==
  [pc : {"idle", "clear", "walk", "rchunk", "rget", "zero", "head", "chunk", "group"},
   then : {"none", "append", "extend", "seek", "rewind", "trim"},
   h : Handle \cup {"none"}, tip : Link, left : Int, pos : Spot, len : Nat, remain : Nat,
   off : Nat, ok : BOOLEAN, end : Link, next : Link, chunk : Nat, goal : Nat]

\* Every variable keeps its type.  In particular a position's byte stays within
\* its sector, no count a loop over clusters subtracts from goes below 0, and
\* the two counts of free clusters stay within the disc's.
TypeOK ==
  /\ TableType
  /\ dir \in [Name -> [start : Cluster \cup {Free, Eof}, size : Nat]]
  /\ file \in [Handle -> FileStruct]
  /\ op \in Stack
  /\ fsInfo \in 0 .. Last - 1 + Overhead /\ calls \in 0 .. MaxCalls
  /\ io \subseteq [h : Handle, off : Nat, n : Nat \ {0}, at : Nat]
  /\ conflict \in BOOLEAN /\ lost \cup uneven \subseteq Name
  /\ loose \cup astray \cup misled \subseteq Handle

\* The first cluster of a name's chain: its writer's, or else its entry's.
Head(n) ==
  IF Writers(n) = {} THEN dir[n].start ELSE file[CHOOSE h \in Writers(n) : TRUE].start
SizeOf(n) ==
  IF Writers(n) = {} THEN dir[n].size ELSE file[CHOOSE h \in Writers(n) : TRUE].size

\* What a cluster belongs to: a link, a name, or the chain a call is giving back.
Owners(c) ==
  {<<"link", d>> : d \in {e \in Cluster : fat[e] = c}}
  \cup {<<"name", n>> : n \in {m \in Name : Head(m) = c}}
  \cup (IF op.pc = "clear" /\ op.tip = c THEN {<<"call", c>>} ELSE {})

\* An allocated cluster has one owner and a free one has none, in the middle of
\* a call too: no cluster is in two files, none is lost, and none that is in use
\* is given out (linkFreeCluster, clearLinks, trimChain and their callers).
\* Excluded: a file that two handles wrote or that was removed under its
\* writer, and for "none is lost" a first cluster that never reached the entry.
OneOwner ==
  ~conflict =>
    \A c \in Cluster :
      /\ \A o, p \in Owners(c) : o = p
      /\ fat[c] = Free => Owners(c) = {}
      /\ fat[c] # Free /\ lost = {} => Owners(c) # {}

\* The number of free clusters that is kept, and written to the disc, is the
\* number of free entries (numberFreeCluster), but for what sets it otherwise.
FreeCountExact == ~conflict /\ ~miscounted => numberFree = Recount

\* The n-th cluster of a chain.
Nth(c) == LET at[n \in 0 .. Last] == IF n = 0 THEN c ELSE NextOf(at[n - 1]) IN at
ChainOf(c) == {Nth(c)[n] : n \in 0 .. Last} \cap Cluster

\* A read goes on to the next cluster before it reads anything when its position
\* is at the flag (fatfile.c, line 511).  It does not when it ends within a
\* sector: a call that wrote up to the edge of a cluster leaves the flag, and the
\* few bytes that are read next come from the sector behind that cluster.
ReadAtFlag(t) ==
  op.pc = "rchunk" /\ op.h = t.h /\ AtFlag(f.rw) /\ t.off = f.cur /\ t.n < Bps

\* Every byte a read or a write transfers, and every zero of an extension, goes
\* to the place the chain has for it, whatever runs of clusters, edges and
\* partial sectors the call is cut into (_FAT_read_r, _FAT_write_r,
\* _FAT_file_extend_r and the positions that seek, open and they leave), but
\* for the read at the flag.
TransfersInPlace ==
  \A t \in io :
    \/ conflict \/ t.h \in loose \cup astray \/ file[t.h].name \in uneven
    \/ ReadAtFlag(t)
    \/ \A k \in 0 .. t.n - 1 :
         t.at + k = Nth(file[t.h].start)[(t.off + k) \div Bpc] * Bpc + ((t.off + k) % Bpc)

\* Between two calls a chain has the clusters its file's size needs, neither one
\* more nor one less, but for the files a failed extension or transfer left, and
\* the one whose chain a full disc led behind the last cluster.
ChainFitsSize ==
  op.pc = "idle" /\ ~conflict =>
    \A n \in Name \ uneven :
      dir[n] # NoEntry /\ Beyond \notin {Nth(Head(n))[k] : k \in 0 .. Last} =>
        Cardinality(ChainOf(Head(n))) = (SizeOf(n) + Bpc - 1) \div Bpc
=============================================================================
