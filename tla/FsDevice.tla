------------------------------ MODULE FsDevice ------------------------------
(***************************************************************************)
(* The devices of iosuhax_devoptab.c: the slots of devoptab_list, the      *)
(* mutex of each device, the structs of its open files and folders, and    *)
(* the calls the threads of the program make on them.  Every call looks up *)
(* its device, waits for the mutex, and sends one or more requests to FSA, *)
(* the file system of the console.  mount_fs and unmount_fs take no mutex. *)
(*                                                                         *)
(* What is in the files is FSA's: a request takes any result it may have.  *)
(* Two calls never use one file at a time; FtpServer says when the server  *)
(* breaks that.                                                            *)
(***************************************************************************)
EXTENDS Integers, FiniteSets

CONSTANTS
  Thread,      \* the event loop and the transfers
  Device,      \* virtual names; each is mounted once (MountVirtualDevices)
  Handle,      \* structs newlib has for open files and folders
  Fd,          \* handles of FSA
  Slots,       \* free entries of devoptab_list, STD_MAX - 3 at most
  Mode,        \* modes files are opened with
  Lens,        \* sizes and offsets of the calls
  None,        \* no thread, no FSA handle
  MaxCalls     \* bound on the calls of a behaviour

ASSUME DeviceAssumption ==
  /\ Slots \in Nat /\ MaxCalls \in Nat
  /\ Mode \subseteq {"r", "r+", "w", "w+", "a", "a+"}
  /\ Lens \subseteq Nat
  /\ None \notin Thread \cup Device \cup Handle \cup Fd

VARIABLES
  slot,      \* devices in devoptab_list
  gone,      \* devices whose private data was freed
  volumes,   \* volumes that are mounted, by device
  owner,     \* pMutex of each device: who has it
  times,     \* and how often he took it
  file,      \* the struct of each handle
  opened,    \* the handles of FSA that are open
  place,     \* and their positions
  pc, op, dev, handle,     \* the call of each thread: where it is, on what
  io,        \* its mode, len, done and fd; and what it moved
  wild,      \* a device whose freed memory was used
  calls,
  lost,      \* history: FSA handles whose closing failed
  stranded,  \* history: volumes no unmount_fs will unmount
  early,     \* history: devices removed with files open or calls under way
  jammed,    \* history: devices of a seek from nowhere
  failed,    \* history: threads of whose last call a request failed
  apart      \* history: files whose position FSA was not, or may not be, told

mutex == <<owner, times>>
call == <<pc, op, dev, handle>>
devices == <<slot, gone, volumes>>
fsa == <<opened, place>>
past == <<stranded, early, jammed>>
history == <<lost, past, failed, apart>>
vars == <<devices, mutex, file, fsa, call, io, wild, calls, history>>

\* "path" is each of stat, unlink, chdir, rename, mkdir, chmod and statvfs, and
\* "ask" each of fstat, dirreset and dirnext: one request, and nothing kept.
\* "close" is dirclose too.  (ftruncate, fsync and link are not supported.)
OpenOp == {"open", "diropen"}
DirOp == {"ask", "close"}
FileOp == DirOp \cup {"read", "write", "seek"}

Whence == {"set", "cur", "end", "other"}

File == [kind : {"free", "file", "dir"}, dev : Device \cup {None}, fd : Fd \cup {None},
         mode : Mode \cup {"none"}, pos : Nat, len : Nat]
Free == [kind |-> "free", dev |-> None, fd |-> None, mode |-> "none", pos |-> 0, len |-> 0]
Reads(mode) == mode \in {"r", "r+", "w+", "a+"}
Writes(mode) == mode \in {"r+", "w", "w+", "a", "a+"}
Appends(mode) == mode \in {"a", "a+"}

Io == [mode : Mode \cup {"none"}, len : Nat, done : Nat, moved : Nat, fd : Fd \cup {None}]
Asked(mode, len) == [mode |-> mode, len |-> len, done |-> 0, moved |-> 0, fd |-> None]

(***************************************************************************)
(* The mutex of a device (OSMutex: its owner may take it again).           *)
(***************************************************************************)
AvailableToAll(d, t) == TRUE    \* (faulty: the mutex is never waited for)
Available(d, t) == owner[d] \in {None, t}
Taken(d, t) ==
  /\ owner' = [owner EXCEPT ![d] = t]
  /\ times' = [times EXCEPT ![d] = @ + 1]
Given(d) ==
  /\ owner' = IF times[d] = 1 THEN [owner EXCEPT ![d] = None] ELSE owner
  /\ times' = [times EXCEPT ![d] = @ - 1]

Inside(t) == pc[t] \in {"in", "stat"}
Step(t, o) == wild = {} /\ pc[t] = "in" /\ op[t] = o /\ dev[t] \in slot

\* OSUnlockMutex and the return.
Return(t) ==
  /\ pc' = [pc EXCEPT ![t] = "idle"] /\ UNCHANGED op
  /\ dev' = [dev EXCEPT ![t] = None] /\ handle' = [handle EXCEPT ![t] = None]
Leave(t) == Return(t) /\ Given(dev[t])

(***************************************************************************)
(* The beginning of a call: the device of a path, by its name, or of an    *)
(* open handle, by its struct.                                             *)
(***************************************************************************)
InUse(h) == \E t \in Thread : handle[t] = h

Begin(t, o, d, h) ==
  /\ wild = {} /\ pc[t] = "idle"
  /\ calls < MaxCalls /\ calls' = calls + 1     \* (the bound)
  /\ pc' = [pc EXCEPT ![t] = "wait"] /\ op' = [op EXCEPT ![t] = o]
  /\ dev' = [dev EXCEPT ![t] = d] /\ handle' = [handle EXCEPT ![t] = h]
  /\ failed' = failed \ {t}
  /\ UNCHANGED <<devices, mutex, file, fsa, wild, lost, past, apart>>

FoundFreed(d) == d \in slot \cup gone    \* (faulty: the slot keeps the device)
Found(d) == d \in slot                   \* fs_dev_get_device_data; else ENODEV

ByPath(t, d) ==
  /\ Found(d)
  /\ Begin(t, "path", d, None)
  /\ io' = [io EXCEPT ![t] = Asked("none", 0)]

Opening(t, o, d, h, mode) ==
  /\ o \in OpenOp /\ Found(d)
  /\ file[h] = Free /\ ~InUse(h)
  /\ Begin(t, o, d, h)
  /\ io' = [io EXCEPT ![t] = Asked(mode, 0)]

\* A struct keeps the pointer to its device, whatever became of that.
OnHandle(t, o, h, n) ==
  /\ \/ file[h].kind = "file" /\ o \in FileOp
     \/ file[h].kind = "dir" /\ o \in DirOp
  /\ o = "read" => Reads(file[h].mode)
  /\ o = "write" => Writes(file[h].mode)
  /\ ~InUse(h)
  /\ Begin(t, o, file[h].dev, h)
  /\ io' = [io EXCEPT ![t] = Asked("none", n)]

Acquire(t) ==
  /\ wild = {} /\ pc[t] = "wait" /\ dev[t] \in slot /\ Available(dev[t], t)
  /\ pc' = [pc EXCEPT ![t] = "in"] /\ Taken(dev[t], t)
  /\ UNCHANGED <<devices, file, fsa, op, dev, handle, io, wild, calls, history>>

\* The mutex, fsaFd or mount_path of freed private data is used.
UseFreed(t) ==
  /\ wild = {} /\ pc[t] # "idle" /\ dev[t] \in gone
  /\ wild' = {dev[t]}
  /\ UNCHANGED <<devices, mutex, file, fsa, call, io, calls, history>>

(***************************************************************************)
(* The requests.                                                           *)
(***************************************************************************)
\* rename does not even ask.
Ask(t) ==
  /\ Step(t, "path") \/ Step(t, "ask")
  /\ Leave(t)
  /\ UNCHANGED <<devices, file, fsa, io, wild, calls, history>>

Opens(fd) ==
  /\ fd \notin opened
  /\ opened' = opened \cup {fd} /\ place' = [place EXCEPT ![fd] = 0]

OpenFile(t) ==
  /\ Step(t, "open")
  /\ \E fd \in Fd :
       /\ Opens(fd)
       /\ io' = [io EXCEPT ![t].fd = fd]
  /\ pc' = [pc EXCEPT ![t] = "stat"]
  /\ UNCHANGED <<devices, mutex, file, op, dev, handle, wild, calls, history>>

OpenFails(t) ==
  /\ \E o \in OpenOp : Step(t, o)
  /\ Leave(t)
  /\ UNCHANGED <<devices, file, fsa, io, wild, calls, history>>

\* IOSUHAX_FSA_StatFile tells the length.
StatFile(t) ==
  /\ wild = {} /\ pc[t] = "stat" /\ dev[t] \in slot
  /\ \E n \in Lens :
       file' = [file EXCEPT ![handle[t]] =
                  [kind |-> "file", dev |-> dev[t], fd |-> io[t].fd, mode |-> io[t].mode,
                   pos |-> 0, len |-> n]]
  /\ apart' = IF Appends(io[t].mode) THEN apart \cup {handle[t]} ELSE apart \ {handle[t]}
  /\ io' = [io EXCEPT ![t].fd = None]
  /\ Leave(t)
  /\ UNCHANGED <<devices, fsa, wild, calls, lost, past, failed>>

\* IOSUHAX_FSA_CloseFile, whose result says nothing of what is open then.
Closes(fd) ==
  /\ \/ opened' = opened \ {fd} /\ UNCHANGED lost
     \/ lost' = lost \cup {fd} /\ UNCHANGED opened
  /\ UNCHANGED place

StatFailsOpen(t) ==    \* (faulty: the FSA handle stays open)
  /\ wild = {} /\ pc[t] = "stat" /\ dev[t] \in slot
  /\ io' = [io EXCEPT ![t].fd = None]
  /\ Leave(t)
  /\ UNCHANGED <<devices, file, fsa, wild, calls, history>>
StatFailsLocked(t) ==  \* (faulty: the mutex is kept)
  /\ wild = {} /\ pc[t] = "stat" /\ dev[t] \in slot
  /\ Closes(io[t].fd)
  /\ io' = [io EXCEPT ![t].fd = None]
  /\ Return(t)
  /\ UNCHANGED <<devices, mutex, file, wild, calls, past, failed, apart>>
StatFails(t) ==
  /\ wild = {} /\ pc[t] = "stat" /\ dev[t] \in slot
  /\ Closes(io[t].fd)
  /\ io' = [io EXCEPT ![t].fd = None]
  /\ Leave(t)
  /\ UNCHANGED <<devices, file, wild, calls, past, failed, apart>>

OpenDir(t) ==
  /\ Step(t, "diropen")
  /\ \E fd \in Fd :
       /\ Opens(fd)
       /\ file' = [file EXCEPT ![handle[t]] =
                     [Free EXCEPT !.kind = "dir", !.dev = dev[t], !.fd = fd]]
  /\ Leave(t)
  /\ UNCHANGED <<devices, io, wild, calls, history>>

\* newlib frees the struct, whether FSA closed the handle or not.
Close(t) ==
  /\ Step(t, "close")
  /\ Closes(file[handle[t]].fd)
  /\ file' = [file EXCEPT ![handle[t]] = Free]
  /\ Leave(t)
  /\ UNCHANGED <<devices, io, wild, calls, past, failed, apart>>

\* SetFilePos may fail when pos is already changed.
SeekTo(t, f, pos) ==
  /\ file' = [file EXCEPT ![handle[t]].pos = pos]
  /\ \/ place' = [place EXCEPT ![f.fd] = pos] /\ apart' = apart \ {handle[t]}
     \/ apart' = apart \cup {handle[t]} /\ UNCHANGED place
  /\ Leave(t) /\ UNCHANGED jammed

Seek(t) ==
  LET f == file[handle[t]] IN
  /\ Step(t, "seek")
  /\ \E whence \in Whence :
       CASE whence = "set" -> SeekTo(t, f, io[t].len)
         [] whence = "cur" -> SeekTo(t, f, f.pos + io[t].len)
         [] whence = "end" -> SeekTo(t, f, f.len + io[t].len)
         [] OTHER -> Return(t) /\ jammed' = jammed \cup {dev[t]} /\ UNCHANGED <<mutex, file, place, apart>>
  /\ UNCHANGED <<devices, opened, io, wild, calls, lost, stranded, early, failed>>

(***************************************************************************)
(* read and write: requests for what is left, until all is done, FSA does  *)
(* nothing, or a request fails.                                            *)
(***************************************************************************)
Wants(t, o) == Step(t, o) /\ io[t].done < io[t].len

Done(t, n) ==
  /\ io' = [io EXCEPT ![t].done = @ + n, ![t].moved = @ + n]
  /\ place' = [place EXCEPT ![file[handle[t]].fd] = @ + n]

MovesUncounted(t, n) ==    \* (faulty: the position is that of the whole call)
  /\ Done(t, n)
  /\ file' = IF io[t].done + n < io[t].len THEN file ELSE [file EXCEPT ![handle[t]].pos = @ + n]
  /\ UNCHANGED apart

\* With "a" FSA writes at the end of the file, wherever the handle is.
Moves(t, n) ==
  /\ Done(t, n)
  /\ file' = [file EXCEPT ![handle[t]].pos = @ + n]
  /\ apart' = IF op[t] = "write" /\ Appends(file[handle[t]].mode) THEN apart \cup {handle[t]} ELSE apart

Transfer(t) ==
  /\ Wants(t, "read") \/ Wants(t, "write")
  /\ \E n \in 1 .. io[t].len - io[t].done : Moves(t, n)
  /\ UNCHANGED <<devices, opened, mutex, call, wild, calls, lost, past, failed>>

Ends(t, done) ==
  /\ io' = [io EXCEPT ![t].done = done]
  /\ Leave(t)
  /\ UNCHANGED <<devices, file, fsa, wild, calls, lost, past, apart>>
Fails(t, done) == Ends(t, done) /\ failed' = failed \cup {t}

\* A read ends with what there was, and forgets what it read when FSA fails; a
\* write keeps what it wrote then, and forgets it when there is no more room.
ReadEnds(t) ==
  Wants(t, "read") /\ ((Ends(t, io[t].done) /\ UNCHANGED failed) \/ Fails(t, 0))
WriteEndsFull(t) ==    \* (faulty: no more room is taken for the end)
  Wants(t, "write") /\ ((Ends(t, io[t].done) /\ UNCHANGED failed) \/ Fails(t, io[t].done))
WriteEnds(t) == Wants(t, "write") /\ \E done \in {0, io[t].done} : Fails(t, done)

Complete(t) ==
  /\ Step(t, "read") \/ Step(t, "write")
  /\ io[t].done = io[t].len
  /\ Ends(t, io[t].done) /\ UNCHANGED failed

(***************************************************************************)
(* mount_fs and unmount_fs.                                                *)
(***************************************************************************)
New(d) == d \notin slot \cup gone

\* A device without a dev_path is not mounted, only named.  Without a free
\* slot the volume stays mounted.
MountFs(d) ==
  /\ wild = {} /\ New(d)
  /\ \E mounted \in SUBSET {d} :
       /\ volumes' = volumes \cup mounted
       /\ \/ /\ Cardinality(slot) < Slots
             /\ slot' = slot \cup {d} /\ UNCHANGED <<gone, stranded>>
          \/ /\ Cardinality(slot) >= Slots
             /\ gone' = gone \cup {d} /\ stranded' = stranded \cup mounted /\ UNCHANGED slot
  /\ UNCHANGED <<mutex, file, fsa, call, io, wild, calls, lost, early, jammed, failed, apart>>

Busy(d) == (\E h \in Handle : file[h].dev = d) \/ (\E t \in Thread : dev[t] = d)

UnmountFs(d) ==
  /\ wild = {} /\ d \in slot
  /\ slot' = slot \ {d} /\ gone' = gone \cup {d}
  /\ \/ volumes' = volumes \ {d} /\ UNCHANGED stranded
     \/ d \in volumes /\ stranded' = stranded \cup {d} /\ UNCHANGED volumes
  /\ early' = IF Busy(d) THEN early \cup {d} ELSE early
  /\ UNCHANGED <<mutex, file, fsa, call, io, wild, calls, lost, jammed, failed, apart>>

----------------------------------------------------------------------------
Init ==
  /\ slot = {} /\ gone = {} /\ volumes = {}
  /\ owner = [d \in Device |-> None] /\ times = [d \in Device |-> 0]
  /\ file = [h \in Handle |-> Free] /\ opened = {} /\ place = [fd \in Fd |-> 0]
  /\ pc = [t \in Thread |-> "idle"] /\ op = [t \in Thread |-> "none"]
  /\ dev = [t \in Thread |-> None] /\ handle = [t \in Thread |-> None]
  /\ io = [t \in Thread |-> Asked("none", 0)]
  /\ wild = {} /\ calls = 0
  /\ lost = {} /\ stranded = {} /\ early = {} /\ jammed = {} /\ failed = {} /\ apart = {}

Begins(t) ==
  \/ \E d \in Device : ByPath(t, d)
  \/ \E d \in Device, h \in Handle : \/ Opening(t, "diropen", d, h, "none")
                                     \/ \E mode \in Mode : Opening(t, "open", d, h, mode)
  \/ \E h \in Handle :
       \/ \E o \in DirOp : OnHandle(t, o, h, 0)
       \/ \E o \in FileOp \ DirOp, n \in Lens : OnHandle(t, o, h, n)

Requests(t) ==
  \/ Ask(t) \/ OpenFile(t) \/ OpenFails(t) \/ StatFile(t) \/ StatFails(t)
  \/ OpenDir(t) \/ Close(t) \/ Seek(t)
  \/ Transfer(t) \/ ReadEnds(t) \/ WriteEnds(t) \/ Complete(t)

Next ==
  \/ \E t \in Thread : Begins(t) \/ Acquire(t) \/ UseFreed(t) \/ Requests(t)
  \/ \E d \in Device : MountFs(d) \/ UnmountFs(d)

Spec == Init /\ [][Next]_vars

(***************************************************************************)
(* Properties.                                                             *)
(***************************************************************************)
\* Types.
TypeOK ==
  /\ slot \subseteq Device /\ gone \subseteq Device /\ volumes \subseteq Device
  /\ owner \in [Device -> Thread \cup {None}] /\ times \in [Device -> Nat]
  /\ file \in [Handle -> File]
  /\ opened \subseteq Fd /\ place \in [Fd -> Nat]
  /\ pc \in [Thread -> {"idle", "wait", "in", "stat"}]
  /\ op \in [Thread -> OpenOp \cup FileOp \cup {"none", "path"}]
  /\ dev \in [Thread -> Device \cup {None}] /\ handle \in [Thread -> Handle \cup {None}]
  /\ io \in [Thread -> Io]
  /\ wild \subseteq Device /\ calls \in Nat
  /\ lost \subseteq Fd /\ stranded \subseteq Device /\ early \subseteq Device /\ jammed \subseteq Device
  /\ failed \subseteq Thread /\ apart \subseteq Handle

\* No two threads are inside a call of one device.
OneInside == \A t, u \in Thread : Inside(t) /\ Inside(u) /\ dev[t] = dev[u] => t = u

\* Every way out of a call gives the mutex back, but for a seek from nowhere:
\* who holds it is inside, or the device is jammed for every other thread.
HeldInside ==
  \A d \in Device : owner[d] # None =>
    d \in jammed \/ (Inside(owner[d]) /\ dev[owner[d]] = d)

\* Every open handle of FSA, and every mounted volume, belongs to one file,
\* folder or device of the driver, unless closing it failed: no failing call
\* leaves one behind, whatever device is unmounted meanwhile.
HandlesAccounted ==
  /\ \A fd \in opened :
       fd \in lost \/ (\E h \in Handle : file[h].fd = fd) \/ (\E t \in Thread : io[t].fd = fd)
  /\ \A h, k \in Handle : file[h].fd # None /\ file[h].fd = file[k].fd => h = k
  /\ volumes \subseteq slot \cup stranded

\* The position the driver keeps for a file, and gives its callers, is that of
\* FSA, until SetFilePos fails or the file is written at its end.
PositionTrue ==
  \A h \in Handle : file[h].kind = "file" /\ h \notin apart =>
    file[h].pos = place[file[h].fd]

\* A read or write returns what it moved, or 0 when a request failed; and a
\* write that returns less than it was given has had one fail.
ResultHonest ==
  \A t \in Thread : pc[t] = "idle" /\ op[t] \in {"read", "write"} =>
    /\ io[t].done = io[t].moved \/ (io[t].done = 0 /\ t \in failed)
    /\ op[t] = "write" /\ io[t].done < io[t].len => t \in failed

\* Freed memory is used only by a thread that was inside a call, or had a file
\* open, when unmount_fs removed its device; no name leads there.
FreedOnlyInUse == wild \subseteq early
=============================================================================
