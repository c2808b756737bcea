--------------------------- MODULE FsDeviceProofs ---------------------------
(***************************************************************************)
(* What holds of the devices for any number of threads, devices, files and *)
(* calls.                                                                  *)
(***************************************************************************)
EXTENDS FsDevice, TLAPS

LEMMA FdKept ==
  ASSUME TypeOK, NEW t \in Thread, NEW fd \in Fd \cup {None}, io' = [io EXCEPT ![t].fd = fd]
  PROVE  /\ io' \in [Thread -> Io]
         /\ \A u \in Thread : io'[u].fd = IF u = t THEN fd ELSE io[u].fd
<1>1. io \in [Thread -> Io]
  BY DEF TypeOK
<1>2. [io[t] EXCEPT !.fd = fd] \in Io
  BY <1>1 DEF Io
<1>3. io' = [io EXCEPT ![t] = [io[t] EXCEPT !.fd = fd]]
  OBVIOUS
<1>4. [io[t] EXCEPT !.fd = fd].fd = fd
  BY <1>1 DEF Io
<1>. QED BY <1>1, <1>2, <1>3, <1>4

Calling(t) == pc[t] # "idle"

\* A call has a device; a call on a file has that file to itself.
CallInv ==
  /\ \A t \in Thread : Calling(t) => dev[t] \in Device
  /\ \A t \in Thread : ~Calling(t) => dev[t] = None /\ handle[t] = None
  /\ \A t \in Thread : Calling(t) /\ op[t] # "path" => handle[t] \in Handle
  /\ \A t, u \in Thread : handle[t] # None /\ handle[t] = handle[u] => t = u
  /\ \A t \in Thread : Calling(t) /\ op[t] \in FileOp =>
       /\ file[handle[t]].kind # "free"
       /\ op[t] \notin DirOp => file[handle[t]].kind = "file"
  /\ \A t \in Thread : Calling(t) /\ op[t] \in OpenOp => file[handle[t]].kind = "free"
  /\ \A t \in Thread : pc[t] = "stat" => op[t] = "open"
  /\ \A t \in Thread : pc[t] = "stat" <=> io[t].fd # None

\* An open file has a handle of FSA to itself, and so has a file half open.
FileInv ==
  /\ \A h \in Handle : file[h].kind = "free" => file[h] = Free
  /\ \A h \in Handle : file[h].kind # "free" => file[h].dev \in Device /\ file[h].fd \in Fd
  /\ \A h \in Handle : file[h].kind # "free" => file[h].fd \in opened
  /\ \A t \in Thread : io[t].fd # None => io[t].fd \in opened
  /\ \A h, k \in Handle : file[h].fd # None /\ file[h].fd = file[k].fd => h = k
  /\ \A t \in Thread, h \in Handle : io[t].fd # None => io[t].fd # file[h].fd
  /\ \A t, u \in Thread : io[t].fd # None /\ io[t].fd = io[u].fd => t = u
  /\ \A fd \in lost : /\ fd \in opened
                              /\ \A h \in Handle : file[h].fd # fd
                              /\ \A t \in Thread : io[t].fd # fd

\* Who is inside has the mutex, once unless the device is jammed.
MutexInv ==
  /\ \A t \in Thread : Inside(t) => owner[dev[t]] = t
  /\ \A d \in Device : owner[d] = None <=> times[d] = 0
  /\ \A d \in Device : d \notin jammed => times[d] <= 1
  /\ HeldInside

Inv == TypeOK /\ CallInv /\ FileInv /\ MutexInv

LEMMA InitInv == Init => Inv
<1>. SUFFICES ASSUME Init PROVE Inv
  OBVIOUS
<1>. USE DeviceAssumption
<1>1. TypeOK
  BY DEF Init, TypeOK, Free, File, Io, Asked
<1>2. CallInv
  BY DEF Init, CallInv, Calling, Asked
<1>3. FileInv
  BY DEF Init, FileInv, Free, Asked
<1>4. MutexInv
  BY DEF Init, MutexInv, HeldInside, Inside
<1>. QED BY <1>1, <1>2, <1>3, <1>4 DEF Inv

\* What a call that begins leaves alone.
LEMMA BeginInv ==
  ASSUME Inv, NEW t \in Thread, NEW o \in OpenOp \cup FileOp \cup {"path"},
         NEW d \in Device, NEW h \in Handle \cup {None},
         Begin(t, o, d, h), o # "path" => h \in Handle, h # None => ~InUse(h),
         NEW mode \in Mode \cup {"none"}, NEW n \in Nat,
         io' = [io EXCEPT ![t] = Asked(mode, n)],
         o \in FileOp => file[h].kind # "free" /\ (o \notin DirOp => file[h].kind = "file"),
         o \in OpenOp => file[h].kind = "free"
  PROVE  Inv'
<1>. USE DeviceAssumption
<1>1. TypeOK'
  <2>1. calls' \in Nat
    BY DEF Inv, TypeOK, Begin
  <2>2. /\ pc' \in [Thread -> {"idle", "wait", "in", "stat"}]
       /\ op' \in [Thread -> OpenOp \cup FileOp \cup {"none", "path"}]
       /\ dev' \in [Thread -> Device \cup {None}] /\ handle' \in [Thread -> Handle \cup {None}]
    BY DEF Inv, TypeOK, Begin
  <2>3. io' \in [Thread -> Io]
    BY DEF Inv, TypeOK, Asked, Io
  <2>. QED BY <2>1, <2>2, <2>3 DEF Inv, TypeOK, Begin, devices, mutex, past, fsa
<1>2. CallInv'
  BY DEF Inv, TypeOK, CallInv, Begin, Asked, Calling, InUse, FileOp, OpenOp, DirOp
<1>3. FileInv'
  BY DEF Inv, TypeOK, FileInv, Begin, Asked, fsa
<1>4. MutexInv'
  BY DEF Inv, TypeOK, MutexInv, HeldInside, Inside, Begin, past, mutex
<1>. QED BY <1>1, <1>2, <1>3, <1>4 DEF Inv

LEMMA BeginsInv == ASSUME Inv, NEW t \in Thread, Begins(t) PROVE Inv'
<1>. USE DeviceAssumption
<1>1. ASSUME NEW d \in Device, ByPath(t, d) PROVE Inv'
  <2>1. Begin(t, "path", d, None) /\ io' = [io EXCEPT ![t] = Asked("none", 0)]
    BY <1>1 DEF ByPath
  <2>2. "path" \notin OpenOp \cup FileOp
    BY DEF OpenOp, FileOp, DirOp
  <2>. QED BY <2>1, <2>2, BeginInv
<1>2. ASSUME NEW o \in OpenOp, NEW d \in Device, NEW h \in Handle, NEW mode \in Mode \cup {"none"},
             Opening(t, o, d, h, mode)
      PROVE  Inv'
  <2>1. /\ Begin(t, o, d, h) /\ ~InUse(h)
        /\ io' = [io EXCEPT ![t] = Asked(mode, 0)]
    BY <1>2 DEF Opening
  <2>2. file[h].kind = "free"
    BY <1>2 DEF Opening, Free
  <2>3. o \notin FileOp
    BY DEF OpenOp, FileOp, DirOp
  <2>. QED BY <2>1, <2>2, <2>3, BeginInv
<1>3. ASSUME NEW o \in FileOp, NEW h \in Handle, NEW n \in Nat, OnHandle(t, o, h, n) PROVE Inv'
  <2>1. file[h].kind # "free" /\ (o \notin DirOp => file[h].kind = "file")
    BY <1>3 DEF OnHandle
  <2>2. file[h].dev \in Device
    BY <2>1 DEF Inv, FileInv
  <2>3. o \notin OpenOp
    BY DEF OpenOp, FileOp, DirOp
  <2>4. /\ Begin(t, o, file[h].dev, h) /\ ~InUse(h)
        /\ io' = [io EXCEPT ![t] = Asked("none", n)]
    BY <1>3 DEF OnHandle
  <2>. QED BY <2>1, <2>2, <2>3, <2>4, BeginInv
<1>. QED BY <1>1, <1>2, <1>3 DEF Begins, OpenOp, FileOp, DirOp

\* The mutex when a call takes it and gives it back.
LEMMA TakenInv ==
  ASSUME Inv, NEW t \in Thread, Acquire(t)
  PROVE  Inv'
<1>. USE DeviceAssumption
<1>1. TypeOK'
  BY DEF Inv, TypeOK, Acquire, Taken, devices, fsa, history, past
<1>2. CallInv'
  BY DEF Inv, TypeOK, CallInv, Acquire, Calling
<1>3. FileInv'
  BY DEF Inv, TypeOK, FileInv, Acquire, fsa, history
<1>4. MutexInv'
  BY DEF Inv, TypeOK, CallInv, MutexInv, HeldInside, Inside, Calling, Acquire, Taken, Available, history, past
<1>. QED BY <1>1, <1>2, <1>3, <1>4 DEF Inv

LEMMA GivenInv ==
  ASSUME Inv, NEW t \in Thread, Inside(t), Leave(t), UNCHANGED jammed
  PROVE  /\ owner' \in [Device -> Thread \cup {None}] /\ times' \in [Device -> Nat]
         /\ MutexInv'
<1>. USE DeviceAssumption
<1>1. dev[t] \in Device /\ owner[dev[t]] = t /\ times[dev[t]] > 0
  BY DEF Inv, TypeOK, CallInv, MutexInv, Inside, Calling
<1>2. owner' \in [Device -> Thread \cup {None}] /\ times' \in [Device -> Nat]
  BY <1>1 DEF Inv, TypeOK, Leave, Given
<1>3. MutexInv'
  BY <1>1, <1>2 DEF Inv, TypeOK, MutexInv, HeldInside, Inside, Leave, Return, Given
<1>. QED BY <1>2, <1>3
\* The requests that end a call without a change of its file.
LEMMA AskInv == ASSUME Inv, NEW t \in Thread, Ask(t) \/ OpenFails(t) PROVE Inv'
<1>. USE DeviceAssumption
<1>1. Inside(t) /\ Leave(t) /\ UNCHANGED <<devices, file, fsa, io, wild, calls, history>>
      /\ pc[t] = "in"
  BY DEF Ask, OpenFails, Step, Inside
<1>2. TypeOK'
  BY <1>1, GivenInv DEF Inv, TypeOK, Leave, Return, devices, fsa, history, past
<1>3. CallInv'
  BY <1>1 DEF Inv, TypeOK, CallInv, Calling, Leave, Return
<1>4. FileInv'
  BY <1>1 DEF Inv, FileInv, fsa, history
<1>5. MutexInv'
  BY <1>1, GivenInv DEF history, past
<1>. QED BY <1>2, <1>3, <1>4, <1>5 DEF Inv

LEMMA OpenFileInv == ASSUME Inv, NEW t \in Thread, OpenFile(t) PROVE Inv'
<1>. USE DeviceAssumption
<1>1. PICK fd \in Fd : Opens(fd) /\ io' = [io EXCEPT ![t].fd = fd]
  BY DEF OpenFile
<1>2. TypeOK'
  <2>1. io' \in [Thread -> Io]
    BY <1>1, FdKept DEF Inv
  <2>2. place' \in [Fd -> Nat] /\ opened' \subseteq Fd
    BY <1>1 DEF Inv, TypeOK, Opens
  <2>3. pc' \in [Thread -> {"idle", "wait", "in", "stat"}]
    BY DEF Inv, TypeOK, OpenFile
  <2>. QED BY <2>1, <2>2, <2>3 DEF Inv, TypeOK, OpenFile, devices, mutex, history, past
<1>3. CallInv'
  BY <1>1 DEF Inv, TypeOK, CallInv, Calling, OpenFile, Step
<1>4. FileInv'
  <2>1. fd \notin opened /\ opened' = opened \cup {fd} /\ UNCHANGED <<file, lost>>
    BY <1>1 DEF OpenFile, Opens, history
  <2>2. /\ \A h \in Handle : file[h].fd # fd
        /\ \A u \in Thread : io[u].fd # fd
    <3>1. \A h \in Handle : file[h].kind = "free" => file[h].fd = None
      BY DEF Inv, FileInv, Free
    <3>. QED BY <2>1, <3>1 DEF Inv, FileInv
  <2>3. fd \notin lost
    BY <2>1 DEF Inv, FileInv
  <2>4. \A u \in Thread : io'[u].fd = IF u = t THEN fd ELSE io[u].fd
    BY <1>1, FdKept DEF Inv
  <2>. QED BY <2>1, <2>2, <2>3, <2>4 DEF Inv, FileInv
<1>5. MutexInv'
  BY <1>1 DEF Inv, TypeOK, MutexInv, HeldInside, Inside, OpenFile, Step, mutex, history, past
<1>. QED BY <1>2, <1>3, <1>4, <1>5 DEF Inv

LEMMA StatFileInv == ASSUME Inv, NEW t \in Thread, StatFile(t) PROVE Inv'
<1>. USE DeviceAssumption
<1>0. /\ pc[t] = "stat" /\ op[t] = "open" /\ io[t].fd \in Fd /\ dev[t] \in Device
      /\ handle[t] \in Handle /\ file[handle[t]].kind = "free"
  BY DEF StatFile, Inv, TypeOK, Io, CallInv, Calling, OpenOp
<1>1. PICK n \in Nat :
        file' = [file EXCEPT ![handle[t]] = [kind |-> "file", dev |-> dev[t], fd |-> io[t].fd,
                                             mode |-> io[t].mode, pos |-> 0, len |-> n]]
  BY DEF StatFile
<1>2. TypeOK'
  <2>1. file' \in [Handle -> File]
    BY <1>0, <1>1 DEF Inv, TypeOK, File, Io
  <2>2. io' \in [Thread -> Io]
    BY FdKept DEF Inv, StatFile
  <2>3. apart' \subseteq Handle
    BY <1>0 DEF Inv, TypeOK, StatFile
  <2>. QED BY <1>0, <2>1, <2>2, <2>3, GivenInv
           DEF Inv, TypeOK, StatFile, Inside, Leave, Return, devices, fsa, past
<1>3. CallInv'
  BY <1>0, <1>1 DEF Inv, TypeOK, CallInv, Calling, StatFile, Leave, Return
<1>4. FileInv'
  BY <1>0, <1>1 DEF Inv, TypeOK, CallInv, FileInv, StatFile, fsa
<1>5. MutexInv'
  BY <1>0, GivenInv DEF StatFile, Inside, past
<1>. QED BY <1>2, <1>3, <1>4, <1>5 DEF Inv

LEMMA StatFailsInv == ASSUME Inv, NEW t \in Thread, StatFails(t) PROVE Inv'
<1>. USE DeviceAssumption
<1>0. io[t].fd \in Fd /\ pc[t] = "stat"
  BY DEF StatFails, Inv, TypeOK, Io, CallInv
<1>2. TypeOK'
  <2>1. io' \in [Thread -> Io]
    BY FdKept DEF Inv, StatFails
  <2>. QED BY <1>0, <2>1, GivenInv
           DEF Inv, TypeOK, StatFails, Closes, Inside, Leave, Return, devices, past
<1>3. CallInv'
  BY <1>0 DEF Inv, TypeOK, CallInv, Calling, StatFails, Leave, Return
<1>4. FileInv'
  BY <1>0 DEF Inv, TypeOK, CallInv, FileInv, StatFails, Closes
<1>5. MutexInv'
  BY <1>0, GivenInv DEF StatFails, Inside, past
<1>. QED BY <1>2, <1>3, <1>4, <1>5 DEF Inv

LEMMA OpenDirInv == ASSUME Inv, NEW t \in Thread, OpenDir(t) PROVE Inv'
<1>. USE DeviceAssumption
<1>0. /\ pc[t] = "in" /\ dev[t] \in Device /\ io[t].fd = None
      /\ handle[t] \in Handle /\ file[handle[t]].kind = "free"
  BY DEF OpenDir, Step, Inv, TypeOK, CallInv, Calling, OpenOp
<1>1. PICK fd \in Fd :
        /\ Opens(fd)
        /\ file' = [file EXCEPT ![handle[t]] = [Free EXCEPT !.kind = "dir", !.dev = dev[t], !.fd = fd]]
  BY DEF OpenDir
<1>2. TypeOK'
  <2>1. file' \in [Handle -> File]
    BY <1>0, <1>1 DEF Inv, TypeOK, Free, File
  <2>. QED BY <1>0, <1>1, <2>1, GivenInv
           DEF Inv, TypeOK, OpenDir, Opens, Inside, Leave, Return, devices, history, past
<1>3. CallInv'
  BY <1>0, <1>1 DEF Inv, TypeOK, CallInv, Calling, OpenDir, Leave, Return
<1>4. FileInv'
  BY <1>0, <1>1 DEF Inv, TypeOK, CallInv, FileInv, OpenDir, Opens, Free, history
<1>5. MutexInv'
  BY <1>0, GivenInv DEF OpenDir, Inside, history, past
<1>. QED BY <1>2, <1>3, <1>4, <1>5 DEF Inv

LEMMA CloseInv == ASSUME Inv, NEW t \in Thread, Close(t) PROVE Inv'
<1>. USE DeviceAssumption
<1>0. /\ pc[t] = "in" /\ handle[t] \in Handle /\ file[handle[t]].kind # "free"
      /\ file[handle[t]].fd \in Fd
  BY DEF Close, Step, Inv, CallInv, FileInv, Calling, FileOp, DirOp
<1>2. TypeOK'
  <2>1. file' \in [Handle -> File]
    BY DEF Inv, TypeOK, Close, Free, File
  <2>2. opened' \subseteq Fd /\ lost' \subseteq Fd /\ UNCHANGED place
    BY <1>0 DEF Inv, TypeOK, Close, Closes
  <2>. QED BY <1>0, <2>1, <2>2, GivenInv
           DEF Inv, TypeOK, Close, Inside, Leave, Return, devices, past
<1>3. CallInv'
  BY <1>0 DEF Inv, TypeOK, CallInv, Calling, Close, Leave, Return
<1>4. FileInv'
  <2>1. /\ \/ opened' = opened \ {file[handle[t]].fd} /\ lost' = lost
           \/ lost' = lost \cup {file[handle[t]].fd} /\ opened' = opened
        /\ io' = io
    BY DEF Close, Closes
  <2>2. \A h \in Handle : file'[h] = IF h = handle[t] THEN Free ELSE file[h]
    BY DEF Inv, TypeOK, Close
  <2>3. Free.kind = "free" /\ Free.fd = None
    BY DEF Free
  <2>4. \A h \in Handle : h # handle[t] => file[h].fd # file[handle[t]].fd
    BY <1>0 DEF Inv, FileInv
  <2>5. \A u \in Thread : io[u].fd # None => io[u].fd # file[handle[t]].fd
    BY <1>0 DEF Inv, FileInv
  <2>6. \A h \in Handle : file'[h].kind # "free" => h # handle[t] /\ file'[h] = file[h]
    BY <2>2, <2>3
  <2>7. \A h \in Handle : file'[h].fd # None => h # handle[t] /\ file'[h] = file[h]
    BY <2>2, <2>3
  <2>8. \A fd \in lost' : /\ fd \in opened'
                        /\ \A h \in Handle : file'[h].fd # fd
                        /\ \A u \in Thread : io'[u].fd # fd
    BY <1>0, <2>1, <2>4, <2>5, <2>7, DeviceAssumption DEF Inv, TypeOK, FileInv
  <2>9. \A u \in Thread, h \in Handle : io'[u].fd # None => io'[u].fd # file'[h].fd
    BY <2>1, <2>2, <2>3 DEF Inv, FileInv
  <2>10. /\ \A h \in Handle : file'[h].kind # "free" => file'[h].fd \in opened'
         /\ \A u \in Thread : io'[u].fd # None => io'[u].fd \in opened'
    BY <1>0, <2>1, <2>4, <2>5, <2>6 DEF Inv, FileInv
  <2>. QED BY <2>1, <2>2, <2>3, <2>6, <2>7, <2>8, <2>9, <2>10 DEF Inv, FileInv
<1>5. MutexInv'
  BY <1>0, GivenInv DEF Close, Inside, past
<1>. QED BY <1>2, <1>3, <1>4, <1>5 DEF Inv
\* A change of its position leaves a file what it is.
LEMMA PosKept ==
  ASSUME TypeOK, NEW h \in Handle, NEW pos \in Nat, file' = [file EXCEPT ![h].pos = pos]
  PROVE  /\ file' \in [Handle -> File]
         /\ \A k \in Handle : /\ file'[k].kind = file[k].kind /\ file'[k].dev = file[k].dev
                             /\ file'[k].fd = file[k].fd /\ file'[k].mode = file[k].mode
         /\ file'[h].pos = pos
         /\ \A k \in Handle : k # h => file'[k] = file[k]
<1>1. file \in [Handle -> File]
  BY DEF TypeOK
<1>2. DEFINE g == [file[h] EXCEPT !.pos = pos]
<1>3. file' = [file EXCEPT ![h] = g]
  OBVIOUS
<1>4. g \in File /\ g.kind = file[h].kind /\ g.dev = file[h].dev /\ g.fd = file[h].fd
      /\ g.mode = file[h].mode /\ g.pos = pos
  BY <1>1 DEF File
<1>. HIDE DEF g
<1>. QED BY <1>1, <1>3, <1>4

LEMMA MovedInv ==
  ASSUME Inv, NEW t \in Thread, pc[t] = "in", op[t] \in {"seek", "read", "write"},
         NEW pos \in Nat, file' = [file EXCEPT ![handle[t]].pos = pos],
         UNCHANGED <<opened, lost>>, \A u \in Thread : io'[u].fd = io[u].fd
  PROVE  FileInv'
<1>0. handle[t] \in Handle /\ file[handle[t]].kind = "file"
  BY DEF Inv, CallInv, Calling, FileOp, DirOp
<1>1. /\ \A k \in Handle : /\ file'[k].kind = file[k].kind /\ file'[k].dev = file[k].dev
                          /\ file'[k].fd = file[k].fd
      /\ \A k \in Handle : k # handle[t] => file'[k] = file[k]
  BY <1>0, PosKept DEF Inv
<1>. QED BY <1>0, <1>1 DEF Inv, FileInv

LEMMA SeekInv == ASSUME Inv, NEW t \in Thread, Seek(t) PROVE Inv'
<1>. USE DeviceAssumption
<1>0. /\ pc[t] = "in" /\ op[t] = "seek" /\ handle[t] \in Handle /\ file[handle[t]].kind = "file"
      /\ file[handle[t]].fd \in Fd /\ file[handle[t]].pos \in Nat /\ file[handle[t]].len \in Nat
      /\ io[t].len \in Nat /\ dev[t] \in Device
      /\ UNCHANGED <<devices, opened, io, wild, calls, lost, stranded, early, failed>>
  BY DEF Seek, Step, Inv, TypeOK, File, Io, CallInv, FileInv, Calling, FileOp, DirOp
<1>1. ASSUME NEW pos \in Nat, SeekTo(t, file[handle[t]], pos) PROVE Inv'
  <2>1. TypeOK'
    <3>1. file' \in [Handle -> File]
      BY <1>0, <1>1, PosKept DEF Inv, SeekTo
    <3>2. place' \in [Fd -> Nat] /\ apart' \subseteq Handle
      BY <1>0, <1>1 DEF Inv, TypeOK, SeekTo
    <3>. QED BY <1>0, <1>1, <3>1, <3>2, GivenInv
             DEF Inv, TypeOK, SeekTo, Inside, Leave, Return, devices
  <2>2. CallInv'
    <3>1. \A k \in Handle : file'[k].kind = file[k].kind
      BY <1>0, <1>1, PosKept DEF Inv, SeekTo
    <3>. QED BY <1>0, <1>1, <3>1 DEF Inv, TypeOK, CallInv, Calling, SeekTo, Leave, Return
  <2>3. FileInv'
    BY <1>0, <1>1, MovedInv DEF SeekTo
  <2>4. MutexInv'
    BY <1>0, <1>1, GivenInv DEF SeekTo, Inside
  <2>. QED BY <2>1, <2>2, <2>3, <2>4 DEF Inv
<1>2. ASSUME Return(t), jammed' = jammed \cup {dev[t]}, UNCHANGED <<mutex, file, place, apart>>
      PROVE  Inv'
  <2>1. TypeOK'
    BY <1>0, <1>2 DEF Inv, TypeOK, Return, devices, mutex
  <2>2. CallInv'
    BY <1>0, <1>2 DEF Inv, TypeOK, CallInv, Calling, Return
  <2>3. FileInv'
    BY <1>0, <1>2 DEF Inv, FileInv
  <2>4. MutexInv'
    BY <1>0, <1>2 DEF Inv, TypeOK, MutexInv, HeldInside, Inside, Return, mutex
  <2>. QED BY <2>1, <2>2, <2>3, <2>4 DEF Inv
<1>. QED BY <1>0, <1>1, <1>2 DEF Seek, Whence

LEMMA TransferInv == ASSUME Inv, NEW t \in Thread, Transfer(t) PROVE Inv'
<1>. USE DeviceAssumption
<1>0. /\ pc[t] = "in" /\ op[t] \in {"read", "write"} /\ handle[t] \in Handle
      /\ file[handle[t]].fd \in Fd /\ file[handle[t]].pos \in Nat
      /\ io[t] \in Io /\ io \in [Thread -> Io]
      /\ UNCHANGED <<devices, opened, mutex, call, wild, calls, lost, past, failed>>
  BY DEF Transfer, Wants, Step, Inv, TypeOK, File, CallInv, FileInv, Calling, FileOp, DirOp
<1>1. PICK n \in 1 .. io[t].len - io[t].done : Moves(t, n)
  BY DEF Transfer
<1>2. n \in Nat /\ file[handle[t]].pos + n \in Nat
  BY <1>0 DEF Io
<1>3. file' = [file EXCEPT ![handle[t]].pos = file[handle[t]].pos + n]
  BY <1>1 DEF Moves
<1>4. io' \in [Thread -> Io] /\ \A u \in Thread : io'[u].fd = io[u].fd
  <2>. DEFINE r == [io[t] EXCEPT !.done = io[t].done + n, !.moved = io[t].moved + n]
  <2>1. io' = [io EXCEPT ![t] = r]
    BY <1>1 DEF Moves, Done
  <2>2. r \in Io /\ r.fd = io[t].fd
    <3>1. io[t].done + n \in Nat /\ io[t].moved + n \in Nat
      BY <1>0, <1>2 DEF Io
    <3>. QED BY <1>0, <3>1 DEF Io
  <2>. HIDE DEF r
  <2>. QED BY <1>0, <2>1, <2>2
<1>5. TypeOK'
  <2>1. file' \in [Handle -> File]
    BY <1>0, <1>2, <1>3, PosKept DEF Inv
  <2>2. place' \in [Fd -> Nat]
    BY <1>0, <1>1, <1>2 DEF Inv, TypeOK, Moves, Done
  <2>3. apart' \subseteq Handle
    BY <1>0, <1>1 DEF Inv, TypeOK, Moves
  <2>. QED BY <1>0, <1>4, <2>1, <2>2, <2>3 DEF Inv, TypeOK, devices, mutex, call, past
<1>6. CallInv'
  <2>1. \A k \in Handle : file'[k].kind = file[k].kind
    BY <1>0, <1>2, <1>3, PosKept DEF Inv
  <2>2. UNCHANGED <<pc, op, dev, handle>>
    BY <1>0 DEF call
  <2>. QED BY <1>4, <2>1, <2>2 DEF Inv, CallInv, Calling, FileOp, DirOp, OpenOp
<1>7. FileInv'
  BY <1>0, <1>2, <1>3, <1>4, MovedInv
<1>8. MutexInv'
  BY <1>0 DEF Inv, MutexInv, HeldInside, Inside, mutex, call, past
<1>. QED BY <1>5, <1>6, <1>7, <1>8 DEF Inv

LEMMA EndsInv ==
  ASSUME Inv, NEW t \in Thread, pc[t] = "in", op[t] \in {"read", "write"},
         NEW done \in Nat, Ends(t, done), failed' \subseteq Thread
  PROVE  Inv'
<1>. USE DeviceAssumption
<1>1. io' \in [Thread -> Io] /\ \A u \in Thread : io'[u].fd = io[u].fd
  <2>. DEFINE r == [io[t] EXCEPT !.done = done]
  <2>1. io' = [io EXCEPT ![t] = r]
    BY DEF Ends
  <2>2. io \in [Thread -> Io]
    BY DEF Inv, TypeOK
  <2>3. r \in Io /\ r.fd = io[t].fd
    BY <2>2 DEF Io
  <2>. HIDE DEF r
  <2>. QED BY <2>1, <2>2, <2>3
<1>2. TypeOK'
  BY <1>1, GivenInv DEF Inv, TypeOK, Ends, Inside, Leave, Return, devices, fsa, past
<1>3. CallInv'
  BY <1>1 DEF Inv, TypeOK, CallInv, Calling, Ends, Leave, Return
<1>4. FileInv'
  BY <1>1 DEF Inv, FileInv, Ends, fsa
<1>5. MutexInv'
  BY GivenInv DEF Ends, Inside, past
<1>. QED BY <1>2, <1>3, <1>4, <1>5 DEF Inv
\* Devices that come and go change nothing a call relies on but the slot.
LEMMA DevicesInv == ASSUME Inv, NEW d \in Device, MountFs(d) \/ UnmountFs(d) PROVE Inv'
<1>. USE DeviceAssumption
<1>1. UNCHANGED <<owner, times, file, opened, place, pc, op, dev, handle, io, wild, calls, lost,
                  jammed, failed, apart>>
  BY DEF MountFs, UnmountFs, mutex, fsa, call
<1>2. /\ slot' \subseteq Device /\ gone' \subseteq Device /\ volumes' \subseteq Device
      /\ stranded' \subseteq Device /\ early' \subseteq Device
  BY DEF Inv, TypeOK, MountFs, UnmountFs
<1>3. TypeOK'
  BY <1>1, <1>2 DEF Inv, TypeOK
<1>4. CallInv'
  BY <1>1 DEF Inv, CallInv, Calling
<1>5. FileInv'
  BY <1>1 DEF Inv, FileInv
<1>6. MutexInv'
  BY <1>1 DEF Inv, MutexInv, HeldInside, Inside
<1>. QED BY <1>3, <1>4, <1>5, <1>6 DEF Inv

LEMMA UseFreedInv == ASSUME Inv, NEW t \in Thread, UseFreed(t) PROVE Inv'
<1>1. UNCHANGED <<slot, gone, volumes, owner, times, file, opened, place, pc, op, dev, handle, io,
                  calls, lost, stranded, early, jammed, failed, apart>>
  BY DEF UseFreed, devices, mutex, fsa, call, history, past
<1>2. wild' \subseteq Device
  BY DEF UseFreed, Inv, TypeOK
<1>3. TypeOK'
  BY <1>1, <1>2 DEF Inv, TypeOK
<1>4. CallInv'
  BY <1>1 DEF Inv, CallInv, Calling
<1>5. FileInv'
  BY <1>1 DEF Inv, FileInv
<1>6. MutexInv'
  BY <1>1 DEF Inv, MutexInv, HeldInside, Inside
<1>. QED BY <1>3, <1>4, <1>5, <1>6 DEF Inv

LEMMA RequestsInv == ASSUME Inv, NEW t \in Thread, Requests(t) PROVE Inv'
<1>1. CASE Ask(t) \/ OpenFails(t)
  BY <1>1, AskInv
<1>2. CASE OpenFile(t) \/ OpenDir(t)
  BY <1>2, OpenFileInv, OpenDirInv
<1>3. CASE StatFile(t) \/ StatFails(t)
  BY <1>3, StatFileInv, StatFailsInv
<1>4. CASE Close(t) \/ Seek(t) \/ Transfer(t)
  BY <1>4, CloseInv, SeekInv, TransferInv
<1>5. CASE ReadEnds(t) \/ WriteEnds(t) \/ Complete(t)
  <2>1. pc[t] = "in" /\ op[t] \in {"read", "write"}
    BY <1>5 DEF ReadEnds, WriteEnds, Complete, Wants, Step
  <2>2. io[t].done \in Nat
    BY DEF Inv, TypeOK, Io
  <2>3. PICK done \in {0, io[t].done} : Ends(t, done) /\ failed' \subseteq Thread
    BY <1>5 DEF Inv, TypeOK, ReadEnds, WriteEnds, Complete, Fails
  <2>. QED BY <2>1, <2>2, <2>3, EndsInv
<1>. QED BY <1>1, <1>2, <1>3, <1>4, <1>5 DEF Requests

LEMMA NextInv == ASSUME Inv, [Next]_vars PROVE Inv'
<1>1. ASSUME NEW t \in Thread, Begins(t) \/ Acquire(t) \/ UseFreed(t) \/ Requests(t) PROVE Inv'
  BY <1>1, BeginsInv, TakenInv, UseFreedInv, RequestsInv
<1>2. ASSUME NEW d \in Device, MountFs(d) \/ UnmountFs(d) PROVE Inv'
  BY <1>2, DevicesInv
<1>3. CASE UNCHANGED vars
  <2>1. UNCHANGED <<slot, gone, volumes, owner, times, file, opened, place, pc, op, dev, handle, io,
                    wild, calls, lost, stranded, early, jammed, failed, apart>>
    BY <1>3 DEF vars, devices, mutex, fsa, call, history, past
  <2>. QED BY <2>1 DEF Inv, TypeOK, CallInv, Calling, FileInv, MutexInv, HeldInside, Inside
<1>. QED BY <1>1, <1>2, <1>3 DEF Next

\* Who is inside a call, with which device, file and mutex, at every step of
\* the driver.
THEOREM Invariance == Spec => []Inv
<1>1. Init => Inv
  BY InitInv
<1>2. Inv /\ [Next]_vars => Inv'
  BY NextInv
<1>. QED BY <1>1, <1>2, PTL DEF Spec

\* What the driver keeps has its type: for every number of threads and calls.
THEOREM TypeCorrect == Spec => []TypeOK
<1>1. Inv => TypeOK
  BY DEF Inv
<1>. QED BY <1>1, Invariance, PTL

\* However many threads call a device, one is inside: whatever request fails,
\* and even behind a seek that kept the mutex.
THEOREM MutualExclusion == Spec => []OneInside
<1>1. Inv => OneInside
  BY DEF Inv, MutexInv, OneInside
<1>. QED BY <1>1, Invariance, PTL

\* No call but a seek from nowhere returns with the mutex of its device.
THEOREM MutexGivenBack == Spec => []HeldInside
<1>1. Inv => HeldInside
  BY DEF Inv, MutexInv
<1>. QED BY <1>1, Invariance, PTL
----------------------------------------------------------------------------
(***************************************************************************)
(* Positions.                                                              *)
(***************************************************************************)
PositionInv ==
  /\ PositionTrue
  /\ \A t \in Thread : io[t].fd # None => place[io[t].fd] = 0

LEMMA PositionKept ==
  ASSUME Inv, PositionInv, UNCHANGED <<file, place, apart>>,
         \A u \in Thread : io'[u].fd \in {io[u].fd, None}
  PROVE  PositionInv'
BY DEF PositionInv, PositionTrue

LEMMA PositionStep == ASSUME Inv, PositionInv, [Next]_vars PROVE PositionInv'
<1>. USE DeviceAssumption
<1>1. ASSUME NEW t \in Thread, Begins(t) PROVE PositionInv'
  <2>1. UNCHANGED <<file, place, apart>>
    BY <1>1 DEF Begins, ByPath, Opening, OnHandle, Begin, fsa
  <2>2. \E mode, n : io' = [io EXCEPT ![t] = Asked(mode, n)]
    BY <1>1 DEF Begins, ByPath, Opening, OnHandle
  <2>3. \A u \in Thread : io'[u].fd \in {io[u].fd, None}
    BY <2>2 DEF Inv, TypeOK, Asked
  <2>. QED BY <2>1, <2>3, PositionKept
<1>2. ASSUME NEW t \in Thread, Acquire(t) \/ UseFreed(t) \/ Ask(t) \/ OpenFails(t) PROVE PositionInv'
  BY <1>2, PositionKept DEF Acquire, UseFreed, Ask, OpenFails, fsa, history
<1>3. ASSUME NEW t \in Thread, StatFails(t) PROVE PositionInv'
  BY <1>3, PositionKept, FdKept DEF Inv, StatFails, Closes
<1>4. ASSUME NEW t \in Thread, ReadEnds(t) \/ WriteEnds(t) \/ Complete(t) PROVE PositionInv'
  <2>1. PICK done : Ends(t, done)
    BY <1>4 DEF ReadEnds, WriteEnds, Complete, Fails
  <2>2. \A u \in Thread : io'[u].fd = io[u].fd
    BY <2>1 DEF Ends, Inv, TypeOK, Io
  <2>. QED BY <2>1, <2>2, PositionKept DEF Ends, fsa
<1>5. ASSUME NEW d \in Device, MountFs(d) \/ UnmountFs(d) PROVE PositionInv'
  BY <1>5, PositionKept DEF MountFs, UnmountFs, fsa
<1>6. CASE UNCHANGED vars
  BY <1>6, PositionKept DEF vars, fsa, history
\* A handle of FSA that is opened is no other file's, open or half open.
<1>7. ASSUME NEW t \in Thread, NEW fd \in Fd, Opens(fd) 
      PROVE  /\ \A h \in Handle : file[h].kind = "file" =>
                  file[h].fd \in Fd /\ place'[file[h].fd] = place[file[h].fd]
             /\ \A u \in Thread : io[u].fd # None => place'[io[u].fd] = 0
             /\ place'[fd] = 0
  BY <1>7 DEF Inv, TypeOK, FileInv, PositionInv, Opens
<1>8. ASSUME NEW t \in Thread, OpenFile(t) PROVE PositionInv'
  <2>1. PICK fd \in Fd : Opens(fd) /\ io' = [io EXCEPT ![t].fd = fd]
    BY <1>8 DEF OpenFile
  <2>2. \A u \in Thread : io'[u].fd = IF u = t THEN fd ELSE io[u].fd
    BY <2>1, FdKept DEF Inv
  <2>. QED BY <1>7, <1>8, <2>1, <2>2 DEF PositionInv, PositionTrue, OpenFile, history
<1>9. ASSUME NEW t \in Thread, OpenDir(t) PROVE PositionInv'
  <2>1. PICK fd \in Fd : /\ Opens(fd)
                         /\ file' = [file EXCEPT ![handle[t]] = [Free EXCEPT !.kind = "dir",
                                        !.dev = dev[t], !.fd = fd]]
    BY <1>9 DEF OpenDir
  <2>2. \A h \in Handle : file'[h].kind = "file" => file'[h] = file[h]
    BY <2>1 DEF Free, Inv, TypeOK
  <2>. QED BY <1>7, <1>9, <2>1, <2>2 DEF PositionInv, PositionTrue, OpenDir, history
<1>10. ASSUME NEW t \in Thread, Close(t) PROVE PositionInv'
  <2>1. \A h \in Handle : file'[h].kind = "file" => file'[h] = file[h]
    BY <1>10 DEF Close, Free, Inv, TypeOK
  <2>. QED BY <1>10, <2>1 DEF PositionInv, PositionTrue, Close, Closes
<1>11. ASSUME NEW t \in Thread, StatFile(t) PROVE PositionInv'
  <2>1. PICK n : file' = [file EXCEPT ![handle[t]] =
                   [kind |-> "file", dev |-> dev[t], fd |-> io[t].fd, mode |-> io[t].mode,
                    pos |-> 0, len |-> n]]
    BY <1>11 DEF StatFile
  <2>2. /\ \A h \in Handle : h # handle[t] => file'[h] = file[h]
        /\ handle[t] \in Handle => file'[handle[t]].fd = io[t].fd /\ file'[handle[t]].pos = 0
    BY <2>1 DEF Inv, TypeOK
  <2>3. io[t].fd # None
    BY <1>11 DEF StatFile, Inv, CallInv
  <2>4. \A u \in Thread : io'[u].fd \in {io[u].fd, None}
    BY <1>11, FdKept DEF Inv, StatFile
  <2>5. \A h \in Handle : h # handle[t] => (h \in apart' <=> h \in apart)
    BY <1>11 DEF StatFile
  <2>. QED BY <1>11, <2>2, <2>3, <2>4, <2>5 DEF PositionInv, PositionTrue, StatFile, fsa
\* What a call does to the position of its file leaves the others alone.
<1>12. ASSUME NEW t \in Thread, Step(t, "seek") \/ Step(t, "read") \/ Step(t, "write")
       PROVE  /\ handle[t] \in Handle /\ file[handle[t]].kind = "file" /\ file[handle[t]].fd \in Fd
              /\ \A h \in Handle : h # handle[t] => file[h].fd # file[handle[t]].fd
              /\ \A u \in Thread : io[u].fd # None => io[u].fd # file[handle[t]].fd
              /\ file[handle[t]].pos \in Nat
  <2>1. handle[t] \in Handle /\ file[handle[t]].kind = "file" /\ file[handle[t]].fd \in Fd
    BY <1>12 DEF Step, Inv, CallInv, FileInv, Calling, FileOp, DirOp
  <2>. QED BY <2>1 DEF Inv, TypeOK, File, FileInv
<1>13. ASSUME NEW t \in Thread, Seek(t) PROVE PositionInv'
  <2>1. ASSUME NEW pos \in Nat, SeekTo(t, file[handle[t]], pos), UNCHANGED io PROVE PositionInv'
    <3>1. Step(t, "seek")
      BY <1>13 DEF Seek
    <3>2. \A h \in Handle : /\ file'[h].kind = file[h].kind /\ file'[h].fd = file[h].fd
                            /\ file'[h].pos = IF h = handle[t] THEN pos ELSE file[h].pos
      <4>1. handle[t] \in Handle /\ TypeOK /\ file' = [file EXCEPT ![handle[t]].pos = pos]
        BY <1>12, <2>1, <3>1 DEF SeekTo, Inv
      <4>2. file'[handle[t]].pos = pos
        BY <4>1, <2>1, PosKept
      <4>. QED BY <2>1, <4>1, <4>2, PosKept
    <3>3. CASE place' = [place EXCEPT ![file[handle[t]].fd] = pos] /\ apart' = apart \ {handle[t]}
      <4>1. place'[file[handle[t]].fd] = pos
        BY <1>12, <3>1, <3>3 DEF Inv, TypeOK
      <4>2. \A fd : fd # file[handle[t]].fd => place'[fd] = place[fd]
        BY <3>3 DEF Inv, TypeOK
      <4>. QED BY <1>12, <2>1, <3>1, <3>2, <3>3, <4>1, <4>2 DEF PositionInv, PositionTrue
    <3>4. CASE apart' = apart \cup {handle[t]} /\ UNCHANGED place
      BY <2>1, <3>2, <3>4 DEF PositionInv, PositionTrue
    <3>. QED BY <2>1, <3>3, <3>4 DEF SeekTo
  <2>2. io[t].len \in Nat /\ file[handle[t]].pos + io[t].len \in Nat
        /\ file[handle[t]].len + io[t].len \in Nat
    BY <1>12, <1>13 DEF Seek, Inv, TypeOK, File, Io
  <2>. QED BY <1>13, <2>1, <2>2, PositionKept DEF Seek
<1>14. ASSUME NEW t \in Thread, Transfer(t) PROVE PositionInv'
  <2>1. PICK n \in 1 .. io[t].len - io[t].done : Moves(t, n)
    BY <1>14 DEF Transfer
  <2>2. Step(t, "read") \/ Step(t, "write")
    BY <1>14 DEF Transfer, Wants
  <2>3. n \in Nat /\ file[handle[t]].pos + n \in Nat
    BY <1>12, <2>2 DEF Inv, TypeOK, Io
  <2>4. file' = [file EXCEPT ![handle[t]].pos = file[handle[t]].pos + n]
    BY <2>1 DEF Moves
  <2>5. \A h \in Handle : /\ file'[h].kind = file[h].kind /\ file'[h].fd = file[h].fd
                          /\ file'[h].pos = IF h = handle[t] THEN file[h].pos + n ELSE file[h].pos
    <3>1. handle[t] \in Handle /\ TypeOK
      BY <1>12, <2>2 DEF Inv
    <3>2. PICK pos \in Nat : pos = file[handle[t]].pos + n
      BY <2>3
    <3>3. file'[handle[t]].pos = pos
      BY <2>4, <3>1, <3>2, PosKept
    <3>4. \A h \in Handle : /\ file'[h].kind = file[h].kind /\ file'[h].fd = file[h].fd
                            /\ h # handle[t] => file'[h].pos = file[h].pos
      BY <2>4, <3>1, <3>2, PosKept
    <3>. QED BY <3>2, <3>3, <3>4
  <2>6. /\ place'[file[handle[t]].fd] = place[file[handle[t]].fd] + n
        /\ \A fd : fd # file[handle[t]].fd => place'[fd] = place[fd]
    BY <1>12, <2>1, <2>2 DEF Moves, Done, Inv, TypeOK
  <2>7. \A u \in Thread : io'[u].fd = io[u].fd
    BY <2>1 DEF Moves, Done, Inv, TypeOK, Io
  <2>8. apart \subseteq apart'
    BY <2>1 DEF Moves
  <2>. QED BY <1>12, <2>2, <2>5, <2>6, <2>7, <2>8 DEF PositionInv, PositionTrue
<1>. QED BY <1>1, <1>2, <1>3, <1>4, <1>5, <1>6, <1>8, <1>9, <1>10, <1>11, <1>13, <1>14
         DEF Next, Requests

\* The position the driver tells is FSA's, however the calls of the threads and
\* the devices that go away interleave.
THEOREM Positions == Spec => []PositionTrue
<1>1. Init => PositionInv
  BY DeviceAssumption DEF Init, PositionInv, PositionTrue, Free, Asked
<1>2. Inv /\ PositionInv /\ [Next]_vars => PositionInv'
  BY PositionStep
<1>3. PositionInv => PositionTrue
  BY DEF PositionInv
<1>. QED BY <1>1, <1>2, <1>3, Invariance, PTL DEF Spec
----------------------------------------------------------------------------
(***************************************************************************)
(* Results.                                                                *)
(***************************************************************************)
ResultInv ==
  /\ \A t \in Thread : Calling(t) /\ op[t] \in {"read", "write"} =>
       io[t].done = io[t].moved /\ t \notin failed
  /\ ResultHonest

LEMMA ResultStep == ASSUME Inv, ResultInv, [Next]_vars PROVE ResultInv'
<1>. USE DeviceAssumption
<1>1. ASSUME NEW t \in Thread, Begins(t) PROVE ResultInv'
  <2>1. \E mode, n : io' = [io EXCEPT ![t] = Asked(mode, n)]
    BY <1>1 DEF Begins, ByPath, Opening, OnHandle
  <2>2. PICK o, d, h : Begin(t, o, d, h)
    BY <1>1 DEF Begins, ByPath, Opening, OnHandle
  <2>4. \A u \in Thread \ {t} : pc'[u] = pc[u] /\ op'[u] = op[u] /\ (u \in failed' <=> u \in failed)
    BY <2>2 DEF Begin, Inv, TypeOK
  <2>5. pc'[t] = "wait" /\ t \notin failed'
    BY <2>2 DEF Begin, Inv, TypeOK
  <2>6. \A u \in Thread \ {t} : io'[u] = io[u]
    BY <2>1 DEF Inv, TypeOK
  <2>3. io'[t].done = 0 /\ io'[t].moved = 0
    BY <2>1 DEF Inv, TypeOK, Asked
  <2>. QED BY <2>3, <2>4, <2>5, <2>6 DEF ResultInv, ResultHonest, Calling
<1>2. ASSUME NEW t \in Thread, Acquire(t) PROVE ResultInv'
  BY <1>2 DEF Acquire, ResultInv, ResultHonest, Calling, Inv, TypeOK, history
<1>3. ASSUME NEW t \in Thread, UseFreed(t) PROVE ResultInv'
  BY <1>3 DEF UseFreed, ResultInv, ResultHonest, Calling, call, history
\* Calls that neither read nor write.
<1>4. ASSUME NEW t \in Thread, op[t] \notin {"read", "write"}, UNCHANGED <<op, failed>>,
             \A u \in Thread \ {t} : io'[u] = io[u] /\ pc'[u] = pc[u]
      PROVE  ResultInv'
  BY <1>4 DEF ResultInv, ResultHonest, Calling
<1>5. ASSUME NEW t \in Thread, Ask(t) \/ OpenFails(t) \/ OpenDir(t) \/ Close(t) \/ Seek(t)
      PROVE  ResultInv'
  <2>1. /\ op[t] \in {"path", "ask", "open", "diropen", "close", "seek"}
        /\ UNCHANGED <<op, failed, io>> /\ pc' = [pc EXCEPT ![t] = "idle"]
    BY <1>5 DEF Ask, OpenFails, OpenDir, Close, Seek, SeekTo, Step, Leave, Return, OpenOp, history
  <2>. QED BY <1>4, <2>1 DEF Inv, TypeOK
<1>6. ASSUME NEW t \in Thread, OpenFile(t) \/ StatFile(t) \/ StatFails(t) PROVE ResultInv'
  <2>1. op[t] = "open" /\ UNCHANGED <<op, failed>>
    BY <1>6 DEF OpenFile, StatFile, StatFails, Step, Leave, Return, Inv, CallInv, history
  <2>2. /\ \E fd : io' = [io EXCEPT ![t].fd = fd]
        /\ \E p : pc' = [pc EXCEPT ![t] = p]
    BY <1>6 DEF OpenFile, StatFile, StatFails, Leave, Return
  <2>. QED BY <1>4, <2>1, <2>2 DEF Inv, TypeOK
<1>7. ASSUME NEW t \in Thread, Transfer(t) PROVE ResultInv'
  <2>1. PICK n \in 1 .. io[t].len - io[t].done : Moves(t, n)
    BY <1>7 DEF Transfer
  <2>2. /\ io[t].done = io[t].moved /\ t \notin failed /\ pc[t] = "in"
        /\ UNCHANGED <<pc, op, failed>>
    BY <1>7 DEF Transfer, Wants, Step, ResultInv, Calling, call
  <2>3. /\ io'[t].done = io[t].done + n /\ io'[t].moved = io[t].moved + n
        /\ \A u \in Thread \ {t} : io'[u] = io[u]
    BY <2>1 DEF Moves, Done, Inv, TypeOK, Io
  <2>. QED BY <2>2, <2>3 DEF ResultInv, ResultHonest, Calling
<1>8. ASSUME NEW t \in Thread, ReadEnds(t) \/ WriteEnds(t) \/ Complete(t) PROVE ResultInv'
  <2>1. /\ io[t].done = io[t].moved /\ t \notin failed /\ pc[t] = "in"
        /\ op[t] \in {"read", "write"}
    BY <1>8 DEF ReadEnds, WriteEnds, Complete, Wants, Step, ResultInv, Calling
  <2>2. PICK done : /\ Ends(t, done)
                    /\ \/ done \in {0, io[t].done} /\ failed' = failed \cup {t}
                       \/ op[t] = "read" /\ done = io[t].done /\ failed' = failed
                       \/ done = io[t].len /\ done = io[t].done /\ failed' = failed
    BY <1>8 DEF ReadEnds, WriteEnds, Complete, Wants, Step, Fails
  <2>3. /\ io'[t].done = done /\ io'[t].moved = io[t].moved /\ io'[t].len = io[t].len
        /\ \A u \in Thread \ {t} : io'[u] = io[u] /\ pc'[u] = pc[u] /\ (u \in failed' <=> u \in failed)
        /\ pc'[t] = "idle" /\ op' = op
    BY <2>2 DEF Ends, Leave, Return, Inv, TypeOK, Io
  <2>4. done \in Nat /\ io[t].len \in Nat
    BY <2>2 DEF Inv, TypeOK, Io
  <2>. QED BY <2>1, <2>2, <2>3, <2>4 DEF ResultInv, ResultHonest, Calling
<1>9. ASSUME NEW d \in Device, MountFs(d) \/ UnmountFs(d) PROVE ResultInv'
  BY <1>9 DEF MountFs, UnmountFs, call, ResultInv, ResultHonest, Calling
<1>10. CASE UNCHANGED vars
  BY <1>10 DEF vars, call, history, ResultInv, ResultHonest, Calling
<1>. QED BY <1>1, <1>2, <1>3, <1>5, <1>6, <1>7, <1>8, <1>9, <1>10 DEF Next, Requests

\* Reads and writes of any length return what they moved, but for the two cases
\* in which they forget it.
THEOREM Results == Spec => []ResultHonest
<1>1. Init => ResultInv
  BY DEF Init, ResultInv, ResultHonest, Calling
<1>2. Inv /\ ResultInv /\ [Next]_vars => ResultInv'
  BY ResultStep
<1>3. ResultInv => ResultHonest
  BY DEF ResultInv
<1>. QED BY <1>1, <1>2, <1>3, Invariance, PTL DEF Spec

----------------------------------------------------------------------------
(***************************************************************************)
(* Devices that go away.                                                   *)
(***************************************************************************)
FreedInv ==
  /\ FreedOnlyInUse
  /\ early \subseteq gone /\ slot \cap gone = {}
  /\ \A t \in Thread : dev[t] # None => dev[t] \in slot \cup early
  /\ \A h \in Handle : file[h].kind # "free" => file[h].dev \in slot \cup early

\* A step that points to no new device.
LEMMA FreedKept ==
  ASSUME Inv, FreedInv, UNCHANGED <<slot, gone, early, wild>>,
         \A t \in Thread : dev'[t] \in {dev[t], None} \cup slot \cup early,
         \A h \in Handle : file'[h].kind # "free" =>
           \/ file[h].kind # "free" /\ file'[h].dev = file[h].dev
           \/ file'[h].dev \in slot \cup early
  PROVE  FreedInv'
BY DEF FreedInv, FreedOnlyInUse

LEMMA FreedStep == ASSUME Inv, FreedInv, [Next]_vars PROVE FreedInv'
<1>. USE DeviceAssumption
<1>1. ASSUME NEW t \in Thread, NEW o, NEW d \in slot \cup early, NEW h, Begin(t, o, d, h)
      PROVE  FreedInv'
  BY <1>1, FreedKept DEF Begin, Inv, TypeOK, devices, past
<1>2. ASSUME NEW t \in Thread, Begins(t) PROVE FreedInv'
  <2>1. ASSUME NEW o, NEW h \in Handle, NEW n, OnHandle(t, o, h, n) PROVE file[h].dev \in slot \cup early
    BY <2>1 DEF OnHandle, FreedInv
  <2>. QED BY <1>1, <1>2, <2>1 DEF Begins, ByPath, Opening, OnHandle, Found
<1>3. ASSUME NEW t \in Thread, Acquire(t) PROVE FreedInv'
  BY <1>3, FreedKept DEF Acquire, devices, history, past
<1>4. ASSUME NEW t \in Thread, UseFreed(t) PROVE FreedInv'
  <2>1. dev[t] \in early
    BY <1>4 DEF UseFreed, FreedInv, Inv, CallInv, Calling
  <2>2. UNCHANGED <<slot, gone, early, dev, file>>
    BY <1>4 DEF UseFreed, devices, call, history, past
  <2>. QED BY <1>4, <2>1, <2>2 DEF UseFreed, FreedInv, FreedOnlyInUse
<1>5. ASSUME NEW t \in Thread, Requests(t) PROVE FreedInv'
  <2>1. UNCHANGED <<slot, gone, early, wild>>
    BY <1>5 DEF Requests, Ask, OpenFile, OpenFails, StatFile, StatFails, OpenDir, Close, Seek,
       Transfer, ReadEnds, WriteEnds, Complete, Fails, Ends, devices, history, past
  <2>2. dev' = dev \/ dev' = [dev EXCEPT ![t] = None]
    BY <1>5 DEF Requests, Ask, OpenFile, OpenFails, StatFile, StatFails, OpenDir, Close, Seek, SeekTo,
       Transfer, ReadEnds, WriteEnds, Complete, Fails, Ends, Leave, Return, call
  <2>3. \A h \in Handle : file'[h].kind # "free" =>
           \/ file[h].kind # "free" /\ file'[h].dev = file[h].dev
           \/ file'[h].dev \in slot \cup early
    <3>1. CASE file' = file
      BY <3>1
    <3>2. CASE StatFile(t) \/ OpenDir(t)
      <4>1. /\ dev[t] \in slot
            /\ \A h : h # handle[t] => file'[h] = file[h]
            /\ handle[t] \in Handle => file'[handle[t]].dev = dev[t]
        <5>1. CASE StatFile(t)
          <6>1. PICK n \in Lens :
                  file' = [file EXCEPT ![handle[t]] =
                             [kind |-> "file", dev |-> dev[t], fd |-> io[t].fd,
                              mode |-> io[t].mode, pos |-> 0, len |-> n]]
            BY <5>1 DEF StatFile
          <6>2. dev[t] \in slot
            BY <5>1 DEF StatFile
          <6>. QED BY <6>1, <6>2 DEF Inv, TypeOK
        <5>2. CASE OpenDir(t)
          <6>1. PICK fd \in Fd :
                  file' = [file EXCEPT ![handle[t]] =
                             [Free EXCEPT !.kind = "dir", !.dev = dev[t], !.fd = fd]]
            BY <5>2 DEF OpenDir
          <6>2. dev[t] \in slot
            BY <5>2 DEF OpenDir, Step
          <6>. QED BY <6>1, <6>2 DEF Inv, TypeOK, Free
        <5>. QED BY <3>2, <5>1, <5>2
      <4>. QED BY <4>1
    <3>3. CASE Close(t)
      BY <3>3 DEF Close, Free, Inv, TypeOK
    <3>4. CASE Seek(t) \/ Transfer(t)
      <4>1. file' = file \/ \E pos : file' = [file EXCEPT ![handle[t]].pos = pos]
        BY <3>4 DEF Seek, SeekTo, Transfer, Moves
      <4>. QED BY <3>1, <4>1 DEF Inv, TypeOK, File
    <3>. QED BY <1>5, <3>1, <3>2, <3>3, <3>4
         DEF Requests, Ask, OpenFile, OpenFails, StatFails, ReadEnds, WriteEnds, Complete, Fails, Ends
  <2>. QED BY <2>1, <2>2, <2>3, FreedKept DEF Inv, TypeOK
<1>6. ASSUME NEW d \in Device, MountFs(d) PROVE FreedInv'
  BY <1>6 DEF MountFs, New, call, FreedInv, FreedOnlyInUse
<1>7. ASSUME NEW d \in Device, UnmountFs(d) PROVE FreedInv'
  <2>1. /\ slot' = slot \ {d} /\ gone' = gone \cup {d} /\ early \subseteq early'
        /\ Busy(d) => d \in early'
        /\ early' \subseteq early \cup {d} /\ UNCHANGED <<dev, file, wild>>
    BY <1>7 DEF UnmountFs, call
  <2>2. /\ \A t \in Thread : dev[t] = d => d \in early'
        /\ \A h \in Handle : file[h].dev = d => d \in early'
    BY <2>1 DEF Busy
  <2>. QED BY <2>1, <2>2 DEF FreedInv, FreedOnlyInUse
<1>8. CASE UNCHANGED vars
  BY <1>8 DEF vars, devices, call, history, past, FreedInv, FreedOnlyInUse
<1>. QED BY <1>2, <1>3, <1>4, <1>5, <1>6, <1>7, <1>8 DEF Next

\* A program that closes its files and ends its calls before it unmounts uses
\* no freed device, for every number of threads and devices.
THEOREM FreedDevices == Spec => []FreedOnlyInUse
<1>1. Init => FreedInv
  BY DeviceAssumption DEF Init, FreedInv, FreedOnlyInUse, Free
<1>2. Inv /\ FreedInv /\ [Next]_vars => FreedInv'
  BY FreedStep
<1>3. FreedInv => FreedOnlyInUse
  BY DEF FreedInv
<1>. QED BY <1>1, <1>2, <1>3, Invariance, PTL DEF Spec
----------------------------------------------------------------------------
(***************************************************************************)
(* Handles of FSA and volumes.                                             *)
(***************************************************************************)
Owned(fd) == (\E h \in Handle : file[h].fd = fd) \/ (\E t \in Thread : io[t].fd = fd)

AccountInv ==
  /\ \A fd \in opened : fd \in lost \/ Owned(fd)
  /\ volumes \subseteq slot \cup stranded

\* A step that changes none of the handles.
LEMMA AccountKept ==
  ASSUME AccountInv, UNCHANGED <<slot, volumes, stranded, opened, lost>>,
         \A h \in Handle : file'[h].fd = file[h].fd,
         \A t \in Thread : io'[t].fd = io[t].fd
  PROVE  AccountInv'
BY DEF AccountInv, Owned

LEMMA AccountStep == ASSUME Inv, AccountInv, [Next]_vars PROVE AccountInv'
<1>. USE DeviceAssumption
<1>1. ASSUME NEW t \in Thread, Begins(t) PROVE AccountInv'
  <2>1. PICK mode, n : io' = [io EXCEPT ![t] = Asked(mode, n)]
    BY <1>1 DEF Begins, ByPath, Opening, OnHandle
  <2>2. UNCHANGED <<slot, volumes, stranded, opened, lost, file>> /\ pc[t] = "idle"
    BY <1>1 DEF Begins, ByPath, Opening, OnHandle, Begin, devices, fsa, past
  <2>3. io[t].fd = None
    BY <2>2 DEF Inv, CallInv
  <2>4. \A u \in Thread : io'[u].fd = io[u].fd
    BY <2>1, <2>3 DEF Inv, TypeOK, Asked
  <2>. QED BY <2>2, <2>4, AccountKept
<1>2. ASSUME NEW t \in Thread, Acquire(t) \/ UseFreed(t) PROVE AccountInv'
  BY <1>2, AccountKept DEF Acquire, UseFreed, devices, fsa, history, past
<1>3. ASSUME NEW t \in Thread, Requests(t) PROVE UNCHANGED <<slot, volumes, stranded>>
  BY <1>3 DEF Requests, Ask, OpenFile, OpenFails, StatFile, StatFails, OpenDir, Close, Seek,
     Transfer, ReadEnds, WriteEnds, Complete, Fails, Ends, devices, history, past
<1>4. ASSUME NEW t \in Thread, Ask(t) \/ OpenFails(t) PROVE AccountInv'
  BY <1>4, AccountKept DEF Ask, OpenFails, devices, fsa, history, past
<1>5. ASSUME NEW t \in Thread, OpenFile(t) PROVE AccountInv'
  <2>1. PICK fd \in Fd : opened' = opened \cup {fd} /\ io' = [io EXCEPT ![t].fd = fd]
    BY <1>5 DEF OpenFile, Opens
  <2>2. \A u \in Thread : io'[u].fd = IF u = t THEN fd ELSE io[u].fd
    BY <2>1, FdKept DEF Inv
  <2>3. io[t].fd = None /\ UNCHANGED <<file, lost>>
    BY <1>5 DEF OpenFile, Step, Inv, CallInv, history
  <2>4. UNCHANGED <<slot, volumes, stranded>>
    BY <1>5 DEF OpenFile, devices, history, past
  <2>5. \A e \in opened' : e \in lost' \/ Owned(e)'
    <3>1. Owned(fd)'
      BY <2>2 DEF Owned
    <3>2. ASSUME NEW e \in opened, e # fd PROVE e \in lost' \/ Owned(e)'
      BY <2>2, <2>3, <3>2 DEF AccountInv, Owned, Inv, TypeOK
    <3>. QED BY <2>1, <3>1, <3>2
  <2>. QED BY <2>4, <2>5 DEF AccountInv
<1>6. ASSUME NEW t \in Thread, StatFile(t) PROVE AccountInv'
  <2>1. pc[t] = "stat" /\ handle[t] \in Handle /\ file[handle[t]].fd = None /\ io[t].fd # None
    BY <1>6 DEF StatFile, Inv, CallInv, FileInv, Calling, OpenOp, Free
  <2>2. PICK n : file' = [file EXCEPT ![handle[t]] =
                            [kind |-> "file", dev |-> dev[t], fd |-> io[t].fd, mode |-> io[t].mode,
                             pos |-> 0, len |-> n]]
    BY <1>6 DEF StatFile
  <2>3. file'[handle[t]].fd = io[t].fd /\ \A h \in Handle \ {handle[t]} : file'[h] = file[h]
    BY <2>1, <2>2 DEF Inv, TypeOK
  <2>4. \A u \in Thread : io'[u].fd = IF u = t THEN None ELSE io[u].fd
    BY <1>6, FdKept DEF StatFile, Inv
  <2>5. UNCHANGED <<opened, lost>>
    BY <1>6 DEF StatFile, fsa
  <2>6. \A e \in opened : Owned(e) => Owned(e)'
    BY <2>1, <2>3, <2>4 DEF Owned, Inv, TypeOK
  <2>. QED BY <1>3, <1>6, <2>5, <2>6 DEF AccountInv, Requests
<1>7. ASSUME NEW t \in Thread, NEW fd \in Fd, Closes(fd), UNCHANGED <<slot, volumes, stranded>>,
             \A e : Owned(e) => e = fd \/ Owned(e)'
      PROVE  AccountInv'
  BY <1>7 DEF AccountInv, Closes
<1>8. ASSUME NEW t \in Thread, StatFails(t) PROVE AccountInv'
  <2>1. io[t].fd \in Fd /\ Closes(io[t].fd) /\ UNCHANGED file
    BY <1>8 DEF StatFails, Inv, CallInv, TypeOK, Io
  <2>2. \A u \in Thread : io'[u].fd = IF u = t THEN None ELSE io[u].fd
    BY <1>8, FdKept DEF StatFails, Inv
  <2>3. \A e : Owned(e) => e = io[t].fd \/ Owned(e)'
    BY <2>1, <2>2 DEF Owned
  <2>. QED BY <1>3, <1>7, <1>8, <2>1, <2>3 DEF Requests
<1>9. ASSUME NEW t \in Thread, OpenDir(t) PROVE AccountInv'
  <2>1. PICK fd \in Fd : /\ opened' = opened \cup {fd}
                         /\ file' = [file EXCEPT ![handle[t]] =
                                       [Free EXCEPT !.kind = "dir", !.dev = dev[t], !.fd = fd]]
    BY <1>9 DEF OpenDir, Opens
  <2>2. handle[t] \in Handle /\ file[handle[t]] = Free /\ UNCHANGED <<io, lost>>
    BY <1>9 DEF OpenDir, Step, Inv, CallInv, FileInv, Calling, OpenOp, history
  <2>3. Free.fd = None
    BY DEF Free
  <2>4. file'[handle[t]].fd = fd /\ \A h \in Handle \ {handle[t]} : file'[h] = file[h]
    BY <2>1, <2>2 DEF Inv, TypeOK, Free
  <2>5. Owned(fd)'
    BY <2>2, <2>4 DEF Owned
  <2>6. \A e \in opened : Owned(e) => Owned(e)'
    BY <2>2, <2>3, <2>4 DEF Owned, Inv, TypeOK
  <2>. QED BY <1>3, <1>9, <2>1, <2>2, <2>5, <2>6 DEF AccountInv, Requests
<1>10. ASSUME NEW t \in Thread, Close(t) PROVE AccountInv'
  <2>1. /\ handle[t] \in Handle /\ file[handle[t]].fd \in Fd
        /\ Closes(file[handle[t]].fd) /\ UNCHANGED io
    BY <1>10 DEF Close, Step, Inv, CallInv, FileInv, Calling, FileOp, DirOp
  <2>2. \A h \in Handle : h # handle[t] => file'[h] = file[h]
    BY <1>10 DEF Close, Inv, TypeOK
  <2>3. \A e : Owned(e) => e = file[handle[t]].fd \/ Owned(e)'
    BY <2>1, <2>2 DEF Owned
  <2>. QED BY <1>3, <1>7, <1>10, <2>1, <2>3 DEF Requests
<1>11. ASSUME NEW t \in Thread, Seek(t) PROVE AccountInv'
  <2>1. UNCHANGED <<opened, lost, io>>
    BY <1>11 DEF Seek
  <2>2. file' = file \/ (handle[t] \in Handle /\ \E pos : file' = [file EXCEPT ![handle[t]].pos = pos])
    BY <1>11 DEF Seek, SeekTo, Step, Inv, CallInv, Calling
  <2>3. \A h \in Handle : file'[h].fd = file[h].fd
    BY <2>2 DEF Inv, TypeOK, File
  <2>. QED BY <1>3, <1>11, <2>1, <2>3, AccountKept DEF Requests
<1>12. ASSUME NEW t \in Thread, Transfer(t) PROVE AccountInv'
  <2>1. PICK n \in 1 .. io[t].len - io[t].done : Moves(t, n)
    BY <1>12 DEF Transfer
  <2>2. UNCHANGED <<opened, lost>>
    BY <1>12 DEF Transfer
  <2>3. \A h \in Handle : file'[h].fd = file[h].fd
    BY <2>1 DEF Moves, Inv, TypeOK, File
  <2>4. \A u \in Thread : io'[u].fd = io[u].fd
    BY <2>1 DEF Moves, Done, Inv, TypeOK, Io
  <2>. QED BY <1>3, <1>12, <2>2, <2>3, <2>4, AccountKept DEF Requests
<1>13. ASSUME NEW t \in Thread, ReadEnds(t) \/ WriteEnds(t) \/ Complete(t) PROVE AccountInv'
  <2>1. UNCHANGED <<opened, lost, file>> /\ \E done : io' = [io EXCEPT ![t].done = done]
    BY <1>13 DEF ReadEnds, WriteEnds, Complete, Fails, Ends, fsa
  <2>2. \A u \in Thread : io'[u].fd = io[u].fd
    BY <2>1 DEF Inv, TypeOK, Io
  <2>. QED BY <1>3, <1>13, <2>1, <2>2, AccountKept DEF Requests
<1>14. ASSUME NEW d \in Device, MountFs(d) \/ UnmountFs(d) PROVE AccountInv'
  <2>1. UNCHANGED <<opened, lost, file, io>>
    BY <1>14 DEF MountFs, UnmountFs, fsa
  <2>2. volumes' \subseteq slot' \cup stranded'
    BY <1>14 DEF MountFs, UnmountFs, AccountInv
  <2>. QED BY <2>1, <2>2 DEF AccountInv, Owned
<1>15. CASE UNCHANGED vars
  BY <1>15, AccountKept DEF vars, devices, fsa, history, past
<1>. QED BY <1>1, <1>2, <1>4, <1>5, <1>6, <1>8, <1>9, <1>10, <1>11, <1>12, <1>13, <1>14, <1>15
         DEF Next, Requests

\* No call that fails, and no device that goes away, leaves a handle of FSA or a
\* volume that nobody will close, however many there are.
THEOREM Accounted == Spec => []HandlesAccounted
<1>1. Init => AccountInv
  BY DEF Init, AccountInv
<1>2. Inv /\ AccountInv /\ [Next]_vars => AccountInv'
  BY AccountStep
<1>3. Inv /\ AccountInv => HandlesAccounted
  BY DEF Inv, FileInv, AccountInv, Owned, HandlesAccounted
<1>. QED BY <1>1, <1>2, <1>3, Invariance, PTL DEF Spec
=============================================================================
