--------------------------- MODULE FtpServerProofs ---------------------------
(***************************************************************************)
(* What holds of FtpServer for every number of slots, descriptors and      *)
(* clients, of Application for every set of ports, and of ControlChannel   *)
(* for every size of the buffer.                                           *)
(***************************************************************************)
EXTENDS FtpServer, Application, ControlChannel, FiniteSetTheorems,
        SequenceTheorems, TLAPS

(***************************************************************************)
(* The helpers keep the types.                                             *)
(***************************************************************************)

\* uint32_t arithmetic stays in range.
LEMMA CounterType ==
  ASSUME NEW n \in 0 .. W - 1, NEW c \in Connection
  PROVE  Decremented(n, c) \in 0 .. W - 1 /\ Incremented(n) \in 0 .. W - 1
<1>1. \A m \in Int : m % W \in 0 .. W - 1
  BY WAssumption, NBAssumption
<1>2. n + W - 1 \in Int /\ n + 1 \in Int
  BY WAssumption
<1>. QED BY <1>1, <1>2 DEF Decremented, Incremented

\* resetConnection and cleanup_data_resources leave well-formed slots.
LEMMA ConnectionType ==
  /\ FreshConnection \in Connection
  /\ \A fd \in Fd : [FreshConnection EXCEPT !.sock = fd] \in Connection
  /\ \A c \in Connection : DataCleaned(c) \in Connection
  /\ \A c \in Connection : PassiveClosed(c) \in Connection
  /\ \A c \in Connection : c.sock \in FdOrNone /\ c.passive \in FdOrNone /\ c.data \in FdOrNone
<1>1. FreshConnection \in Connection
  BY DEF FreshConnection, Connection, Callback, FdOrNone
<1>2. ASSUME NEW fd \in Fd PROVE [FreshConnection EXCEPT !.sock = fd] \in Connection
  BY DEF FreshConnection, Connection, Callback, FdOrNone
<1>3. ASSUME NEW c \in Connection PROVE DataCleaned(c) \in Connection
  BY <1>3 DEF Connection, Callback, FdOrNone, DataCleaned
<1>4. ASSUME NEW c \in Connection PROVE PassiveClosed(c) \in Connection
  BY <1>4 DEF Connection, FdOrNone, PassiveClosed
<1>5. ASSUME NEW c \in Connection
      PROVE  c.sock \in FdOrNone /\ c.passive \in FdOrNone /\ c.data \in FdOrNone
  BY <1>5 DEF Connection
<1>. QED BY <1>1, <1>2, <1>3, <1>4, <1>5

\* What cleanup_connection leaves of the variables it changes.
LEMMA CleanupType ==
  ASSUME TypeOK, NEW i \in Slots, NEW n \in 0 .. W - 1, CleanupConnection(i, n)
  PROVE  /\ fds' \subseteq Fd
         /\ conn' \in [Slots -> Connection]
         /\ active' \in 0 .. NB + 1
         /\ xfers' \in 0 .. W - 1
<1>1. conn[i] \in Connection
  BY DEF TypeOK
<1>2. xfers' \in 0 .. W - 1
  BY <1>1, CounterType DEF CleanupConnection
<1>3. conn' \in [Slots -> Connection]
  BY ConnectionType DEF CleanupConnection, TypeOK
<1>4. active' \in 0 .. NB + 1
  BY NBAssumption DEF CleanupConnection, OneLess, TypeOK
<1>5. fds' \subseteq Fd
  BY DEF CleanupConnection, TypeOK
<1>. QED BY <1>2, <1>3, <1>4, <1>5

\* The loop over the slots stays in the array.
LEMMA NextSlotType ==
  ASSUME TypeOK, NextSlot
  PROVE  pc' \in {"slots", "buttons"} /\ cur' \in Slots
BY NBAssumption DEF TypeOK, NextSlot, Slots

LEMMA AcceptingType == ASSUME TypeOK, Accepting PROVE TypeOK'
<1>0. 0 \in Slots
  BY NBAssumption DEF Slots
<1>1. CASE AcceptNothing
  BY <1>0, <1>1 DEF AcceptNothing, GotoSlots, TypeOK
<1>2. CASE AcceptError
  BY <1>0, <1>2 DEF AcceptError, GotoSlots, Leave, StopReason, TypeOK
<1>3. ASSUME NEW c \in Client, Refuse(c) PROVE TypeOK'
  BY <1>3 DEF Refuse, vars, TypeOK
<1>4. ASSUME NEW c \in Client, NEW fd \in Fd, Accept(c, fd) PROVE TypeOK'
  <2>1. active \in 0 .. NB /\ active \in Slots /\ active + 1 \in 0 .. NB + 1
    BY <1>4, NBAssumption DEF Accept, ServerFull, TypeOK, Slots
  <2>2. conn' \in [Slots -> Connection]
    BY <1>4, <2>1, ConnectionType DEF Accept, NewSlot, TypeOK
  <2>3. clobbered' \subseteq Slots
    BY <1>4, <2>1 DEF Accept, NewSlot, TypeOK
  <2>4. /\ active' \in 0 .. NB + 1 /\ fds' \subseteq Fd
        /\ pc' \in {"slots", "exit"} /\ cur' \in Slots /\ stop' \in StopReason
    BY <1>0, <1>4, <2>1 DEF Accept, GotoSlots, Leave, StopReason, TypeOK
  <2>. QED BY <1>4, <2>2, <2>3, <2>4 DEF Accept, TypeOK
<1>. QED BY <1>1, <1>2, <1>3, <1>4 DEF Accepting

\* Answered changes the slot only.
LEMMA AnsweredType ==
  ASSUME TypeOK, NEW i \in Slots, NEW c \in Connection, Answered(i, c),
         fds' \subseteq Fd, staleClose' \in BOOLEAN
  PROVE  TypeOK'
BY DEF Answered, TypeOK

LEMMA PrepareType ==
  ASSUME TypeOK, NEW i \in Slots, NEW c \in Connection, NEW cb \in Callback,
         PrepareDataConnection(i, c, cb)
  PROVE  TypeOK'
<1>1. \A fd \in FdOrNone : /\ Prepared(c, cb, fd) \in Connection
                           /\ [c EXCEPT !.data = fd] \in Connection
  BY DEF Prepared, Connection, FdOrNone
<1>2. CASE PreparePassive(i, c, cb)
  <2>1. c.passive \in FdOrNone
    BY ConnectionType
  <2>2. conn' \in [Slots -> Connection]
    BY <1>1, <1>2, <2>1 DEF PreparePassive, TypeOK
  <2>. QED BY <1>2, <2>2, NextSlotType DEF PrepareDataConnection, PreparePassive, TypeOK
<1>3. CASE PrepareActive(i, c, cb)
  <2>1. PICK fd \in (Fd \ fds) \cup {NoFd} :
          /\ conn' = [conn EXCEPT ![i] = Prepared(c, cb, fd)]
          /\ \/ fds' = (fds \cup {fd}) \ {NoFd} /\ UNCHANGED staleClose
             \/ fd # NoFd /\ staleClose' = TRUE /\ UNCHANGED fds
    BY <1>3 DEF PrepareActive
  <2>2. conn' \in [Slots -> Connection]
    BY <1>1, <2>1 DEF TypeOK, FdOrNone
  <2>3. fds' \subseteq Fd /\ staleClose' \in BOOLEAN
    BY <2>1 DEF TypeOK
  <2>. QED BY <1>3, <2>2, <2>3, NextSlotType DEF PrepareDataConnection, PrepareActive, TypeOK
<1>4. CASE PrepareLost(i, c)
  <2>1. conn' \in [Slots -> Connection] /\ staleClose' \in BOOLEAN
    BY <1>1, <1>4 DEF PrepareLost, TypeOK, FdOrNone
  <2>. QED BY <1>4, <2>1 DEF PrepareDataConnection, PrepareLost, TypeOK
<1>5. CASE PrepareFailed(i)
  <2>1. xfers \in 0 .. W - 1
    BY DEF TypeOK
  <2>. QED BY <1>5, <2>1, CleanupType, NextSlotType
           DEF PrepareDataConnection, PrepareFailed, TypeOK
<1>. QED BY <1>2, <1>3, <1>4, <1>5 DEF PrepareDataConnection

LEMMA ControlType == ASSUME TypeOK, NEW i \in Slots, Control(i) PROVE TypeOK'
<1>0. /\ conn[i] \in Connection /\ xfers \in 0 .. W - 1
      /\ fds \subseteq Fd /\ staleClose \in BOOLEAN
  BY DEF TypeOK
<1>1. CASE SkipSlot(i) \/ ControlIdle(i)
  BY <1>1, NextSlotType DEF SkipSlot, ControlIdle, TypeOK
<1>2. CASE ControlClose(i)
  BY <1>0, <1>2, CleanupType, NextSlotType DEF ControlClose, TypeOK
<1>3. CASE PASS(i)
  <2>1. [conn[i] EXCEPT !.auth = TRUE] \in Connection
    BY <1>0 DEF Connection
  <2>. QED BY <1>0, <1>3, <2>1, AnsweredType DEF PASS
<1>4. CASE REIN(i)
  <2>1. [PassiveClosed(conn[i]) EXCEPT !.auth = FALSE] \in Connection
    BY <1>0, ConnectionType DEF Connection
  <2>. QED BY <1>0, <1>4, <2>1, AnsweredType DEF REIN
<1>5. CASE PASV(i)
  <2>1. PICK fd \in (Fd \ (fds \ {conn[i].passive})) \cup {NoFd} :
          /\ Answered(i, [conn[i] EXCEPT !.passive = fd])
          /\ fds' = ((fds \ {conn[i].passive}) \cup {fd}) \ {NoFd}
    BY <1>5 DEF PASV
  <2>2. [conn[i] EXCEPT !.passive = fd] \in Connection
    BY <1>0, <2>1 DEF Connection, FdOrNone
  <2>3. fds' \subseteq Fd /\ staleClose' \in BOOLEAN
    BY <1>0, <1>5, <2>1 DEF PASV
  <2>. QED BY <2>1, <2>2, <2>3, AnsweredType
<1>6. CASE PORT(i)
  BY <1>0, <1>6, ConnectionType, AnsweredType DEF PORT
<1>7. CASE LIST(i)
  BY <1>0, <1>7, PrepareType DEF LIST, Callback
<1>8. ASSUME NEW f \in {"null", "closed"}, NEW v \in {"null", "alloc", "freed"},
             OpenFailed(i, f, v)
      PROVE  TypeOK'
  <2>1. [conn[i] EXCEPT !.file = f, !.vol = v] \in Connection
    BY <1>0 DEF Connection
  <2>. QED BY <1>0, <1>8, <2>1, AnsweredType DEF OpenFailed
<1>9. ASSUME NEW v \in {"null", "alloc"},
             PrepareDataConnection(i, [conn[i] EXCEPT !.file = "open", !.vol = v],
                                   "transfer")
      PROVE  TypeOK'
  <2>1. [conn[i] EXCEPT !.file = "open", !.vol = v] \in Connection
    BY <1>0 DEF Connection
  <2>. QED BY <1>9, <2>1, PrepareType DEF Callback
<1>10. CASE RETR(i)
  <2>1. conn[i].vol \in {"null", "alloc", "freed"}
    BY <1>0 DEF Connection
  <2>. QED BY <1>8, <1>9, <1>10, <2>1 DEF RETR
<1>11. CASE STOR(i)
  BY <1>8, <1>9, <1>11 DEF STOR
<1>. QED BY <1>1, <1>2, <1>3, <1>4, <1>5, <1>6, <1>7, <1>10, <1>11 DEF Control

LEMMA DataType == ASSUME TypeOK, NEW i \in Slots, Data(i) PROVE TypeOK'
<1>0. conn[i] \in Connection /\ xfers \in 0 .. W - 1
  BY DEF TypeOK
<1>1. ASSUME FinishData(i), thread' \in [Slots -> ThreadState] PROVE TypeOK'
  <2>1. conn' \in [Slots -> Connection] /\ xfers' \in 0 .. W - 1
    BY <1>0, <1>1, ConnectionType, CounterType DEF FinishData, TypeOK
  <2>. QED BY <1>1, <2>1, NextSlotType DEF FinishData, TypeOK
<1>2. ASSUME NEW n \in 0 .. W - 1, CloseData(i, n), thread' \in [Slots -> ThreadState]
      PROVE  TypeOK'
  BY <1>2, CleanupType, NextSlotType DEF CloseData, TypeOK
<1>3. thread \in [Slots -> ThreadState]
  BY DEF TypeOK
<1>4. CASE DataWait(i) \/ TransferPoll(i)
  BY <1>4, NextSlotType DEF DataWait, TransferPoll, Poll, TypeOK
<1>5. CASE DataConnect(i) \/ DataFail(i) \/ DataList(i)
  BY <1>0, <1>1, <1>2, <1>3, <1>5 DEF DataConnect, DataFail, DataList
<1>6. ASSUME NEW fd \in Fd, DataAccept(i, fd) PROVE TypeOK'
  <2>1. [conn[i] EXCEPT !.data = fd, !.connected = TRUE] \in Connection
    BY <1>0 DEF Connection, FdOrNone
  <2>2. conn' = [conn EXCEPT ![i] = [conn[i] EXCEPT !.data = fd, !.connected = TRUE]]
    BY <1>6 DEF DataAccept, TypeOK
  <2>. QED BY <1>6, <2>1, <2>2, NextSlotType DEF DataAccept, TypeOK
<1>7. CASE TransferStart(i)
  <2>1. [conn[i] EXCEPT !.started = TRUE] \in Connection
    BY <1>0 DEF Connection
  <2>2. thread' \in [Slots -> ThreadState]
    BY <1>3, <1>7 DEF TransferStart, Direction, ThreadState
  <2>3. xfers' \in 0 .. W - 1
    BY <1>0, <1>7, CounterType DEF TransferStart
  <2>. QED BY <1>7, <2>1, <2>2, <2>3, NextSlotType DEF TransferStart, TypeOK
<1>8. CASE TransferNoThread(i)
  <2>1. Incremented(xfers) \in 0 .. W - 1
    BY <1>0, CounterType
  <2>. QED BY <1>2, <1>3, <1>8, <2>1 DEF TransferNoThread
<1>9. CASE TransferOverRunning(i) \/ TransferBlock(i)
  BY <1>9 DEF TransferOverRunning, TransferBlock, TypeOK
<1>10. CASE TransferJoin(i)
  <2>1. thread' \in [Slots -> ThreadState]
    BY <1>3, <1>10 DEF TransferJoin, ThreadState
  <2>. QED BY <1>0, <1>1, <1>2, <1>10, <2>1 DEF TransferJoin
<1>. QED BY <1>4, <1>5, <1>6, <1>7, <1>8, <1>9, <1>10 DEF Data

LEMMA ThreadType == ASSUME TypeOK, NEW i \in Slots, Thread(i) PROVE TypeOK'
<1>0. conn[i] \in Connection
  BY DEF TypeOK
<1>1. CASE ThreadMove(i)
  <2>1. [conn[i] EXCEPT !.started = TRUE, !.moving = TRUE] \in Connection
    BY <1>0 DEF Connection
  <2>2. conn' = [conn EXCEPT ![i] = [conn[i] EXCEPT !.started = TRUE, !.moving = TRUE]]
    BY <1>1 DEF ThreadMove, TypeOK
  <2>. QED BY <1>1, <2>1, <2>2 DEF ThreadMove, TypeOK
<1>2. CASE ThreadEnd(i)
  <2>1. [conn[i] EXCEPT !.moving = FALSE] \in Connection
    BY <1>0 DEF Connection
  <2>2. thread' \in [Slots -> ThreadState]
    BY <1>2 DEF ThreadEnd, ThreadState, TypeOK
  <2>. QED BY <1>2, <2>1, <2>2 DEF ThreadEnd, TypeOK
<1>3. CASE ThreadFault(i)
  BY <1>3 DEF ThreadFault, TypeOK
<1>. QED BY <1>1, <1>2, <1>3 DEF Thread

LEMMA LeaveType ==
  ASSUME TypeOK, Buttons \/ Stopped \/ (\E i \in Slots : ExitSlot(i))
  PROVE  TypeOK'
<1>1. CASE Buttons
  BY <1>1, NBAssumption DEF Buttons, Leave, StopReason, TypeOK, Slots
<1>2. CASE Stopped
  BY <1>2 DEF Stopped, vars, TypeOK
<1>3. ASSUME NEW i \in Slots, ExitSlot(i) PROVE TypeOK'
  <2>1. xfers \in 0 .. W - 1
    BY DEF TypeOK
  <2>2. cur' \in Slots
    BY <1>3, NBAssumption DEF ExitSlot, TypeOK, Slots
  <2>3. pc' \in {"exit", "done"}
    BY <1>3 DEF ExitSlot
  <2>. QED BY <1>3, <2>1, <2>2, <2>3, CleanupType DEF ExitSlot, TypeOK
<1>. QED BY <1>1, <1>2, <1>3

LEMMA InitType == Init => TypeOK
<1>1. 0 \in Slots /\ 0 \in 0 .. NB + 1 /\ 0 \in 0 .. W - 1
  BY NBAssumption, WAssumption DEF Slots
<1>. QED BY <1>1, ConnectionType DEF Init, TypeOK, ThreadState, StopReason

LEMMA NextType == TypeOK /\ [Next]_vars => TypeOK'
<1>1. ASSUME TypeOK, Next PROVE TypeOK'
  BY <1>1, AcceptingType, ControlType, DataType, ThreadType, LeaveType DEF Next
<1>2. ASSUME TypeOK, UNCHANGED vars PROVE TypeOK'
  BY <1>2 DEF vars, TypeOK
<1>. QED BY <1>1, <1>2

\* Type correctness, for every number of slots, descriptors and clients; in
\* particular activeConnectionsNumber, the index of the slot that the next
\* connection takes, never leaves 0 .. NB + 1 (ftp.c, processConnections).
THEOREM TypeCorrect == Spec => []TypeOK
BY InitType, NextType, PTL DEF Spec

-----------------------------------------------------------------------------
(***************************************************************************)
(* The count of connections bounds the slots in use.                       *)
(***************************************************************************)

LEMMA SlotsFinite == IsFiniteSet(Slots)
BY FS_Interval, NBAssumption DEF Slots

\* Used only depends on the sockets of the slots.
LEMMA UsedSame ==
  ASSUME \A j \in Slots : conn'[j].sock = conn[j].sock
  PROVE  Used' = Used
BY DEF Used

\* cleanup_connection of a used slot frees it and counts one less.
LEMMA CleanupCount ==
  ASSUME TypeOK, Cardinality(Used) <= active,
         NEW i \in Slots, conn[i].sock # NoFd, NEW n, CleanupConnection(i, n)
  PROVE  Cardinality(Used') <= active'
<1>1. IsFiniteSet(Used) /\ Cardinality(Used) \in Nat
  BY SlotsFinite, FS_Subset, FS_CardinalityType DEF Used
<1>2. Used' = Used \ {i}
  BY DEF Used, CleanupConnection, FreshConnection, TypeOK
<1>3. i \in Used
  BY DEF Used
<1>4. Cardinality(Used') = Cardinality(Used) - 1
  BY <1>1, <1>2, <1>3, FS_RemoveElement
<1>5. active \in Nat
  BY NBAssumption DEF TypeOK
<1>. QED BY <1>1, <1>4, <1>5 DEF CleanupConnection, OneLess

\* While the loop waits in OSJoinThread the session of the slot is connected.
JoinContext ==
  pc = "join" => /\ conn[cur].sock # NoFd
                 /\ conn[cur].cb = "transfer" /\ conn[cur].started

CountInv == TypeOK /\ SlotsWithinCount /\ JoinContext

LEMMA JoinStep == ASSUME TypeOK, JoinContext, [Next]_vars PROVE JoinContext'
<1>1. CASE Accepting \/ Buttons
  BY <1>1 DEF Accepting, AcceptNothing, AcceptError, Refuse, Accept, Buttons,
       Leave, GotoSlots, vars, JoinContext
<1>2. ASSUME NEW i \in Slots, Control(i) PROVE JoinContext'
  <2>1. pc' \in {"slots", "buttons"}
    BY <1>2 DEF Control, SkipSlot, ControlIdle, ControlClose, PASS, REIN, PASV,
         PORT, LIST, RETR, STOR, VisitControl, Answered, OpenFailed,
         PrepareDataConnection, PreparePassive, PrepareActive, PrepareLost,
         PrepareFailed, NextSlot
  <2>. QED BY <2>1 DEF JoinContext
<1>3. ASSUME NEW i \in Slots, Data(i) PROVE JoinContext'
  <2>1. CASE TransferBlock(i)
    BY <2>1 DEF TransferBlock, NextCall, Connected, VisitData, JoinContext
  <2>2. CASE ~TransferBlock(i)
    <3>1. pc' \in {"slots", "buttons", "crashed"}
      BY <1>3, <2>2 DEF Data, DataWait, DataConnect, DataFail, DataList, DataAccept,
           TransferStart, TransferNoThread, TransferOverRunning, TransferPoll,
           TransferJoin, Poll, FinishData, CloseData, NextSlot
    <3>. QED BY <3>1 DEF JoinContext
  <2>. QED BY <2>1, <2>2
<1>4. ASSUME NEW i \in Slots, ExitSlot(i) PROVE JoinContext'
  BY <1>4 DEF ExitSlot, JoinContext
<1>5. ASSUME NEW i \in Slots, Thread(i) PROVE JoinContext'
  <2>1. /\ \A j \in Slots : /\ conn'[j].sock = conn[j].sock
                            /\ conn'[j].cb = conn[j].cb
                            /\ conn[j].started => conn'[j].started
        /\ cur' = cur /\ pc' \in {pc, "crashed"} /\ cur \in Slots
    BY <1>5 DEF Thread, ThreadMove, ThreadEnd, ThreadFault, TypeOK, Connection
  <2>. QED BY <2>1 DEF JoinContext
<1>6. CASE Stopped \/ UNCHANGED vars
  BY <1>6 DEF Stopped, vars, JoinContext
<1>. QED BY <1>1, <1>2, <1>3, <1>4, <1>5, <1>6 DEF Next

\* The steps that leave the sockets and the count alone.
LEMMA SameCount ==
  ASSUME CountInv, Serving, active' = active,
         \A j \in Slots : conn'[j].sock = conn[j].sock
  PROVE  SlotsWithinCount'
BY UsedSame DEF CountInv, SlotsWithinCount

LEMMA AcceptCount ==
  ASSUME CountInv, NEW c \in Client, NEW fd \in Fd, Accept(c, fd)
  PROVE  SlotsWithinCount'
<1>1. CASE pc' = "exit"
  BY <1>1 DEF SlotsWithinCount, Serving
<1>2. CASE conn' = [conn EXCEPT ![NewSlot] = [FreshConnection EXCEPT !.sock = fd]]
           /\ active' = active + 1
  <2>1. active \in Slots /\ active \in Nat
    BY NBAssumption DEF CountInv, TypeOK, Accept, ServerFull, Slots
  <2>2. Used' = Used \cup {active}
    BY <1>2, <2>1, FdAssumption DEF Used, NewSlot, CountInv, TypeOK, FreshConnection
  <2>3. IsFiniteSet(Used) /\ Cardinality(Used) \in Nat
    BY SlotsFinite, FS_Subset, FS_CardinalityType DEF Used
  <2>4. Cardinality(Used') <= Cardinality(Used) + 1
    BY <2>2, <2>3, FS_AddElement
  <2>5. Cardinality(Used') \in Nat
    BY <2>2, <2>3, FS_AddElement, FS_CardinalityType
  <2>6. Cardinality(Used) <= active
    BY DEF CountInv, SlotsWithinCount, Serving, Accept
  <2>. QED BY <1>2, <2>1, <2>3, <2>4, <2>5, <2>6 DEF SlotsWithinCount
<1>. QED BY <1>1, <1>2 DEF Accept, Leave

LEMMA PrepareCount ==
  ASSUME CountInv, Serving, NEW i \in Slots, conn[i].sock # NoFd,
         NEW c \in Connection, c.sock = conn[i].sock, NEW cb \in Callback,
         PrepareDataConnection(i, c, cb)
  PROVE  SlotsWithinCount'
<1>1. \A fd \in FdOrNone : /\ Prepared(c, cb, fd).sock = conn[i].sock
                           /\ [c EXCEPT !.data = fd].sock = conn[i].sock
  BY DEF Prepared, Connection
<1>2. c.passive \in FdOrNone /\ TypeOK /\ Cardinality(Used) <= active
  BY ConnectionType DEF CountInv, SlotsWithinCount
<1>3. CASE PreparePassive(i, c, cb)
  <2>1. \A j \in Slots : conn'[j].sock = conn[j].sock
    BY <1>1, <1>2, <1>3 DEF PreparePassive, TypeOK
  <2>. QED BY <1>3, <2>1, SameCount DEF PreparePassive
<1>4. CASE PrepareActive(i, c, cb)
  <2>1. \A j \in Slots : conn'[j].sock = conn[j].sock
    BY <1>1, <1>2, <1>4 DEF PrepareActive, TypeOK, FdOrNone
  <2>. QED BY <1>4, <2>1, SameCount DEF PrepareActive
<1>5. CASE PrepareLost(i, c)
  <2>1. \A j \in Slots : conn'[j].sock = conn[j].sock
    BY <1>1, <1>2, <1>5 DEF PrepareLost, TypeOK, FdOrNone
  <2>. QED BY <1>5, <2>1, SameCount DEF PrepareLost
<1>6. CASE PrepareFailed(i)
  BY <1>2, <1>6, CleanupCount DEF PrepareFailed, SlotsWithinCount
<1>. QED BY <1>3, <1>4, <1>5, <1>6 DEF PrepareDataConnection

LEMMA ControlCount ==
  ASSUME CountInv, NEW i \in Slots, Control(i) PROVE SlotsWithinCount'
<1>0. conn[i] \in Connection /\ TypeOK
  BY DEF CountInv, TypeOK
<1>1. CASE SkipSlot(i) \/ ControlIdle(i)
  BY <1>1, SameCount DEF SkipSlot, ControlIdle, VisitControl, Serving
<1>2. ASSUME VisitControl(i)
      PROVE  Serving /\ conn[i].sock # NoFd /\ Cardinality(Used) <= active
  BY <1>2 DEF VisitControl, Serving, CountInv, SlotsWithinCount
<1>3. ASSUME VisitControl(i), NEW c \in Connection, c.sock = conn[i].sock, Answered(i, c)
      PROVE  SlotsWithinCount'
  <2>1. \A j \in Slots : conn'[j].sock = conn[j].sock
    BY <1>0, <1>3 DEF Answered, TypeOK
  <2>. QED BY <1>2, <1>3, <2>1, SameCount DEF Answered
<1>4. CASE ControlClose(i)
  BY <1>0, <1>2, <1>4, CleanupCount DEF ControlClose, SlotsWithinCount
<1>5. CASE PASS(i) \/ REIN(i) \/ PORT(i)
  <2>1. /\ [conn[i] EXCEPT !.auth = TRUE] \in Connection
        /\ [conn[i] EXCEPT !.auth = TRUE].sock = conn[i].sock
        /\ [PassiveClosed(conn[i]) EXCEPT !.auth = FALSE] \in Connection
        /\ [PassiveClosed(conn[i]) EXCEPT !.auth = FALSE].sock = conn[i].sock
        /\ PassiveClosed(conn[i]) \in Connection
        /\ PassiveClosed(conn[i]).sock = conn[i].sock
    BY <1>0, ConnectionType DEF Connection, PassiveClosed, FdOrNone
  <2>. QED BY <1>3, <1>5, <2>1 DEF PASS, REIN, PORT
<1>6. CASE PASV(i)
  <2>1. PICK fd \in (Fd \ (fds \ {conn[i].passive})) \cup {NoFd} :
          Answered(i, [conn[i] EXCEPT !.passive = fd])
    BY <1>6 DEF PASV
  <2>2. /\ [conn[i] EXCEPT !.passive = fd] \in Connection
        /\ [conn[i] EXCEPT !.passive = fd].sock = conn[i].sock
    BY <1>0, <2>1 DEF Connection, FdOrNone
  <2>. QED BY <1>3, <1>6, <2>1, <2>2 DEF PASV
<1>7. CASE LIST(i)
  BY <1>0, <1>2, <1>7, PrepareCount DEF LIST, Callback
<1>8. ASSUME VisitControl(i), NEW f \in {"null", "closed"},
             NEW v \in {"null", "alloc", "freed"}, OpenFailed(i, f, v)
      PROVE  SlotsWithinCount'
  <2>1. /\ [conn[i] EXCEPT !.file = f, !.vol = v] \in Connection
        /\ [conn[i] EXCEPT !.file = f, !.vol = v].sock = conn[i].sock
    BY <1>0 DEF Connection
  <2>. QED BY <1>3, <1>8, <2>1 DEF OpenFailed
<1>9. ASSUME VisitControl(i), NEW v \in {"null", "alloc"},
             PrepareDataConnection(i, [conn[i] EXCEPT !.file = "open", !.vol = v],
                                   "transfer")
      PROVE  SlotsWithinCount'
  <2>1. /\ [conn[i] EXCEPT !.file = "open", !.vol = v] \in Connection
        /\ [conn[i] EXCEPT !.file = "open", !.vol = v].sock = conn[i].sock
    BY <1>0 DEF Connection
  <2>. QED BY <1>2, <1>9, <2>1, PrepareCount DEF Callback
<1>10. CASE RETR(i)
  <2>1. conn[i].vol \in {"null", "alloc", "freed"}
    BY <1>0 DEF Connection
  <2>. QED BY <1>8, <1>9, <1>10, <2>1 DEF RETR
<1>11. CASE STOR(i)
  BY <1>8, <1>9, <1>11 DEF STOR
<1>. QED BY <1>1, <1>4, <1>5, <1>6, <1>7, <1>10, <1>11 DEF Control

LEMMA DataCount ==
  ASSUME CountInv, NEW i \in Slots, Data(i) PROVE SlotsWithinCount'
<1>0. conn[i] \in Connection /\ TypeOK
  BY DEF CountInv, TypeOK
<1>1. ASSUME VisitData(i) \/ TransferJoin(i)
      PROVE  Serving /\ conn[i].sock # NoFd /\ Cardinality(Used) <= active
  BY <1>1 DEF VisitData, TransferJoin, Serving, CountInv, SlotsWithinCount, JoinContext
<1>2. ASSUME VisitData(i) \/ TransferJoin(i), FinishData(i) PROVE SlotsWithinCount'
  <2>1. DataCleaned(conn[i]).sock = conn[i].sock
    BY <1>0 DEF DataCleaned, Connection
  <2>2. \A j \in Slots : conn'[j].sock = conn[j].sock
    BY <1>0, <1>2, <2>1 DEF FinishData, TypeOK
  <2>. QED BY <1>1, <1>2, <2>2, SameCount DEF FinishData
<1>3. ASSUME VisitData(i) \/ TransferJoin(i), NEW n, CloseData(i, n) PROVE SlotsWithinCount'
  BY <1>0, <1>1, <1>3, CleanupCount DEF CloseData, SlotsWithinCount
<1>4. CASE \/ DataWait(i) \/ TransferPoll(i)
           \/ TransferOverRunning(i) \/ TransferBlock(i)
  BY <1>1, <1>4, SameCount DEF DataWait, TransferPoll, Poll, TransferOverRunning,
       TransferBlock, Connecting, NextCall, FirstCall, Connected
<1>5. CASE DataConnect(i) \/ DataFail(i) \/ DataList(i) \/ TransferNoThread(i)
           \/ TransferJoin(i)
  BY <1>2, <1>3, <1>5 DEF DataConnect, DataFail, DataList, TransferNoThread,
       TransferJoin, Connecting, Connected, FirstCall, NextCall
<1>6. ASSUME NEW fd \in Fd, DataAccept(i, fd) PROVE SlotsWithinCount'
  <2>1. \A j \in Slots : conn'[j].sock = conn[j].sock
    BY <1>0, <1>6 DEF DataAccept, TypeOK, Connection
  <2>. QED BY <1>1, <1>6, <2>1, SameCount DEF DataAccept, Connecting
<1>7. CASE TransferStart(i)
  <2>1. \A j \in Slots : conn'[j].sock = conn[j].sock
    BY <1>0, <1>7 DEF TransferStart, TypeOK, Connection
  <2>. QED BY <1>1, <1>7, <2>1, SameCount DEF TransferStart, FirstCall, Connected
<1>. QED BY <1>4, <1>5, <1>6, <1>7 DEF Data

LEMMA ThreadCount ==
  ASSUME CountInv, NEW i \in Slots, Thread(i) PROVE SlotsWithinCount'
<1>1. /\ \A j \in Slots : conn'[j].sock = conn[j].sock
      /\ active' = active
      /\ pc' \in {pc, "crashed"}
  BY DEF Thread, ThreadMove, ThreadEnd, ThreadFault, CountInv, TypeOK, Connection
<1>2. Serving' => Serving
  BY <1>1 DEF Serving
<1>. QED BY <1>1, <1>2, SameCount DEF SlotsWithinCount

\* The remaining steps leave the loop, or do not touch the slots.
LEMMA OtherCount ==
  ASSUME CountInv,
         \/ AcceptNothing \/ AcceptError \/ (\E c \in Client : Refuse(c))
         \/ Buttons \/ Stopped \/ (\E i \in Slots : ExitSlot(i)) \/ UNCHANGED vars
  PROVE  SlotsWithinCount'
<1>1. CASE AcceptNothing \/ AcceptError \/ (\E c \in Client : Refuse(c)) \/ Buttons
  BY <1>1, SameCount DEF AcceptNothing, AcceptError, Refuse, Buttons, Serving, vars
<1>2. CASE Stopped \/ (\E i \in Slots : ExitSlot(i))
  BY <1>2 DEF Stopped, ExitSlot, vars, Serving, SlotsWithinCount, CountInv, TypeOK
<1>3. CASE UNCHANGED vars
  BY <1>3, SameCount DEF vars, Serving, SlotsWithinCount, CountInv, Used
<1>. QED BY <1>1, <1>2, <1>3

\* For any NB: while the server runs, at most activeConnectionsNumber slots are
\* in use (ftp.c, processConnections and cleanup_connection).
THEOREM CountBoundsSlots == Spec => []SlotsWithinCount
<1>1. Init => CountInv
  <2>1. ASSUME Init PROVE Used = {}
    BY <2>1 DEF Init, Used, FreshConnection
  <2>2. Cardinality({}) = 0
    BY FS_EmptySet
  <2>3. ASSUME Init PROVE SlotsWithinCount
    <3>1. Cardinality(Used) = 0 /\ active = 0
      BY <2>1, <2>2, <2>3 DEF Init
    <3>. QED BY <3>1 DEF SlotsWithinCount
  <2>4. Init => JoinContext
    BY DEF Init, JoinContext
  <2>. QED BY <2>3, <2>4, InitType DEF CountInv
<1>2. CountInv /\ [Next]_vars => CountInv'
  <2>1. ASSUME CountInv, Next PROVE SlotsWithinCount'
    BY <2>1, AcceptCount, ControlCount, DataCount, ThreadCount, OtherCount
    DEF Next, Accepting
  <2>2. ASSUME CountInv, UNCHANGED vars PROVE SlotsWithinCount'
    BY <2>2, OtherCount
  <2>. QED BY <2>1, <2>2, NextType, JoinStep DEF CountInv
<1>3. CountInv => SlotsWithinCount
  BY DEF CountInv
<1>. QED BY <1>1, <1>2, <1>3, PTL DEF Spec

-----------------------------------------------------------------------------
(***************************************************************************)
(* Transfers and their threads.                                            *)
(***************************************************************************)

\* What CallbackContext and ThreadHoldsTransfer say of one slot, as operators
\* on the slot, so that a step needs to be looked at for the slot it changes.
GoodCallback(c) ==
  c.cb # "none" =>
    /\ c.sock # NoFd /\ c.auth
    /\ c.connected => c.data # NoFd
    /\ c.cb = "transfer" => c.file = "open" /\ c.vol # "freed"

UnderWay(c) == c.cb = "transfer" /\ c.connected /\ c.started /\ c.file = "open"

TransferInv == TypeOK /\ CallbackContext /\ ThreadHoldsTransfer

LEMMA BySlot ==
  /\ CallbackContext <=> \A j \in Slots : GoodCallback(conn[j])
  /\ ThreadHoldsTransfer <=>
       (Serving => \A j \in Slots \ clobbered : Running(j) => UnderWay(conn[j]))
BY DEF CallbackContext, ThreadHoldsTransfer, GoodCallback, UnderWay

\* A step that gives slot i the well-formed value c, changes no thread and
\* takes no slot out of clobbered keeps the invariant if no thread is running
\* on i, or if the transfer of i remains under way.
LEMMA OneSlot ==
  ASSUME TransferInv, NEW i \in Slots, NEW c,
         conn' = [conn EXCEPT ![i] = c], thread' = thread,
         clobbered \subseteq clobbered', Serving' => Serving,
         GoodCallback(c),
         Serving => i \in clobbered' \/ ~Running(i) \/ UnderWay(c)
  PROVE  CallbackContext' /\ ThreadHoldsTransfer'
<1>1. \A j \in Slots : conn'[j] = IF j = i THEN c ELSE conn[j]
  BY DEF TransferInv, TypeOK
<1>2. CallbackContext'
  <2>1. \A j \in Slots : GoodCallback(conn[j])
    BY BySlot DEF TransferInv
  <2>2. \A j \in Slots : GoodCallback(conn'[j])
    BY <1>1, <2>1
  <2>. QED BY <2>2 DEF CallbackContext, GoodCallback
<1>3. ThreadHoldsTransfer'
  <2>1. SUFFICES ASSUME Serving', NEW j \in Slots \ clobbered', Running(j)'
                 PROVE  UnderWay(conn'[j])
    BY DEF ThreadHoldsTransfer, UnderWay
  <2>2. Serving /\ j \in Slots \ clobbered /\ Running(j)
    BY <2>1 DEF Running
  <2>3. CASE j = i
    BY <1>1, <2>1, <2>2, <2>3
  <2>4. CASE j # i
    BY <1>1, <2>2, <2>4, BySlot DEF TransferInv
  <2>. QED BY <2>3, <2>4
<1>. QED BY <1>2, <1>3

\* The same for a step on the slots that touches neither slots nor threads.
LEMMA NoSlot ==
  ASSUME TransferInv, conn' = conn, thread' = thread, clobbered' = clobbered,
         Serving' => Serving
  PROVE  CallbackContext' /\ ThreadHoldsTransfer'
BY DEF TransferInv, CallbackContext, ThreadHoldsTransfer, Running

LEMMA FreshIsGood ==
  /\ GoodCallback(FreshConnection)
  /\ \A fd : GoodCallback([FreshConnection EXCEPT !.sock = fd])
BY DEF GoodCallback, FreshConnection

\* A slot without a callback, or whose data connection is not open, or whose
\* transfer has not started, has no thread unless it was clobbered.
LEMMA NoThread ==
  ASSUME TransferInv, Serving, NEW i \in Slots, ~UnderWay(conn[i])
  PROVE  i \in clobbered \/ ~Running(i)
BY BySlot DEF TransferInv

LEMMA AcceptTransfer ==
  ASSUME TransferInv, NEW a \in Client, NEW fd \in Fd, Accept(a, fd)
  PROVE  CallbackContext' /\ ThreadHoldsTransfer'
<1>1. active \in Slots /\ Serving
  BY NBAssumption DEF TransferInv, TypeOK, Accept, ServerFull, Slots, Serving
<1>2. clobbered \subseteq clobbered' /\ thread' = thread
  BY DEF Accept
<1>3. active \in clobbered' \/ ~Running(active)
  <2>1. CASE conn[active].sock # NoFd
    BY <2>1 DEF Accept, NewSlot
  <2>2. CASE conn[active].sock = NoFd
    <3>1. ~UnderWay(conn[active])
      BY <1>1, <2>2, BySlot DEF TransferInv, GoodCallback, UnderWay
    <3>. QED BY <1>1, <1>2, <3>1, NoThread
  <2>. QED BY <2>1, <2>2
<1>4. PICK c : conn' = [conn EXCEPT ![active] = c] /\ GoodCallback(c)
  BY FreshIsGood DEF Accept, NewSlot
<1>. QED BY <1>1, <1>2, <1>3, <1>4, OneSlot

LEMMA PrepareTransfer ==
  ASSUME TransferInv, NEW i \in Slots, VisitControl(i),
         NEW c \in Connection, c.sock = conn[i].sock, c.auth, c.cb = "none",
         NEW cb \in {"list", "transfer"},
         cb = "transfer" => c.file = "open" /\ c.vol # "freed",
         PrepareDataConnection(i, c, cb)
  PROVE  CallbackContext' /\ ThreadHoldsTransfer'
<1>1. Serving /\ conn[i].sock # NoFd /\ ~UnderWay(conn[i])
  BY DEF VisitControl, Serving, UnderWay
<1>2. i \in clobbered \/ ~Running(i)
  BY <1>1, NoThread
<1>3. thread' = thread /\ clobbered' = clobbered
  BY DEF PrepareDataConnection
<1>4. \A fd \in FdOrNone : GoodCallback(Prepared(c, cb, fd))
  BY <1>1 DEF GoodCallback, Prepared, Connection
<1>5. \A fd \in FdOrNone : GoodCallback([c EXCEPT !.data = fd])
  BY DEF GoodCallback, Connection
<1>6. CASE PreparePassive(i, c, cb)
  <2>1. c.passive \in FdOrNone
    BY ConnectionType
  <2>. QED BY <1>1, <1>2, <1>3, <1>4, <1>6, <2>1, OneSlot DEF PreparePassive
<1>7. CASE PrepareActive(i, c, cb)
  <2>1. PICK fd \in FdOrNone : conn' = [conn EXCEPT ![i] = Prepared(c, cb, fd)]
    BY <1>7 DEF PrepareActive, FdOrNone
  <2>. QED BY <1>1, <1>2, <1>3, <1>4, <2>1, OneSlot
<1>8. CASE PrepareLost(i, c)
  <2>1. PICK fd \in FdOrNone : conn' = [conn EXCEPT ![i] = [c EXCEPT !.data = fd]]
    BY <1>8 DEF PrepareLost, FdOrNone
  <2>. QED BY <1>1, <1>2, <1>3, <1>5, <2>1, OneSlot
<1>9. CASE PrepareFailed(i)
  BY <1>1, <1>2, <1>3, <1>9, FreshIsGood, OneSlot DEF PrepareFailed, CleanupConnection
<1>. QED BY <1>6, <1>7, <1>8, <1>9 DEF PrepareDataConnection

LEMMA ControlTransfer ==
  ASSUME TransferInv, NEW i \in Slots, Control(i)
  PROVE  CallbackContext' /\ ThreadHoldsTransfer'
<1>0. conn[i] \in Connection
  BY DEF TransferInv, TypeOK
<1>1. CASE SkipSlot(i) \/ ControlIdle(i)
  BY <1>1, NoSlot DEF SkipSlot, ControlIdle, VisitControl, Serving
<1>2. ASSUME VisitControl(i)
      PROVE  Serving /\ conn[i].cb = "none" /\ (i \in clobbered \/ ~Running(i))
  BY <1>2, NoThread DEF VisitControl, Serving, UnderWay
<1>3. ASSUME VisitControl(i), NEW c \in Connection, c.cb = "none", Answered(i, c)
      PROVE  CallbackContext' /\ ThreadHoldsTransfer'
  <2>1. GoodCallback(c)
    BY <1>3 DEF GoodCallback
  <2>. QED BY <1>2, <1>3, <2>1, OneSlot DEF Answered
<1>4. CASE ControlClose(i)
  BY <1>2, <1>4, FreshIsGood, OneSlot DEF ControlClose, CleanupConnection
<1>5. CASE PASS(i) \/ REIN(i) \/ PORT(i)
  <2>1. VisitControl(i) /\ conn[i].cb = "none"
    BY <1>2, <1>5 DEF PASS, REIN, PORT
  <2>2. /\ [conn[i] EXCEPT !.auth = TRUE] \in Connection
        /\ [conn[i] EXCEPT !.auth = TRUE].cb = "none"
        /\ [PassiveClosed(conn[i]) EXCEPT !.auth = FALSE] \in Connection
        /\ [PassiveClosed(conn[i]) EXCEPT !.auth = FALSE].cb = "none"
        /\ PassiveClosed(conn[i]) \in Connection
        /\ PassiveClosed(conn[i]).cb = "none"
    BY <1>0, <2>1, ConnectionType DEF Connection, PassiveClosed, FdOrNone
  <2>. QED BY <1>3, <1>5, <2>1, <2>2 DEF PASS, REIN, PORT
<1>6. CASE PASV(i)
  <2>1. PICK fd \in (Fd \ (fds \ {conn[i].passive})) \cup {NoFd} :
          Answered(i, [conn[i] EXCEPT !.passive = fd])
    BY <1>6 DEF PASV
  <2>2. /\ [conn[i] EXCEPT !.passive = fd] \in Connection
        /\ [conn[i] EXCEPT !.passive = fd].cb = "none"
    BY <1>0, <1>2, <1>6, <2>1 DEF Connection, FdOrNone, PASV
  <2>. QED BY <1>3, <1>6, <2>1, <2>2 DEF PASV
<1>7. CASE LIST(i)
  BY <1>0, <1>2, <1>7, PrepareTransfer DEF LIST
<1>8. ASSUME VisitControl(i), NEW f \in {"null", "closed"},
             NEW v \in {"null", "alloc", "freed"}, OpenFailed(i, f, v)
      PROVE  CallbackContext' /\ ThreadHoldsTransfer'
  <2>1. /\ [conn[i] EXCEPT !.file = f, !.vol = v] \in Connection
        /\ [conn[i] EXCEPT !.file = f, !.vol = v].cb = "none"
    BY <1>0, <1>2, <1>8 DEF Connection
  <2>. QED BY <1>3, <1>8, <2>1 DEF OpenFailed
<1>9. ASSUME VisitControl(i), conn[i].auth, NEW v \in {"null", "alloc"},
             PrepareDataConnection(i, [conn[i] EXCEPT !.file = "open", !.vol = v],
                                   "transfer")
      PROVE  CallbackContext' /\ ThreadHoldsTransfer'
  <2> DEFINE c == [conn[i] EXCEPT !.file = "open", !.vol = v]
  <2>1. /\ c \in Connection /\ c.sock = conn[i].sock /\ c.auth
        /\ c.cb = "none" /\ c.file = "open" /\ c.vol # "freed"
    BY <1>0, <1>2, <1>9 DEF Connection
  <2>. QED BY <1>9, <2>1, PrepareTransfer
<1>10. CASE RETR(i)
  <2>1. conn[i].vol \in {"null", "alloc", "freed"}
    BY <1>0 DEF Connection
  <2>. QED BY <1>8, <1>9, <1>10, <2>1 DEF RETR
<1>11. CASE STOR(i)
  BY <1>8, <1>9, <1>11 DEF STOR
<1>. QED BY <1>1, <1>4, <1>5, <1>6, <1>7, <1>10, <1>11 DEF Control

\* A step that changes slot i and its thread keeps the invariant if the thread
\* does not run afterwards, or runs for a transfer that is under way, or ran
\* before for what it now finds.
LEMMA OneSlotThread ==
  ASSUME TransferInv, NEW i \in Slots, NEW c, NEW t,
         conn' = [conn EXCEPT ![i] = c], thread' = [thread EXCEPT ![i] = t],
         clobbered' = clobbered, Serving' => Serving,
         GoodCallback(c),
         Serving => i \in clobbered \/ t \notin {"send", "recv"} \/ UnderWay(c)
  PROVE  CallbackContext' /\ ThreadHoldsTransfer'
<1>1. \A j \in Slots : /\ conn'[j] = IF j = i THEN c ELSE conn[j]
                       /\ thread'[j] = IF j = i THEN t ELSE thread[j]
  BY DEF TransferInv, TypeOK
<1>2. CallbackContext'
  <2>1. \A j \in Slots : GoodCallback(conn[j])
    BY BySlot DEF TransferInv
  <2>2. \A j \in Slots : GoodCallback(conn'[j])
    BY <1>1, <2>1
  <2>. QED BY <2>2 DEF CallbackContext, GoodCallback
<1>3. ThreadHoldsTransfer'
  <2>1. SUFFICES ASSUME Serving', NEW j \in Slots \ clobbered', Running(j)'
                 PROVE  UnderWay(conn'[j])
    BY DEF ThreadHoldsTransfer, UnderWay
  <2>2. CASE j = i
    BY <1>1, <2>1, <2>2 DEF Running
  <2>3. CASE j # i
    <3>1. Running(j)
      BY <1>1, <2>1, <2>3 DEF Running
    <3>. QED BY <1>1, <2>1, <2>3, <3>1, BySlot DEF TransferInv
  <2>. QED BY <2>2, <2>3
<1>. QED BY <1>2, <1>3

LEMMA DataTransfer ==
  ASSUME TransferInv, NEW i \in Slots, Data(i)
  PROVE  CallbackContext' /\ ThreadHoldsTransfer'
<1>0. conn[i] \in Connection /\ GoodCallback(conn[i])
  BY BySlot DEF TransferInv, TypeOK
<1>1. ASSUME VisitData(i) PROVE Serving
  BY <1>1 DEF VisitData, Serving
<1>2. GoodCallback(DataCleaned(conn[i]))
  BY <1>0 DEF GoodCallback, DataCleaned, Connection
<1>3. ASSUME VisitData(i), ~UnderWay(conn[i]), thread' = thread,
             FinishData(i) \/ (\E n : CloseData(i, n))
      PROVE  CallbackContext' /\ ThreadHoldsTransfer'
  <2>1. i \in clobbered \/ ~Running(i)
    BY <1>1, <1>3, NoThread
  <2>2. PICK c : conn' = [conn EXCEPT ![i] = c] /\ GoodCallback(c)
    BY <1>2, <1>3, FreshIsGood DEF FinishData, CloseData, CleanupConnection
  <2>3. clobbered' = clobbered
    BY <1>3 DEF FinishData, CloseData
  <2>. QED BY <1>1, <1>3, <2>1, <2>2, <2>3, OneSlot
<1>4. CASE \/ DataWait(i) \/ TransferPoll(i)
           \/ TransferOverRunning(i) \/ TransferBlock(i)
  BY <1>1, <1>4, NoSlot DEF DataWait, TransferPoll, Poll, TransferOverRunning,
       TransferBlock, Connecting, NextCall, FirstCall, Connected
<1>5. CASE DataConnect(i) \/ DataFail(i)
  <2>1. VisitData(i) /\ ~UnderWay(conn[i])
    BY <1>5 DEF DataConnect, DataFail, Connecting, UnderWay
  <2>. QED BY <1>3, <1>5, <2>1 DEF DataConnect, DataFail
<1>6. CASE DataList(i)
  <2>1. VisitData(i) /\ ~UnderWay(conn[i])
    BY <1>6 DEF DataList, Connected, UnderWay
  <2>. QED BY <1>3, <1>6, <2>1 DEF DataList
<1>7. CASE TransferNoThread(i)
  <2>1. VisitData(i) /\ ~UnderWay(conn[i])
    BY <1>7 DEF TransferNoThread, FirstCall, Connected, UnderWay
  <2>. QED BY <1>3, <1>7, <2>1 DEF TransferNoThread
<1>8. ASSUME NEW fd \in Fd, DataAccept(i, fd)
      PROVE  CallbackContext' /\ ThreadHoldsTransfer'
  <2> DEFINE c == [conn[i] EXCEPT !.data = fd, !.connected = TRUE]
  <2>1. conn' = [conn EXCEPT ![i] = c]
    BY <1>8 DEF DataAccept, TransferInv, TypeOK
  <2>2. GoodCallback(c)
    BY <1>0, FdAssumption DEF GoodCallback, Connection
  <2>3. VisitData(i) /\ ~UnderWay(conn[i])
    BY <1>8 DEF DataAccept, Connecting, UnderWay
  <2>4. i \in clobbered \/ ~Running(i)
    BY <1>1, <2>3, NoThread
  <2>5. thread' = thread /\ clobbered' = clobbered
    BY <1>8 DEF DataAccept
  <2>. QED BY <1>1, <2>1, <2>2, <2>3, <2>4, <2>5, OneSlot
<1>9. CASE TransferStart(i)
  <2> DEFINE c == [conn[i] EXCEPT !.started = TRUE]
             t == Direction(conn[i])
  <2>1. /\ conn' = [conn EXCEPT ![i] = c] /\ thread' = [thread EXCEPT ![i] = t]
        /\ clobbered' = clobbered
    BY <1>9 DEF TransferStart, TransferInv, TypeOK
  <2>2. VisitData(i) /\ conn[i].connected /\ conn[i].cb = "transfer"
    BY <1>9 DEF TransferStart, FirstCall, Connected
  <2>3. GoodCallback(c) /\ UnderWay(c)
    BY <1>0, <2>2 DEF GoodCallback, UnderWay, Connection
  <2>. HIDE DEF c, t
  <2>. QED BY <1>1, <2>1, <2>2, <2>3, OneSlotThread
<1>10. CASE TransferJoin(i)
  <2>1. Serving /\ thread' = [thread EXCEPT ![i] = "none"]
    BY <1>10 DEF TransferJoin, Serving
  <2>2. PICK c : conn' = [conn EXCEPT ![i] = c] /\ GoodCallback(c)
    BY <1>2, <1>10, FreshIsGood
    DEF TransferJoin, FinishData, CloseData, CleanupConnection
  <2>3. clobbered' = clobbered
    BY <1>10 DEF TransferJoin, FinishData, CloseData
  <2>. QED BY <2>1, <2>2, <2>3, OneSlotThread
<1>. QED BY <1>4, <1>5, <1>6, <1>7, <1>8, <1>9, <1>10 DEF Data

LEMMA ThreadTransfer ==
  ASSUME TransferInv, NEW i \in Slots, Thread(i)
  PROVE  CallbackContext' /\ ThreadHoldsTransfer'
<1>0. conn[i] \in Connection /\ GoodCallback(conn[i])
  BY BySlot DEF TransferInv, TypeOK
<1>1. CASE ThreadMove(i)
  <2> DEFINE c == [conn[i] EXCEPT !.started = TRUE, !.moving = TRUE]
  <2>1. conn' = [conn EXCEPT ![i] = c]
    BY <1>1 DEF ThreadMove, TransferInv, TypeOK
  <2>2. GoodCallback(c) /\ (UnderWay(conn[i]) => UnderWay(c))
    BY <1>0 DEF GoodCallback, UnderWay, Connection
  <2>3. thread' = thread /\ clobbered' = clobbered /\ pc' = pc
    BY <1>1 DEF ThreadMove
  <2>. HIDE DEF c
  <2>. QED BY <2>1, <2>2, <2>3, OneSlot, BySlot DEF TransferInv, Serving
<1>2. CASE ThreadEnd(i)
  <2> DEFINE c == [conn[i] EXCEPT !.moving = FALSE]
  <2>1. /\ conn' = [conn EXCEPT ![i] = c] /\ thread' = [thread EXCEPT ![i] = "done"]
        /\ clobbered' = clobbered /\ pc' = pc
    BY <1>2 DEF ThreadEnd, TransferInv, TypeOK
  <2>2. GoodCallback(c)
    BY <1>0 DEF GoodCallback, Connection
  <2>3. Serving' => Serving
    BY <2>1 DEF Serving
  <2>. HIDE DEF c
  <2>. QED BY <2>1, <2>2, <2>3, OneSlotThread
<1>3. CASE ThreadFault(i)
  BY <1>3, NoSlot DEF ThreadFault, Serving
<1>. QED BY <1>1, <1>2, <1>3 DEF Thread

LEMMA OtherTransfer ==
  ASSUME TransferInv,
         \/ AcceptNothing \/ AcceptError \/ (\E c \in Client : Refuse(c))
         \/ Buttons \/ Stopped \/ (\E i \in Slots : ExitSlot(i)) \/ UNCHANGED vars
  PROVE  CallbackContext' /\ ThreadHoldsTransfer'
<1>1. CASE \/ AcceptNothing \/ AcceptError \/ (\E c \in Client : Refuse(c))
           \/ Buttons
  <2>1. conn' = conn /\ thread' = thread /\ clobbered' = clobbered /\ Serving
    BY <1>1 DEF AcceptNothing, AcceptError, Refuse, Buttons, vars, Serving
  <2>. QED BY <2>1, NoSlot
<1>2. CASE Stopped \/ UNCHANGED vars
  BY <1>2, NoSlot DEF Stopped, vars, Serving
<1>3. ASSUME NEW i \in Slots, ExitSlot(i)
      PROVE  CallbackContext' /\ ThreadHoldsTransfer'
  <2>1. ~Serving /\ ~Serving'
    BY <1>3 DEF ExitSlot, Serving
  <2>. QED BY <1>3, <2>1, FreshIsGood, OneSlot DEF ExitSlot, CleanupConnection
<1>. QED BY <1>1, <1>2, <1>3

\* For any NB: a data callback has its session, its data socket and its file,
\* and a transfer thread that runs while the server runs works on a transfer
\* that is under way, with its file open, except on a slot that was given away
\* under a client (ftp.c: transfer, process_data_events, cleanup_connection).
THEOREM TransfersKeepTheirFiles == Spec => [](CallbackContext /\ ThreadHoldsTransfer)
<1>1. Init => TransferInv
  <2>1. ASSUME Init PROVE CallbackContext /\ ThreadHoldsTransfer
    BY <2>1 DEF Init, CallbackContext, ThreadHoldsTransfer, FreshConnection, Running
  <2>. QED BY <2>1, InitType DEF TransferInv
<1>2. TransferInv /\ [Next]_vars => TransferInv'
  <2>1. ASSUME TransferInv, Next PROVE CallbackContext' /\ ThreadHoldsTransfer'
    BY <2>1, AcceptTransfer, ControlTransfer, DataTransfer, ThreadTransfer,
       OtherTransfer DEF Next, Accepting
  <2>2. ASSUME TransferInv, UNCHANGED vars PROVE CallbackContext' /\ ThreadHoldsTransfer'
    BY <2>2, OtherTransfer
  <2>. QED BY <2>1, <2>2, NextType DEF TransferInv
<1>3. TransferInv => CallbackContext /\ ThreadHoldsTransfer
  BY DEF TransferInv
<1>. QED BY <1>1, <1>2, <1>3, PTL DEF Spec

-----------------------------------------------------------------------------
(***************************************************************************)
(* What can bring the program down.                                        *)
(***************************************************************************)

CrashInv ==
  /\ TransferInv
  /\ CrashCause
  /\ pc \in {"exit", "done"} => stop # "no"

\* A step on which the history only grows.
LEMMA HistoryGrows ==
  ASSUME CrashInv, pc' = "crashed" => pc = "crashed", stop \in {"no", stop'},
         clobbered \subseteq clobbered',
         pc' \in {"exit", "done"} => stop' # "no"
  PROVE  CrashCause' /\ (pc' \in {"exit", "done"} => stop' # "no")
BY DEF CrashInv, CrashCause

LEMMA CrashStep ==
  ASSUME CrashInv, Next
  PROVE  CrashCause' /\ (pc' \in {"exit", "done"} => stop' # "no")
<1>0. TypeOK /\ TransferInv
  BY DEF CrashInv, TransferInv
<1>1. CASE Accepting \/ Buttons
  BY <1>1, HistoryGrows DEF Accepting, AcceptNothing, AcceptError, Refuse, Accept,
       Buttons, Leave, GotoSlots, vars, CrashInv, CrashCause
<1>2. ASSUME NEW i \in Slots, Control(i)
      PROVE  CrashCause' /\ (pc' \in {"exit", "done"} => stop' # "no")
  <2>1. pc' \in {pc, "slots", "buttons"} /\ pc = "slots"
        /\ stop' = stop /\ clobbered' = clobbered
    BY <1>2 DEF Control, SkipSlot, ControlIdle, ControlClose, PASS, REIN, PASV,
         PORT, LIST, RETR, STOR, VisitControl, Answered, OpenFailed,
         PrepareDataConnection, PreparePassive, PrepareActive, PrepareLost,
         PrepareFailed, NextSlot
  <2>. QED BY <2>1, HistoryGrows
<1>3. ASSUME NEW i \in Slots, Data(i)
      PROVE  CrashCause' /\ (pc' \in {"exit", "done"} => stop' # "no")
  <2>1. CASE TransferOverRunning(i)
    <3>1. Serving /\ ~UnderWay(conn[i]) /\ Running(i)
      BY <2>1 DEF TransferOverRunning, FirstCall, Connected, VisitData, Serving, UnderWay
    <3>2. i \in clobbered
      BY <1>0, <3>1, NoThread
    <3>. QED BY <2>1, <3>2 DEF TransferOverRunning, CrashCause
  <2>2. CASE ~TransferOverRunning(i)
    <3>1. pc' \in {"slots", "join", "buttons"}
          /\ stop' = stop /\ clobbered' = clobbered
      BY <1>3, <2>2 DEF Data, DataWait, DataConnect, DataFail, DataList, DataAccept,
           TransferStart, TransferNoThread, TransferPoll, TransferBlock, TransferJoin, Poll,
           FinishData, CloseData, Connecting, Connected, FirstCall, NextCall,
           VisitData, NextSlot
    <3>. QED BY <3>1, HistoryGrows
  <2>. QED BY <2>1, <2>2
<1>4. ASSUME NEW i \in Slots, ExitSlot(i)
      PROVE  CrashCause' /\ (pc' \in {"exit", "done"} => stop' # "no")
  BY <1>4, HistoryGrows DEF ExitSlot, CrashInv
<1>5. ASSUME NEW i \in Slots, Thread(i)
      PROVE  CrashCause' /\ (pc' \in {"exit", "done"} => stop' # "no")
  <2>1. CASE ThreadMove(i) \/ ThreadEnd(i)
    BY <2>1, HistoryGrows DEF ThreadMove, ThreadEnd, CrashInv
  <2>2. CASE ThreadFault(i)
    <3>1. CASE Serving
      <4>1. ~UnderWay(conn[i]) /\ Running(i)
        BY <2>2 DEF ThreadFault, UnderWay
      <4>2. i \in clobbered
        BY <1>0, <3>1, <4>1, NoThread
      <4>. QED BY <2>2, <4>2 DEF ThreadFault, CrashCause
    <3>2. CASE ~Serving
      <4>1. pc \in {"exit", "done"}
        BY <1>0, <2>2, <3>2 DEF ThreadFault, Serving, TypeOK
      <4>. QED BY <2>2, <4>1 DEF ThreadFault, CrashCause, CrashInv
    <3>. QED BY <3>1, <3>2
  <2>. QED BY <1>5, <2>1, <2>2 DEF Thread
<1>6. CASE Stopped
  BY <1>6, HistoryGrows DEF Stopped, vars, CrashInv
<1>. QED BY <1>1, <1>2, <1>3, <1>4, <1>5, <1>6 DEF Next

\* For any NB: the program goes down only after a slot was given away while
\* in use, or once the main loop was left (ftp.c: processConnections picks the
\* slot, cleanup_ftp joins no thread).
THEOREM OnlyKnownCrashes == Spec => []CrashCause
<1>1. Init => CrashInv
  <2>1. ASSUME Init PROVE CrashInv
    <3>1. CallbackContext /\ ThreadHoldsTransfer
      BY <2>1 DEF Init, CallbackContext, ThreadHoldsTransfer, FreshConnection, Running
    <3>. QED BY <2>1, <3>1, InitType DEF Init, CrashInv, CrashCause, TransferInv
  <2>. QED BY <2>1
<1>2. CrashInv /\ [Next]_vars => CrashInv'
  <2>1. ASSUME CrashInv, Next PROVE CrashInv'
    <3>1. TransferInv'
      BY <2>1, AcceptTransfer, ControlTransfer, DataTransfer, ThreadTransfer,
         OtherTransfer, NextType DEF Next, Accepting, CrashInv, TransferInv
    <3>. QED BY <2>1, <3>1, CrashStep DEF CrashInv
  <2>2. ASSUME CrashInv, UNCHANGED vars PROVE CrashInv'
    BY <2>2, OtherTransfer, NextType DEF CrashInv, CrashCause, TransferInv, vars
  <2>. QED BY <2>1, <2>2
<1>3. CrashInv => CrashCause
  BY DEF CrashInv
<1>. QED BY <1>1, <1>2, <1>3, PTL DEF Spec

-----------------------------------------------------------------------------
(***************************************************************************)
(* OSJoinThread finds the thread it waits for.                             *)
(***************************************************************************)

StartedHasThread == \A j \in Slots : conn[j].started => thread[j] # "none"

JoinInv == TypeOK /\ JoinContext /\ StartedHasThread

\* A step that starts no transfer and joins no thread.
LEMMA NothingStarted ==
  ASSUME StartedHasThread, thread' = thread,
         \A j \in Slots : conn'[j].started => conn[j].started
  PROVE  StartedHasThread'
BY DEF StartedHasThread

\* The slots that the helpers leave have no transfer started that had none.
LEMMA StartedOf ==
  /\ ~FreshConnection.started
  /\ \A fd : ~[FreshConnection EXCEPT !.sock = fd].started
  /\ \A c \in Connection : ~DataCleaned(c).started
  /\ \A c \in Connection : PassiveClosed(c).started = c.started
  /\ \A c \in Connection : \A cb, fd : Prepared(c, cb, fd).started = c.started
  /\ \A c \in Connection : \A fd : [c EXCEPT !.data = fd].started = c.started
BY DEF FreshConnection, DataCleaned, PassiveClosed, Prepared, Connection

LEMMA PrepareStarted ==
  ASSUME TypeOK, StartedHasThread, NEW i \in Slots, NEW c \in Connection,
         c.started = conn[i].started, NEW cb, PrepareDataConnection(i, c, cb)
  PROVE  StartedHasThread'
<1>1. \E d : conn' = [conn EXCEPT ![i] = d] /\ (d.started => conn[i].started)
  <2>1. CASE PreparePassive(i, c, cb)
    <3>1. Prepared(c, cb, c.passive).started = conn[i].started
      BY StartedOf
    <3>. QED BY <2>1, <3>1 DEF PreparePassive
  <2>2. CASE PrepareActive(i, c, cb)
    <3>1. PICK fd : conn' = [conn EXCEPT ![i] = Prepared(c, cb, fd)]
      BY <2>2 DEF PrepareActive
    <3>2. Prepared(c, cb, fd).started = conn[i].started
      BY StartedOf
    <3>. QED BY <3>1, <3>2
  <2>3. CASE PrepareLost(i, c)
    <3>1. PICK fd : conn' = [conn EXCEPT ![i] = [c EXCEPT !.data = fd]]
      BY <2>3 DEF PrepareLost
    <3>2. [c EXCEPT !.data = fd].started = conn[i].started
      BY StartedOf
    <3>. QED BY <3>1, <3>2
  <2>4. CASE PrepareFailed(i)
    BY <2>4, StartedOf DEF PrepareFailed, CleanupConnection
  <2>. QED BY <2>1, <2>2, <2>3, <2>4 DEF PrepareDataConnection
<1>2. thread' = thread
  BY DEF PrepareDataConnection
<1>3. \A j \in Slots : conn'[j].started => conn[j].started
  BY <1>1 DEF TypeOK
<1>. QED BY <1>2, <1>3, NothingStarted

LEMMA ControlStarted ==
  ASSUME TypeOK, StartedHasThread, NEW i \in Slots, Control(i)
  PROVE  StartedHasThread'
<1>0. conn[i] \in Connection
  BY DEF TypeOK
<1>1. CASE SkipSlot(i) \/ ControlIdle(i)
  BY <1>1, NothingStarted DEF SkipSlot, ControlIdle
<1>2. ASSUME NEW c, c.started => conn[i].started,
             conn' = [conn EXCEPT ![i] = c], thread' = thread
      PROVE  StartedHasThread'
  <2>1. \A j \in Slots : conn'[j].started => conn[j].started
    BY <1>2 DEF TypeOK
  <2>. QED BY <1>2, <2>1, NothingStarted
<1>3. CASE ControlClose(i)
  BY <1>2, <1>3, StartedOf DEF ControlClose, CleanupConnection
<1>4. CASE PASS(i) \/ REIN(i) \/ PORT(i)
  <2>1. /\ [conn[i] EXCEPT !.auth = TRUE].started = conn[i].started
        /\ [PassiveClosed(conn[i]) EXCEPT !.auth = FALSE].started = conn[i].started
        /\ PassiveClosed(conn[i]).started = conn[i].started
    BY <1>0 DEF Connection, PassiveClosed
  <2>. QED BY <1>2, <1>4, <2>1 DEF PASS, REIN, PORT, Answered
<1>5. CASE PASV(i)
  <2>1. PICK fd : Answered(i, [conn[i] EXCEPT !.passive = fd])
    BY <1>5 DEF PASV
  <2>2. [conn[i] EXCEPT !.passive = fd].started = conn[i].started
    BY <1>0 DEF Connection
  <2>. QED BY <1>2, <2>1, <2>2 DEF Answered
<1>6. CASE LIST(i)
  BY <1>0, <1>6, PrepareStarted DEF LIST
<1>7. ASSUME NEW f, NEW v, OpenFailed(i, f, v) PROVE StartedHasThread'
  <2>1. [conn[i] EXCEPT !.file = f, !.vol = v].started = conn[i].started
    BY <1>0 DEF Connection
  <2>. QED BY <1>2, <1>7, <2>1 DEF OpenFailed, Answered
<1>8. ASSUME NEW v \in {"null", "alloc"},
             PrepareDataConnection(i, [conn[i] EXCEPT !.file = "open", !.vol = v],
                                   "transfer")
      PROVE  StartedHasThread'
  <2>1. /\ [conn[i] EXCEPT !.file = "open", !.vol = v] \in Connection
        /\ [conn[i] EXCEPT !.file = "open", !.vol = v].started = conn[i].started
    BY <1>0 DEF Connection
  <2>. QED BY <1>8, <2>1, PrepareStarted
<1>9. CASE RETR(i) \/ STOR(i)
  BY <1>7, <1>8, <1>9 DEF RETR, STOR
<1>. QED BY <1>1, <1>3, <1>4, <1>5, <1>6, <1>9 DEF Control

LEMMA DataStarted ==
  ASSUME TypeOK, StartedHasThread, NEW i \in Slots, Data(i)
  PROVE  StartedHasThread'
<1>0. conn[i] \in Connection
  BY DEF TypeOK
<1>1. CASE \/ DataWait(i) \/ TransferPoll(i)
           \/ TransferOverRunning(i) \/ TransferBlock(i)
  BY <1>1, NothingStarted DEF DataWait, TransferPoll, Poll, TransferOverRunning,
     TransferBlock
<1>2. ASSUME FinishData(i) \/ (\E n : CloseData(i, n))
      PROVE  /\ \A j \in Slots : conn'[j].started => conn[j].started
             /\ ~conn'[i].started
  BY <1>0, <1>2, StartedOf DEF FinishData, CloseData, CleanupConnection, TypeOK
<1>3. CASE DataConnect(i) \/ DataFail(i) \/ DataList(i) \/ TransferNoThread(i)
  BY <1>2, <1>3, NothingStarted DEF DataConnect, DataFail, DataList, TransferNoThread
<1>4. CASE TransferJoin(i)
  <2>1. \A j \in Slots \ {i} : thread'[j] = thread[j]
    BY <1>4 DEF TransferJoin, TypeOK
  <2>. QED BY <1>2, <1>4, <2>1 DEF TransferJoin, StartedHasThread
<1>5. ASSUME NEW fd \in Fd, DataAccept(i, fd) PROVE StartedHasThread'
  <2>1. \A j \in Slots : conn'[j].started = conn[j].started
    BY <1>0, <1>5 DEF DataAccept, TypeOK, Connection
  <2>. QED BY <1>5, <2>1, NothingStarted DEF DataAccept
<1>6. CASE TransferStart(i)
  <2>1. \A j \in Slots \ {i} : conn'[j].started = conn[j].started /\ thread'[j] = thread[j]
    BY <1>6 DEF TransferStart, TypeOK
  <2>2. thread'[i] # "none"
    BY <1>6 DEF TransferStart, Direction, TypeOK
  <2>. QED BY <2>1, <2>2 DEF StartedHasThread
<1>. QED BY <1>1, <1>3, <1>4, <1>5, <1>6 DEF Data

\* The thread itself may set dataTransferOffset: it exists.
LEMMA ThreadStarted ==
  ASSUME TypeOK, StartedHasThread, NEW i \in Slots, Thread(i)
  PROVE  StartedHasThread'
<1>1. \A j \in Slots \ {i} : conn'[j].started = conn[j].started /\ thread'[j] = thread[j]
  BY DEF Thread, ThreadMove, ThreadEnd, ThreadFault, TypeOK
<1>2. thread'[i] # "none"
  BY DEF Thread, ThreadMove, ThreadEnd, ThreadFault, Running, TypeOK
<1>. QED BY <1>1, <1>2 DEF StartedHasThread

LEMMA OtherStarted ==
  ASSUME TypeOK, StartedHasThread,
         \/ Accepting \/ Buttons \/ Stopped
         \/ (\E i \in Slots : ExitSlot(i)) \/ UNCHANGED vars
  PROVE  StartedHasThread'
<1>1. ASSUME NEW a, NEW fd, Accept(a, fd) PROVE StartedHasThread'
  <2>1. NewSlot \in Slots
    BY <1>1, NBAssumption DEF Accept, ServerFull, NewSlot, Slots, TypeOK
  <2>2. PICK d : conn' = [conn EXCEPT ![NewSlot] = d] /\ ~d.started
    <3>1. ~[FreshConnection EXCEPT !.sock = fd].started
      BY StartedOf
    <3>. QED BY <1>1, <3>1, StartedOf DEF Accept
  <2>3. \A j \in Slots : conn'[j].started => conn[j].started
    BY <2>1, <2>2 DEF TypeOK
  <2>. QED BY <1>1, <2>3, NothingStarted DEF Accept
<1>2. ASSUME NEW i \in Slots, ExitSlot(i) PROVE StartedHasThread'
  <2>1. \A j \in Slots : conn'[j].started => conn[j].started
    BY <1>2, StartedOf DEF ExitSlot, CleanupConnection, TypeOK
  <2>. QED BY <1>2, <2>1, NothingStarted DEF ExitSlot
<1>3. CASE conn' = conn /\ thread' = thread
  BY <1>3, NothingStarted
<1>4. CASE Accepting
  BY <1>1, <1>3, <1>4 DEF Accepting, AcceptNothing, AcceptError, Refuse, vars
<1>5. CASE Buttons \/ Stopped \/ UNCHANGED vars
  BY <1>3, <1>5 DEF Buttons, Stopped, vars
<1>. QED BY <1>2, <1>4, <1>5

\* For any NB: transfer() joins only a thread that it created, on a slot whose
\* session is still there (ftp.c: transfer, cleanup_data_resources).
THEOREM JoinsItsThread == Spec => []JoinHasThread
<1>1. Init => JoinInv
  BY InitType DEF Init, JoinInv, JoinContext, StartedHasThread, FreshConnection
<1>2. JoinInv /\ [Next]_vars => JoinInv'
  <2>1. ASSUME JoinInv, Next PROVE StartedHasThread'
    BY <2>1, ControlStarted, DataStarted, ThreadStarted, OtherStarted DEF Next, JoinInv
  <2>2. ASSUME JoinInv, UNCHANGED vars PROVE StartedHasThread'
    BY <2>2, OtherStarted DEF JoinInv
  <2>. QED BY <2>1, <2>2, NextType, JoinStep DEF JoinInv
<1>3. JoinInv => JoinHasThread
  BY DEF JoinInv, JoinContext, StartedHasThread, JoinHasThread, TypeOK
<1>. QED BY <1>1, <1>2, <1>3, PTL DEF Spec

-----------------------------------------------------------------------------
(***************************************************************************)
(* Descriptors: who holds one, and that none is lost.                      *)
(***************************************************************************)

HeldBy(c) == {c.sock, c.passive, c.data} \ {NoFd}

\* The fields of one slot: a data socket only for a callback, the listening
\* one until somebody connects, and nothing in a slot without a session.
SlotSockets(c) ==
  /\ c.sock # NoFd => c.sock \notin {c.passive, c.data}
  /\ c.cb = "none" => c.data = NoFd
  /\ c.cb # "none" /\ ~c.connected /\ c.passive # NoFd => c.data = c.passive
  /\ c.sock = NoFd => c.passive = NoFd /\ c.data = NoFd

OwnInv ==
  ~staleClose =>
    /\ \A j \in Slots : Held(j) \subseteq fds /\ SlotSockets(conn[j])
    /\ \A j, k \in Slots : j # k => Held(j) \cap Held(k) = {}

SocketInv == TypeOK /\ OwnInv /\ NoDescriptorLeak

\* A step that gives slot i the fields of c, closes the descriptors X of the
\* slot and opens the new ones O.
LEMMA SlotStep ==
  ASSUME SocketInv, ~staleClose, NEW i \in Slots, NEW c,
         conn' = [conn EXCEPT ![i] = c], SlotSockets(c),
         NEW X, NEW O, X \subseteq Held(i), O \cap (fds \ X) = {},
         fds' = (fds \ X) \cup O,
         HeldBy(c) \subseteq (Held(i) \ X) \cup O,
         clobbered' = {} => clobbered = {} /\ (Held(i) \ X) \cup O \subseteq HeldBy(c)
  PROVE  OwnInv' /\ NoDescriptorLeak'
<1>1. /\ \A j \in Slots : Held(j) \subseteq fds /\ SlotSockets(conn[j])
      /\ \A j, k \in Slots : j # k => Held(j) \cap Held(k) = {}
  BY DEF SocketInv, OwnInv
<1>2. conn'[i] = c /\ \A j \in Slots : j # i => conn'[j] = conn[j]
  BY DEF SocketInv, TypeOK
<1>3. Held(i)' = HeldBy(c) /\ \A j \in Slots : j # i => Held(j)' = Held(j)
  BY <1>2 DEF Held, HeldBy
<1>4. \A j \in Slots : j # i => Held(j) \subseteq fds \ X
  BY <1>1
<1>5. \A j \in Slots : Held(j)' \subseteq fds'
  BY <1>1, <1>3, <1>4
<1>6. \A j \in Slots : j # i => Held(i)' \cap Held(j)' = {}
  BY <1>1, <1>3, <1>4
<1>7. \A j, k \in Slots : j # k => Held(j)' \cap Held(k)' = {}
  BY <1>1, <1>3, <1>6
<1>8. \A j \in Slots : SlotSockets(conn'[j])
  BY <1>1, <1>2
<1>9. OwnInv'
  BY <1>5, <1>7, <1>8 DEF OwnInv
<1>10. ASSUME clobbered' = {}, NEW fd \in fds'
       PROVE  \E j \in Slots : fd \in Held(j)'
  <2>1. clobbered = {} /\ (Held(i) \ X) \cup O \subseteq HeldBy(c)
    BY <1>10
  <2>2. CASE fd \in O
    BY <2>1, <2>2, <1>3
  <2>3. CASE fd \in fds /\ fd \notin X
    <3>1. PICK j \in Slots : fd \in Held(j)
      BY <2>1, <2>3 DEF SocketInv, NoDescriptorLeak
    <3> QED
      BY <3>1, <2>1, <2>3, <1>3
  <2> QED
    BY <2>2, <2>3
<1>11. NoDescriptorLeak'
  <2> SUFFICES ASSUME clobbered' = {}
               PROVE  fds' \subseteq UNION {Held(j)' : j \in Slots}
    BY DEF NoDescriptorLeak
  <2> QED
    BY <1>10
<1> QED
  BY <1>9, <1>11

\* A step that changes no socket and no callback.
LEMMA SameSockets ==
  ASSUME SocketInv, fds' = fds, clobbered' = clobbered, staleClose' = staleClose,
         \A j \in Slots :
           /\ conn'[j].sock = conn[j].sock /\ conn'[j].passive = conn[j].passive
           /\ conn'[j].data = conn[j].data /\ conn'[j].cb = conn[j].cb
           /\ conn'[j].connected = conn[j].connected
  PROVE  OwnInv' /\ NoDescriptorLeak'
<1>1. \A j \in Slots : Held(j)' = Held(j) /\ (SlotSockets(conn[j]) => SlotSockets(conn'[j]))
  BY DEF Held, SlotSockets
<1>2. OwnInv'
  BY <1>1 DEF SocketInv, OwnInv
<1>3. NoDescriptorLeak'
  BY <1>1 DEF SocketInv, NoDescriptorLeak
<1> QED
  BY <1>2, <1>3

\* Nothing is claimed once a stale descriptor was left in data_socket.
LEMMA StaleStep ==
  ASSUME staleClose'
  PROVE  OwnInv' /\ NoDescriptorLeak'
BY DEF OwnInv, NoDescriptorLeak

LEMMA CleanupSockets ==
  ASSUME SocketInv, ~staleClose, NEW i \in Slots, NEW n, CleanupConnection(i, n),
         clobbered' = clobbered
  PROVE  OwnInv' /\ NoDescriptorLeak'
<1>1. SlotSockets(FreshConnection) /\ HeldBy(FreshConnection) = {}
  BY DEF SlotSockets, HeldBy, FreshConnection
<1>2. NoFd \notin fds
  BY FdAssumption DEF SocketInv, TypeOK
<1>3. fds' = (fds \ Held(i)) \cup {}
  BY <1>2 DEF CleanupConnection, Held
<1>4. conn' = [conn EXCEPT ![i] = FreshConnection]
  BY DEF CleanupConnection
<1> QED
  BY <1>1, <1>3, <1>4, SlotStep

LEMMA AcceptSockets ==
  ASSUME SocketInv, ~staleClose, NEW a \in Client, NEW fd \in Fd, Accept(a, fd)
  PROVE  OwnInv' /\ NoDescriptorLeak'
<1>1. NewSlot \in Slots /\ fd \notin fds /\ fd # NoFd
  BY NBAssumption, FdAssumption DEF Accept, ServerFull, NewSlot, Slots, SocketInv, TypeOK
<1>2. clobbered' = IF conn[NewSlot].sock # NoFd THEN clobbered \cup {NewSlot} ELSE clobbered
  BY DEF Accept
<1>3. clobbered' = {} => clobbered = {} /\ Held(NewSlot) = {}
  <2>1. clobbered' = {} => clobbered = {} /\ conn[NewSlot].sock = NoFd
    BY <1>2
  <2>2. SlotSockets(conn[NewSlot])
    BY <1>1 DEF SocketInv, OwnInv
  <2> QED
    BY <2>1, <2>2 DEF SlotSockets, Held
<1>4. CASE /\ conn' = [conn EXCEPT ![NewSlot] = [FreshConnection EXCEPT !.sock = fd]]
           /\ fds' = fds \cup {fd}
  <2> DEFINE c == [FreshConnection EXCEPT !.sock = fd]
  <2>1. SlotSockets(c) /\ HeldBy(c) = {fd}
    BY <1>1 DEF SlotSockets, HeldBy, FreshConnection
  <2> HIDE DEF c
  <2>2. conn' = [conn EXCEPT ![NewSlot] = c]
    BY <1>4 DEF c
  <2>3. fds' = (fds \ {}) \cup {fd} /\ {fd} \cap (fds \ {}) = {}
    BY <1>1, <1>4
  <2>4. HeldBy(c) \subseteq (Held(NewSlot) \ {}) \cup {fd}
        /\ (clobbered' = {} => clobbered = {} /\ (Held(NewSlot) \ {}) \cup {fd} \subseteq HeldBy(c))
    BY <1>3, <2>1
  <2>5. {} \subseteq Held(NewSlot)
    OBVIOUS
  <2> QED
    BY <1>1, <2>1, <2>2, <2>3, <2>4, <2>5, SlotStep
<1>5. CASE conn' = [conn EXCEPT ![NewSlot] = FreshConnection] /\ fds' = fds
  <2>1. SlotSockets(FreshConnection) /\ HeldBy(FreshConnection) = {}
    BY DEF SlotSockets, HeldBy, FreshConnection
  <2>2. fds' = (fds \ {}) \cup {} /\ {} \cap (fds \ {}) = {} /\ {} \subseteq Held(NewSlot)
    BY <1>5
  <2>3. clobbered' = {} => clobbered = {} /\ (Held(NewSlot) \ {}) \cup {} \subseteq {}
    BY <1>3
  <2> QED
    BY <1>1, <1>5, <2>1, <2>2, <2>3, SlotStep
<1> QED
  BY <1>4, <1>5 DEF Accept

\* PASS, REIN, PASV, PORT and commands that open no data connection: the
\* passive socket becomes p.
LEMMA PassiveSockets ==
  ASSUME SocketInv, ~staleClose, NEW i \in Slots, NEW c,
         conn[i].sock # NoFd, conn[i].cb = "none",
         conn' = [conn EXCEPT ![i] = c], c.sock = conn[i].sock, c.data = conn[i].data,
         c.cb = "none", clobbered' = clobbered,
         \/ c.passive = conn[i].passive /\ fds' = fds
         \/ c.passive = NoFd /\ fds' = fds \ {conn[i].passive}
         \/ /\ c.passive \in Fd \ (fds \ {conn[i].passive})
            /\ fds' = (fds \ {conn[i].passive}) \cup {c.passive}
  PROVE  OwnInv' /\ NoDescriptorLeak'
<1>1. SlotSockets(conn[i]) /\ Held(i) \subseteq fds
  BY DEF SocketInv, OwnInv
<1>2. conn[i].data = NoFd /\ c.data = NoFd /\ conn[i].sock # conn[i].passive
      /\ conn[i].sock \in fds
  BY <1>1 DEF SlotSockets, Held
<1>3. NoFd \notin fds
  BY FdAssumption DEF SocketInv, TypeOK
<1>4. Held(i) = {conn[i].sock, conn[i].passive} \ {NoFd} /\ HeldBy(c) = {c.sock, c.passive} \ {NoFd}
  BY <1>2 DEF Held, HeldBy
<1>5. CASE c.passive = conn[i].passive /\ fds' = fds
  <2>1. SlotSockets(c)
    BY <1>2, <1>5 DEF SlotSockets
  <2>2. HeldBy(c) = Held(i) /\ fds' = (fds \ {}) \cup {} /\ {} \cap (fds \ {}) = {}
    BY <1>4, <1>5
  <2>3. HeldBy(c) \subseteq (Held(i) \ {}) \cup {} /\ (Held(i) \ {}) \cup {} \subseteq HeldBy(c)
        /\ {} \subseteq Held(i)
    BY <2>2
  <2> QED
    BY <2>1, <2>2, <2>3, SlotStep
<1> DEFINE X == {conn[i].passive} \ {NoFd}
<1>6. X \subseteq Held(i) /\ fds \ {conn[i].passive} = fds \ X
  BY <1>3, <1>4
<1>7. CASE c.passive = NoFd /\ fds' = fds \ {conn[i].passive}
  <2>1. SlotSockets(c)
    BY <1>2, <1>7 DEF SlotSockets
  <2>2. HeldBy(c) = Held(i) \ X
    BY <1>2, <1>4, <1>7
  <2>3. fds' = (fds \ X) \cup {} /\ {} \cap (fds \ X) = {}
    BY <1>6, <1>7
  <2>4. HeldBy(c) \subseteq (Held(i) \ X) \cup {} /\ (Held(i) \ X) \cup {} \subseteq HeldBy(c)
    BY <2>2
  <2> HIDE DEF X
  <2> QED
    BY <1>6, <2>1, <2>3, <2>4, SlotStep
<1>8. CASE /\ c.passive \in Fd \ (fds \ {conn[i].passive})
           /\ fds' = (fds \ {conn[i].passive}) \cup {c.passive}
  <2>1. c.passive # NoFd /\ c.passive # c.sock
    BY <1>2, <1>8, FdAssumption
  <2>2. SlotSockets(c)
    BY <1>2, <2>1 DEF SlotSockets
  <2>3. HeldBy(c) = (Held(i) \ X) \cup {c.passive}
    BY <1>2, <1>4, <2>1
  <2>4. fds' = (fds \ X) \cup {c.passive} /\ {c.passive} \cap (fds \ X) = {}
    BY <1>6, <1>8
  <2>5. HeldBy(c) \subseteq (Held(i) \ X) \cup {c.passive}
        /\ (Held(i) \ X) \cup {c.passive} \subseteq HeldBy(c)
    BY <2>3
  <2> HIDE DEF X
  <2> QED
    BY <1>6, <2>2, <2>4, <2>5, SlotStep
<1> QED
  BY <1>5, <1>7, <1>8

\* prepare_data_connection: c has the sockets of the slot, and no data socket.
LEMMA PrepareSockets ==
  ASSUME SocketInv, ~staleClose, NEW i \in Slots, NEW c, NEW cb \in {"list", "transfer"},
         conn[i].sock # NoFd, conn[i].cb = "none", c \in Connection,
         c.sock = conn[i].sock, c.passive = conn[i].passive, c.data = conn[i].data,
         c.cb = "none", PrepareDataConnection(i, c, cb)
  PROVE  OwnInv' /\ NoDescriptorLeak'
<1>0. clobbered' = clobbered
  BY DEF PrepareDataConnection
<1>1. SlotSockets(conn[i]) /\ Held(i) \subseteq fds
  BY DEF SocketInv, OwnInv
<1>2. conn[i].data = NoFd /\ c.data = NoFd /\ conn[i].sock # conn[i].passive
      /\ conn[i].sock \in fds
  BY <1>1 DEF SlotSockets, Held
<1>3. Held(i) = {conn[i].sock, conn[i].passive} \ {NoFd}
  BY <1>2 DEF Held
<1>4. ASSUME NEW d
      PROVE  LET p == Prepared(c, cb, d) IN
             p.sock = c.sock /\ p.passive = c.passive /\ p.data = d /\ p.cb = cb /\ ~p.connected
  BY DEF Prepared, Connection
<1>5. CASE PreparePassive(i, c, cb)
  <2> DEFINE p == Prepared(c, cb, c.passive)
  <2>1. conn' = [conn EXCEPT ![i] = p] /\ fds' = (fds \ {}) \cup {} /\ c.passive # NoFd
    BY <1>5 DEF PreparePassive
  <2>2. SlotSockets(p) /\ HeldBy(p) = Held(i)
    BY <1>2, <1>3, <1>4, <2>1 DEF SlotSockets, HeldBy
  <2> HIDE DEF p
  <2>3. HeldBy(p) \subseteq (Held(i) \ {}) \cup {} /\ (Held(i) \ {}) \cup {} \subseteq HeldBy(p)
        /\ {} \subseteq Held(i) /\ {} \cap (fds \ {}) = {}
    BY <2>2
  <2> QED
    BY <1>0, <2>1, <2>2, <2>3, SlotStep
<1>6. CASE PrepareActive(i, c, cb)
  <2>1. PICK fd \in (Fd \ fds) \cup {NoFd} :
          /\ conn' = [conn EXCEPT ![i] = Prepared(c, cb, fd)]
          /\ \/ fds' = (fds \cup {fd}) \ {NoFd} /\ UNCHANGED staleClose
             \/ fd # NoFd /\ staleClose' = TRUE /\ UNCHANGED fds
    BY <1>6 DEF PrepareActive
  <2>2. CASE staleClose'
    BY <2>2, StaleStep
  <2>3. CASE ~staleClose'
    <3> DEFINE p == Prepared(c, cb, fd)
               O == {fd} \ {NoFd}
    <3>1. conn' = [conn EXCEPT ![i] = p] /\ c.passive = NoFd
      BY <2>1, <1>6 DEF PrepareActive
    <3>2. NoFd \notin fds /\ fds' = (fds \cup {fd}) \ {NoFd}
      BY <2>1, <2>3, FdAssumption DEF SocketInv, TypeOK
    <3>3. fds' = (fds \ {}) \cup O /\ O \cap (fds \ {}) = {}
      BY <2>1, <3>2
    <3>4. fd # c.sock
      BY <1>2, <2>1
    <3>5. SlotSockets(p) /\ HeldBy(p) = Held(i) \cup O
      BY <1>2, <1>3, <1>4, <3>1, <3>4 DEF SlotSockets, HeldBy
    <3> HIDE DEF p, O
    <3>6. HeldBy(p) \subseteq (Held(i) \ {}) \cup O /\ (Held(i) \ {}) \cup O \subseteq HeldBy(p)
          /\ {} \subseteq Held(i)
      BY <3>5
    <3> QED
      BY <1>0, <3>1, <3>3, <3>5, <3>6, SlotStep
  <2> QED
    BY <2>2, <2>3
<1>7. CASE PrepareLost(i, c)
  <2>1. PICK fd \in (Fd \ fds) \cup {NoFd} :
          /\ conn' = [conn EXCEPT ![i] = [c EXCEPT !.data = fd]]
          /\ staleClose' = (staleClose \/ fd # NoFd)
    BY <1>7 DEF PrepareLost
  <2>2. CASE staleClose'
    BY <2>2, StaleStep
  <2>3. CASE ~staleClose'
    <3> DEFINE p == [c EXCEPT !.data = fd]
    <3>1. fd = NoFd
      BY <2>1, <2>3
    <3>2. p.sock = c.sock /\ p.passive = c.passive /\ p.data = NoFd /\ p.cb = "none"
      BY <3>1 DEF Connection
    <3>3. conn' = [conn EXCEPT ![i] = p]
      BY <2>1
    <3> HIDE DEF p
    <3>4. fds' = fds
      BY <1>7 DEF PrepareLost
    <3> QED
      BY <1>0, <1>2, <3>2, <3>3, <3>4, PassiveSockets
  <2> QED
    BY <2>2, <2>3
<1>8. CASE PrepareFailed(i)
  BY <1>0, <1>8, CleanupSockets DEF PrepareFailed
<1> QED
  BY <1>5, <1>6, <1>7, <1>8 DEF PrepareDataConnection

LEMMA ControlSockets ==
  ASSUME SocketInv, ~staleClose, NEW i \in Slots, Control(i)
  PROVE  OwnInv' /\ NoDescriptorLeak'
<1>0. conn[i] \in Connection /\ conn \in [Slots -> Connection]
  BY DEF SocketInv, TypeOK
<1>1. CASE SkipSlot(i) \/ ControlIdle(i)
  <2>1. conn' = conn /\ fds' = fds /\ clobbered' = clobbered /\ staleClose' = staleClose
    BY <1>1 DEF SkipSlot, ControlIdle
  <2> QED
    BY <2>1, SameSockets
<1>2. CASE ControlClose(i)
  BY <1>2, CleanupSockets DEF ControlClose
<1>3. ASSUME VisitControl(i), NEW c, Answered(i, c), c.sock = conn[i].sock,
             c.data = conn[i].data, c.cb = conn[i].cb,
             \/ c.passive = conn[i].passive /\ fds' = fds
             \/ c.passive = NoFd /\ fds' = fds \ {conn[i].passive}
             \/ /\ c.passive \in Fd \ (fds \ {conn[i].passive})
                /\ fds' = (fds \ {conn[i].passive}) \cup {c.passive}
      PROVE  OwnInv' /\ NoDescriptorLeak'
  <2>1. /\ conn[i].sock # NoFd /\ conn[i].cb = "none" /\ clobbered' = clobbered
        /\ conn' = [conn EXCEPT ![i] = c]
    BY <1>3 DEF VisitControl, Answered
  <2> QED
    BY <1>3, <2>1, PassiveSockets
<1>4. CASE PASS(i)
  <2> DEFINE c == [conn[i] EXCEPT !.auth = TRUE]
  <2>1. /\ c.sock = conn[i].sock /\ c.passive = conn[i].passive
        /\ c.data = conn[i].data /\ c.cb = conn[i].cb
    BY <1>0 DEF Connection
  <2>2. VisitControl(i) /\ Answered(i, c) /\ fds' = fds
    BY <1>4 DEF PASS
  <2> HIDE DEF c
  <2> QED
    BY <1>3, <2>1, <2>2
<1>5. CASE REIN(i)
  <2> DEFINE c == [PassiveClosed(conn[i]) EXCEPT !.auth = FALSE]
  <2>1. /\ c.sock = conn[i].sock /\ c.passive = NoFd
        /\ c.data = conn[i].data /\ c.cb = conn[i].cb
    BY <1>0 DEF Connection, PassiveClosed
  <2>2. VisitControl(i) /\ Answered(i, c) /\ fds' = fds \ {conn[i].passive}
    BY <1>5 DEF REIN
  <2> HIDE DEF c
  <2> QED
    BY <1>3, <2>1, <2>2
<1>6. CASE PASV(i)
  <2>1. PICK fd \in (Fd \ (fds \ {conn[i].passive})) \cup {NoFd} :
          /\ Answered(i, [conn[i] EXCEPT !.passive = fd])
          /\ fds' = ((fds \ {conn[i].passive}) \cup {fd}) \ {NoFd}
    BY <1>6 DEF PASV
  <2> DEFINE c == [conn[i] EXCEPT !.passive = fd]
  <2>2. /\ c.sock = conn[i].sock /\ c.passive = fd
        /\ c.data = conn[i].data /\ c.cb = conn[i].cb
    BY <1>0 DEF Connection
  <2>3. NoFd \notin fds
    BY FdAssumption DEF SocketInv, TypeOK
  <2>4. \/ fd = NoFd /\ fds' = fds \ {conn[i].passive}
        \/ /\ fd \in Fd \ (fds \ {conn[i].passive})
           /\ fds' = (fds \ {conn[i].passive}) \cup {fd}
    BY <2>1, <2>3, FdAssumption
  <2>5. VisitControl(i) /\ Answered(i, c)
    BY <1>6, <2>1 DEF PASV
  <2> HIDE DEF c
  <2> QED
    BY <1>3, <2>2, <2>4, <2>5
<1>7. CASE PORT(i)
  <2> DEFINE c == PassiveClosed(conn[i])
  <2>1. /\ c.sock = conn[i].sock /\ c.passive = NoFd
        /\ c.data = conn[i].data /\ c.cb = conn[i].cb
    BY <1>0 DEF Connection, PassiveClosed
  <2>2. VisitControl(i) /\ Answered(i, c) /\ fds' = fds \ {conn[i].passive}
    BY <1>7 DEF PORT
  <2> HIDE DEF c
  <2> QED
    BY <1>3, <2>1, <2>2
<1>8. ASSUME VisitControl(i), NEW c \in Connection, NEW cb \in {"list", "transfer"},
             PrepareDataConnection(i, c, cb), c.sock = conn[i].sock,
             c.passive = conn[i].passive, c.data = conn[i].data, c.cb = conn[i].cb
      PROVE  OwnInv' /\ NoDescriptorLeak'
  <2>1. conn[i].sock # NoFd /\ conn[i].cb = "none"
    BY <1>8 DEF VisitControl
  <2> QED
    BY <1>8, <2>1, PrepareSockets
<1>9. CASE LIST(i)
  BY <1>0, <1>8, <1>9 DEF LIST
<1>10. ASSUME VisitControl(i), NEW f \in {"null", "closed"}, NEW v, OpenFailed(i, f, v)
       PROVE  OwnInv' /\ NoDescriptorLeak'
  <2> DEFINE c == [conn[i] EXCEPT !.file = f, !.vol = v]
  <2>1. /\ c.sock = conn[i].sock /\ c.passive = conn[i].passive
        /\ c.data = conn[i].data /\ c.cb = conn[i].cb
    BY <1>0 DEF Connection
  <2>2. Answered(i, c) /\ fds' = fds
    BY <1>10 DEF OpenFailed
  <2> HIDE DEF c
  <2> QED
    BY <1>3, <1>10, <2>1, <2>2
<1>11. ASSUME VisitControl(i), NEW v \in {"null", "alloc"},
              PrepareDataConnection(i, [conn[i] EXCEPT !.file = "open", !.vol = v], "transfer")
       PROVE  OwnInv' /\ NoDescriptorLeak'
  <2> DEFINE c == [conn[i] EXCEPT !.file = "open", !.vol = v]
  <2>1. /\ c.sock = conn[i].sock /\ c.passive = conn[i].passive
        /\ c.data = conn[i].data /\ c.cb = conn[i].cb /\ c \in Connection
    BY <1>0 DEF Connection
  <2>2. PrepareDataConnection(i, c, "transfer")
    BY <1>11
  <2> HIDE DEF c
  <2> QED
    BY <1>8, <1>11, <2>1, <2>2
<1>12. CASE RETR(i)
  BY <1>10, <1>11, <1>12 DEF RETR
<1>13. CASE STOR(i)
  BY <1>10, <1>11, <1>13 DEF STOR
<1> QED
  BY <1>1, <1>2, <1>4, <1>5, <1>6, <1>7, <1>9, <1>12, <1>13 DEF Control

\* cleanup_data_resources closes the data socket, not the listening one.
LEMMA FinishSockets ==
  ASSUME SocketInv, ~staleClose, NEW i \in Slots, FinishData(i)
  PROVE  OwnInv' /\ NoDescriptorLeak'
<1>0. conn[i] \in Connection
  BY DEF SocketInv, TypeOK
<1>1. SlotSockets(conn[i]) /\ NoFd \notin fds
  BY FdAssumption DEF SocketInv, OwnInv, TypeOK
<1> DEFINE c == DataCleaned(conn[i])
           X == ({conn[i].data} \ {conn[i].passive}) \ {NoFd}
<1>2. c.sock = conn[i].sock /\ c.passive = conn[i].passive /\ c.data = NoFd /\ c.cb = "none"
  BY <1>0 DEF DataCleaned, Connection
<1>3. conn' = [conn EXCEPT ![i] = c] /\ clobbered' = clobbered
  BY DEF FinishData
<1>4. fds' = (fds \ X) \cup {} /\ {} \cap (fds \ X) = {} /\ X \subseteq Held(i)
  BY <1>1 DEF FinishData, DataFds, Held
<1> HIDE DEF c
<1>5. SlotSockets(c)
  BY <1>1, <1>2 DEF SlotSockets
<1>6. HeldBy(c) = Held(i) \ X
  <2>1. conn[i].sock # NoFd => conn[i].sock # conn[i].data
    BY <1>1 DEF SlotSockets
  <2> QED
    BY <1>2, <2>1 DEF HeldBy, Held
<1> HIDE DEF X
<1>7. HeldBy(c) \subseteq (Held(i) \ X) \cup {} /\ (Held(i) \ X) \cup {} \subseteq HeldBy(c)
  BY <1>6
<1> QED
  BY <1>3, <1>4, <1>5, <1>7, SlotStep

LEMMA DataSockets ==
  ASSUME SocketInv, ~staleClose, NEW i \in Slots, Data(i)
  PROVE  OwnInv' /\ NoDescriptorLeak'
<1>0. conn[i] \in Connection /\ conn \in [Slots -> Connection]
  BY DEF SocketInv, TypeOK
<1>1. ASSUME NEW n, CloseData(i, n) PROVE OwnInv' /\ NoDescriptorLeak'
  BY <1>1, CleanupSockets DEF CloseData
<1>2. CASE conn' = conn /\ fds' = fds /\ clobbered' = clobbered /\ staleClose' = staleClose
  BY <1>2, SameSockets
<1>3. CASE DataWait(i) \/ TransferPoll(i) \/ TransferOverRunning(i) \/ TransferBlock(i)
  BY <1>2, <1>3 DEF DataWait, TransferPoll, TransferOverRunning, TransferBlock, Poll
<1>4. CASE DataConnect(i) \/ DataFail(i) \/ DataList(i) \/ TransferNoThread(i) \/ TransferJoin(i)
  BY <1>1, <1>4, FinishSockets
  DEF DataConnect, DataFail, DataList, TransferNoThread, TransferJoin
<1>5. CASE TransferStart(i)
  <2>1. conn' = [conn EXCEPT ![i].started = TRUE] /\ fds' = fds
        /\ clobbered' = clobbered /\ staleClose' = staleClose
    BY <1>5 DEF TransferStart
  <2>2. \A j \in Slots :
          /\ conn'[j].sock = conn[j].sock /\ conn'[j].passive = conn[j].passive
          /\ conn'[j].data = conn[j].data /\ conn'[j].cb = conn[j].cb
          /\ conn'[j].connected = conn[j].connected
    BY <1>0, <2>1 DEF Connection
  <2> QED
    BY <2>1, <2>2, SameSockets
<1>6. ASSUME NEW fd \in Fd, DataAccept(i, fd) PROVE OwnInv' /\ NoDescriptorLeak'
  <2> DEFINE c == [conn[i] EXCEPT !.data = fd, !.connected = TRUE]
  <2>1. /\ conn' = [conn EXCEPT ![i] = c] /\ clobbered' = clobbered
        /\ fd \notin fds /\ fds' = (fds \ {}) \cup {fd}
    BY <1>0, <1>6 DEF DataAccept
  <2>2. /\ c.sock = conn[i].sock /\ c.passive = conn[i].passive /\ c.data = fd
        /\ c.cb = conn[i].cb /\ c.connected
    BY <1>0 DEF Connection
  <2> HIDE DEF c
  <2>3. /\ conn[i].sock # NoFd /\ conn[i].cb # "none" /\ conn[i].passive # NoFd
        /\ ~conn[i].connected
    BY <1>6 DEF DataAccept, Connecting, VisitData
  <2>4. SlotSockets(conn[i]) /\ Held(i) \subseteq fds /\ fd # NoFd
    BY FdAssumption DEF SocketInv, OwnInv
  <2>5. conn[i].data = conn[i].passive /\ fd # conn[i].sock /\ conn[i].sock # conn[i].passive
    BY <2>1, <2>3, <2>4 DEF SlotSockets, Held
  <2>6. SlotSockets(c)
    BY <2>2, <2>3, <2>4, <2>5 DEF SlotSockets
  <2>7. HeldBy(c) = Held(i) \cup {fd}
    BY <2>2, <2>4, <2>5 DEF HeldBy, Held
  <2>8. HeldBy(c) \subseteq (Held(i) \ {}) \cup {fd} /\ (Held(i) \ {}) \cup {fd} \subseteq HeldBy(c)
        /\ {} \subseteq Held(i) /\ {fd} \cap (fds \ {}) = {}
    BY <2>1, <2>7
  <2> QED
    BY <2>1, <2>6, <2>8, SlotStep
<1> QED
  BY <1>3, <1>4, <1>5, <1>6 DEF Data

LEMMA ThreadSockets ==
  ASSUME SocketInv, NEW i \in Slots, Thread(i)
  PROVE  OwnInv' /\ NoDescriptorLeak'
<1>0. conn \in [Slots -> Connection]
  BY DEF SocketInv, TypeOK
<1>1. fds' = fds /\ clobbered' = clobbered /\ staleClose' = staleClose
  BY DEF Thread, ThreadMove, ThreadEnd, ThreadFault
<1>2. \A j \in Slots :
        /\ conn'[j].sock = conn[j].sock /\ conn'[j].passive = conn[j].passive
        /\ conn'[j].data = conn[j].data /\ conn'[j].cb = conn[j].cb
        /\ conn'[j].connected = conn[j].connected
  <2>1. CASE ThreadMove(i)
    BY <1>0, <2>1 DEF ThreadMove, Connection
  <2>2. CASE ThreadEnd(i)
    BY <1>0, <2>2 DEF ThreadEnd, Connection
  <2>3. CASE ThreadFault(i)
    BY <2>3 DEF ThreadFault
  <2> QED
    BY <2>1, <2>2, <2>3 DEF Thread
<1> QED
  BY <1>1, <1>2, SameSockets

\* Once a field was left with a closed descriptor this stays on record.
LEMMA StaleStays == staleClose /\ [Next]_vars /\ TypeOK => staleClose'
<1> SUFFICES ASSUME staleClose, [Next]_vars, TypeOK PROVE staleClose'
  OBVIOUS
<1>1. CASE Accepting \/ Buttons \/ Stopped \/ UNCHANGED vars
  BY <1>1 DEF Accepting, AcceptNothing, AcceptError, Refuse, Accept, Buttons, Stopped, vars
<1>2. ASSUME NEW i \in Slots, Control(i) PROVE staleClose'
  BY <1>2 DEF Control, SkipSlot, ControlIdle, ControlClose, PASS, REIN, PASV, PORT, LIST,
     RETR, STOR, OpenFailed, PrepareDataConnection, PreparePassive, PrepareActive,
     PrepareLost, PrepareFailed
<1>3. ASSUME NEW i \in Slots, Data(i) PROVE staleClose'
  BY <1>3 DEF Data, DataWait, DataConnect, DataFail, DataList, DataAccept, TransferStart,
     TransferNoThread, TransferOverRunning, TransferPoll, TransferBlock, TransferJoin,
     FinishData, CloseData, Poll
<1>4. ASSUME NEW i \in Slots, ExitSlot(i) \/ Thread(i) PROVE staleClose'
  BY <1>4 DEF ExitSlot, Thread, ThreadMove, ThreadEnd, ThreadFault
<1> QED
  BY <1>1, <1>2, <1>3, <1>4 DEF Next

LEMMA NextSockets ==
  ASSUME SocketInv, [Next]_vars
  PROVE  OwnInv' /\ NoDescriptorLeak'
<1>1. CASE staleClose
  BY <1>1, StaleStays, StaleStep DEF SocketInv
<1>2. CASE ~staleClose
  <2>1. CASE conn' = conn /\ fds' = fds /\ clobbered' = clobbered /\ staleClose' = staleClose
    BY <2>1, SameSockets
  <2>2. CASE Accepting
    BY <1>2, <2>1, <2>2, AcceptSockets DEF Accepting, AcceptNothing, AcceptError, Refuse, vars
  <2>3. CASE Buttons \/ Stopped \/ UNCHANGED vars
    BY <2>1, <2>3 DEF Buttons, Stopped, vars
  <2>4. ASSUME NEW i \in Slots, ExitSlot(i) PROVE OwnInv' /\ NoDescriptorLeak'
    BY <1>2, <2>4, CleanupSockets DEF ExitSlot
  <2> QED
    BY <1>2, <2>2, <2>3, <2>4, ControlSockets, DataSockets, ThreadSockets DEF Next
<1> QED
  BY <1>1, <1>2

\* Who holds which descriptor, through every step of the loop, of its handlers
\* and of the transfer threads.
THEOREM SocketInvariant == Spec => []SocketInv
<1>1. Init => SocketInv
  <2> SUFFICES ASSUME Init PROVE SocketInv
    OBVIOUS
  <2>1. \A j \in Slots : conn[j] = FreshConnection /\ Held(j) = {} /\ SlotSockets(conn[j])
    BY DEF Init, Held, SlotSockets, FreshConnection
  <2>2. OwnInv /\ NoDescriptorLeak
    BY <2>1 DEF Init, OwnInv, NoDescriptorLeak
  <2> QED
    BY <2>2, InitType DEF SocketInv
<1>2. SocketInv /\ [Next]_vars => SocketInv'
  BY NextSockets, NextType DEF SocketInv
<1> QED
  BY <1>1, <1>2, PTL DEF Spec

\* For any number of slots and descriptors: what a slot holds is open and
\* belongs to no other slot, so that closing one connection never closes a
\* socket of another, unless bind failed on an active data connection, which
\* leaves a closed descriptor in data_socket (prepare_data_connection).
THEOREM DescriptorsAreOwned == Spec => []DescriptorOwnership
<1>1. SocketInv => DescriptorOwnership
  BY DEF SocketInv, OwnInv, SlotSockets, DescriptorOwnership
<1> QED
  BY <1>1, SocketInvariant, PTL

\* And none is lost, unless besides a slot was given away in use
\* (cleanup_connection, cleanup_data_resources, close_passive_socket).
THEOREM DescriptorsAreKept == Spec => []NoDescriptorLeak
<1>1. SocketInv => NoDescriptorLeak
  BY DEF SocketInv
<1> QED
  BY <1>1, SocketInvariant, PTL

-----------------------------------------------------------------------------
(***************************************************************************)
(* The program around the server (Application): whatever fails between its *)
(* start and its return, for any number of connections and any set of USB  *)
(* ports.                                                                  *)
(***************************************************************************)

(***************************************************************************)
(* The type.                                                               *)
(***************************************************************************)

LEMMA DevicesFinite == IsFiniteSet(Device)
<1>1. \A S, x : IsFiniteSet(S) => IsFiniteSet(S \cup {x})
  BY FS_AddElement
<1>2. IsFiniteSet({})
  BY FS_EmptySet
<1>3. IsFiniteSet({"sd", Usb})
  <2>1. {"sd", Usb} = ({} \cup {"sd"}) \cup {Usb}
    OBVIOUS
  <2> QED
    BY <1>1, <1>2, <2>1
<1>4. IsFiniteSet(Mlc)
  <2>1. Mlc = (({} \cup {"storage_slccmpt"}) \cup {"storage_mlc"}) \cup {"storage_slc"}
    BY DEF Mlc
  <2> QED
    BY <1>1, <1>2, <2>1
<1>5. IsFiniteSet(Odd)
  <2>1. Odd = ((({} \cup {"storage_odd_tickets"}) \cup {"storage_odd_updates"})
                 \cup {"storage_odd_content"}) \cup {"storage_odd_content2"}
    BY DEF Odd
  <2> QED
    BY <1>1, <1>2, <2>1
<1> QED
  BY <1>3, <1>4, <1>5, FS_Union DEF Device

LEMMA MountType ==
  ASSUME ProgramTypeOK, NEW group, group \subseteq Device \ {Usb}, Mount(group)
  PROVE  /\ mounted' \subseteq Device /\ flags' \subseteq Device \ {Usb}
         /\ table' \subseteq Device /\ nbDevices' \in Nat
<1>1. PICK new \in SUBSET group :
        /\ mounted' = mounted \cup new /\ flags' = flags \cup new
        /\ table' = table \cup new /\ nbDevices' = nbDevices + Cardinality(new)
  BY DEF Mount
<1>2. IsFiniteSet(Device)
  BY DevicesFinite
<1>3. Cardinality(new) \in Nat
  BY <1>2, FS_Subset, FS_CardinalityType
<1>4. new \subseteq Device \ {Usb}
  BY <1>1
<1>5. nbDevices' \in Nat
  BY <1>1, <1>3 DEF ProgramTypeOK
<1> QED
  BY <1>1, <1>4, <1>5 DEF ProgramTypeOK

LEMMA AppInitType == ProgramInit => ProgramTypeOK
<1> SUFFICES ASSUME ProgramInit PROVE ProgramTypeOK
  OBVIOUS
<1>1. allocated \in 0 .. Connections /\ returnCode \in {0, -10, -11, -12, NoDevices} /\ nbDevices \in Nat
  BY ConnectionsAssumption DEF ProgramInit
<1> QED
  BY <1>1 DEF ProgramInit, ProgramTypeOK

LEMMA GroupsType ==
  /\ {"sd"} \subseteq Device \ {Usb} /\ Odd \subseteq Device \ {Usb}
  /\ \A b : (IF b THEN Mlc ELSE {}) \subseteq Device \ {Usb}
  /\ Usb \in Device
BY DEF Device, Usb, Mlc, Odd

-----------------------------------------------------------------------------
(***************************************************************************)
(* What is open at each place of the program.                              *)
(***************************************************************************)

AllClosed == iosuhax = "closed" /\ ~fsa
NoServer == listener # "open" /\ allocated = 0
OnlyUsb == mounted \subseteq {Usb} /\ table = {}

\* Nothing is mounted or served before it is the turn of it, and at the exit
\* all is given back, but for the way out that CountDevices takes.
PlaceInv ==
  /\ mounted \subseteq flags \cup {Usb}
  /\ listener = "none" => allocated = 0
  /\ step \in {"cfw", "fsa"} => ~fsa /\ mounted = {} /\ table = {}
  /\ step = "cfw" => iosuhax = "closed"
  /\ step \in {"menu", "sd", "usb", "mlc", "odd", "count", "server", "serve", "stop",
             "unmount", "close", "crashed"} => fsa
  /\ step \in {"cfw", "fsa", "menu", "sd", "usb", "mlc", "odd", "count", "server"}
       => listener = "none"
  /\ step \in {"unmount", "close"} => NoServer
  /\ step = "close" => OnlyUsb
  /\ step \in {"exit", "returned"} =>
       \/ returnCode = NoDevices /\ fsa
       \/ AllClosed /\ NoServer /\ OnlyUsb

AppInv == ProgramTypeOK /\ PlaceInv

LEMMA PlacesGiveProperties == AppInv => NoMountOutlivesFsa /\ ReleasedAtReturn
<1> SUFFICES ASSUME AppInv PROVE NoMountOutlivesFsa /\ ReleasedAtReturn
  OBVIOUS
<1>1. NoMountOutlivesFsa
  BY DEF AppInv, ProgramTypeOK, PlaceInv, NoMountOutlivesFsa, OnlyUsb
<1>2. ReleasedAtReturn
  BY DEF AppInv, PlaceInv, ReleasedAtReturn, AllClosed, NoServer, OnlyUsb
<1> QED
  BY <1>1, <1>2

LEMMA AppInitInv == ProgramInit => AppInv
BY AppInitType DEF AppInv, PlaceInv, ProgramInit

LEMMA StartInv == AppInv /\ Start => AppInv'
<1> SUFFICES ASSUME AppInv, Start PROVE AppInv'
  OBVIOUS
<1> USE DEF Goto, access, devices, server
<1>1. CASE NoCfw
  BY <1>1 DEF NoCfw, AppInv, ProgramTypeOK, PlaceInv, AllClosed, NoServer, OnlyUsb
<1>2. CASE OpenIosuhax
  BY <1>2 DEF OpenIosuhax, AppInv, ProgramTypeOK, PlaceInv, AllClosed, NoServer, OnlyUsb
<1>3. CASE OpenFsa
  BY <1>3 DEF OpenFsa, AppInv, ProgramTypeOK, PlaceInv, AllClosed, NoServer, OnlyUsb
<1>4. CASE OpenFsaFails
  BY <1>4 DEF OpenFsaFails, AppInv, ProgramTypeOK, PlaceInv, AllClosed, NoServer, OnlyUsb
<1> QED
  BY <1>1, <1>2, <1>3, <1>4 DEF Start

LEMMA UserInv == AppInv /\ User => AppInv'
<1> SUFFICES ASSUME AppInv, User PROVE AppInv'
  OBVIOUS
<1> USE DEF Goto, access, devices, server
<1>1. CASE Button
  BY <1>1 DEF Button, AppInv, ProgramTypeOK, PlaceInv, AllClosed, NoServer, OnlyUsb
<1>2. CASE LeaveLoop
  BY <1>2 DEF LeaveLoop, AppInv, ProgramTypeOK, PlaceInv, AllClosed, NoServer, OnlyUsb
<1> QED
  BY <1>1, <1>2 DEF User

LEMMA GroupInv ==
  ASSUME AppInv, NEW group, group \subseteq Device \ {Usb}, Mount(group),
         NEW from \in {"sd", "mlc", "odd"}, NEW to \in {"usb", "odd", "count"}, Goto(from, to),
         UNCHANGED <<returnCode, iosuhax, fsa, listener, allocated, storage_usb, found>>,
         mountMlc' \in BOOLEAN
  PROVE  AppInv'
<1>1. /\ mounted' \subseteq Device /\ flags' \subseteq Device \ {Usb}
      /\ table' \subseteq Device /\ nbDevices' \in Nat
  BY MountType DEF AppInv
<1>2. ProgramTypeOK'
  BY <1>1 DEF AppInv, ProgramTypeOK, Goto
<1>3. mounted' \subseteq flags' \cup {Usb}
  BY DEF Mount, AppInv, PlaceInv
<1>4. PlaceInv'
  BY <1>3 DEF AppInv, PlaceInv, Goto, NoServer
<1> QED
  BY <1>2, <1>4 DEF AppInv

LEMMA UsbInv == AppInv /\ MountUsb => AppInv'
<1> SUFFICES ASSUME AppInv, MountUsb PROVE AppInv'
  OBVIOUS
<1>1. Goto("usb", "mlc") /\ UNCHANGED <<returnCode, iosuhax, fsa, mountMlc, flags, listener, allocated>>
  BY DEF MountUsb, access, server
<1>2. PICK ports \in SUBSET Port :
        /\ storage_usb' = ports
        /\ IF ports = {}
             THEN UNCHANGED <<mounted, found, table, nbDevices>>
             ELSE /\ \E p \in ports : IsLast(p, ports) /\ found' = p
                  /\ mounted' \in {mounted, mounted \cup {Usb}}
                  /\ table' = table \cup {Usb} /\ nbDevices' = nbDevices + 1
  BY DEF MountUsb
<1>3. mounted' \subseteq Device /\ table' \subseteq Device /\ mounted' \subseteq mounted \cup {Usb}
  BY <1>2, GroupsType DEF AppInv, ProgramTypeOK
<1>4. nbDevices' \in Nat
  BY <1>2 DEF AppInv, ProgramTypeOK
<1>5. found' \in Port \cup {0} /\ storage_usb' \subseteq Port
  BY <1>2 DEF AppInv, ProgramTypeOK
<1>6. ProgramTypeOK'
  BY <1>1, <1>3, <1>4, <1>5 DEF AppInv, ProgramTypeOK, Goto
<1>7. PlaceInv'
  BY <1>1, <1>3 DEF AppInv, PlaceInv, Goto, NoServer
<1> QED
  BY <1>6, <1>7 DEF AppInv

LEMMA MountingInv == AppInv /\ Mounting => AppInv'
<1> SUFFICES ASSUME AppInv, Mounting PROVE AppInv'
  OBVIOUS
<1>1. CASE MountSd
  BY <1>1, GroupInv, GroupsType DEF MountSd, access, server, AppInv, ProgramTypeOK
<1>2. CASE MountUsb
  BY <1>2, UsbInv
<1>3. CASE MountMlc
  BY <1>3, GroupInv, GroupsType DEF MountMlc, access, server, AppInv, ProgramTypeOK
<1>4. CASE MountOdd
  BY <1>4, GroupInv, GroupsType DEF MountOdd, access, server, AppInv, ProgramTypeOK
<1>5. CASE CountDevices
  <2>1. ProgramTypeOK'
    BY <1>5 DEF CountDevices, access, devices, server, AppInv, ProgramTypeOK
  <2>2. PlaceInv'
    BY <1>5 DEF CountDevices, access, devices, server, AppInv, PlaceInv
  <2> QED
    BY <2>1, <2>2 DEF AppInv
<1> QED
  BY <1>1, <1>2, <1>3, <1>4, <1>5 DEF Mounting

LEMMA CreateServerInv == AppInv /\ CreateServer => AppInv'
<1> SUFFICES ASSUME AppInv, CreateServer PROVE AppInv'
  OBVIOUS
<1> USE DEF Goto, access, devices, server
<1>1. CASE SocketFails
  BY <1>1 DEF SocketFails, AppInv, ProgramTypeOK, PlaceInv
<1>2. CASE ListenFails
  BY <1>2 DEF ListenFails, AppInv, ProgramTypeOK, PlaceInv
<1>3. CASE AllocFails
  <2>1. allocated' \in 0 .. Connections
    BY <1>3, ConnectionsAssumption DEF AllocFails
  <2> QED
    BY <1>3, <2>1 DEF AllocFails, AppInv, ProgramTypeOK, PlaceInv
<1>4. CASE Listen
  <2>1. allocated' \in 0 .. Connections
    BY <1>4, ConnectionsAssumption DEF Listen
  <2> QED
    BY <1>4, <2>1 DEF Listen, AppInv, ProgramTypeOK, PlaceInv
<1> QED
  BY <1>1, <1>2, <1>3, <1>4 DEF CreateServer

LEMMA ExitInv == AppInv /\ Exit => AppInv'
<1> SUFFICES ASSUME AppInv, Exit PROVE AppInv'
  OBVIOUS
<1> USE DEF Goto, access, devices, server
<1>1. CASE Stop
  <2>1. 0 \in 0 .. Connections
    BY ConnectionsAssumption
  <2>2. ProgramTypeOK'
    BY <1>1, <2>1 DEF Stop, AppInv, ProgramTypeOK
  <2>3. PlaceInv'
    BY <1>1 DEF Stop, AppInv, PlaceInv, NoServer
  <2> QED
    BY <2>2, <2>3 DEF AppInv
<1>2. CASE Unmount
  <2>1. ProgramTypeOK'
    BY <1>2 DEF Unmount, AppInv, ProgramTypeOK
  <2>2. PlaceInv'
    BY <1>2 DEF Unmount, AppInv, PlaceInv, NoServer, OnlyUsb
  <2> QED
    BY <2>1, <2>2 DEF AppInv
<1>3. CASE CloseAccess
  BY <1>3 DEF CloseAccess, AppInv, ProgramTypeOK, PlaceInv, AllClosed, NoServer, OnlyUsb
<1>4. CASE Return
  BY <1>4 DEF Return, AppInv, ProgramTypeOK, PlaceInv, AllClosed, NoServer, OnlyUsb
<1> QED
  BY <1>1, <1>2, <1>3, <1>4 DEF Exit

LEMMA StutterInv == AppInv /\ UNCHANGED programVars => AppInv'
BY DEF AppInv, ProgramTypeOK, PlaceInv, AllClosed, NoServer, OnlyUsb, programVars, access, devices, server

LEMMA AppStepInv == AppInv /\ [ProgramNext]_(programVars) => AppInv'
BY StartInv, UserInv, MountingInv, CreateServerInv, ExitInv, StutterInv
DEF ProgramNext, Program, Over

-----------------------------------------------------------------------------

\* What is open and mounted follows from the place that __entry_menu has
\* reached, at every step of it.
THEOREM AppInvariance == ProgramSpec => []AppInv
BY AppInitInv, AppStepInv, PTL DEF ProgramSpec

\* The types, for every set of ports and number of connections.
THEOREM AppTypeCorrect == ProgramSpec => []ProgramTypeOK
BY AppInvariance, PTL DEF AppInv

\* No file system of the console stays mounted on a closed handle of FSA
\* (UnmountVirtualDevices comes before the end of __entry_menu).
THEOREM MountsEndFirst == ProgramSpec => []NoMountOutlivesFsa
BY AppInvariance, PlacesGiveProperties, PTL

\* However __entry_menu gets to its return it has given back what it opened,
\* unless it found no device.
THEOREM AllIsGivenBack == ProgramSpec => []ReleasedAtReturn
BY AppInvariance, PlacesGiveProperties, PTL

-----------------------------------------------------------------------------

(***************************************************************************)
(* The control channel: what holds of it for every size of its buffer and  *)
(* every length of what the client sends.                                  *)
(***************************************************************************)
StreamInv == ChannelTypeOK /\ BufferIsStream

\* A piece of a sequence, element by element.
LEMMA PieceOf ==
  ASSUME NEW S, NEW s \in Seq(S), NEW c \in Nat, NEW r \in Nat, c <= r, r <= Len(s)
  PROVE  /\ SubSeq(s, c + 1, r) \in Seq(S)
         /\ Len(SubSeq(s, c + 1, r)) = r - c
         /\ \A k \in 1 .. r - c : SubSeq(s, c + 1, r)[k] = s[c + k]
<1>1. Len(s) \in Nat /\ c + 1 \in Int /\ r \in Int
  BY LenProperties
<1>2. \A i \in c + 1 .. r : s[i] \in S
  BY <1>1, ElementOfSeq
<1>3. /\ SubSeq(s, c + 1, r) \in Seq(S)
      /\ Len(SubSeq(s, c + 1, r)) = IF c + 1 <= r THEN r - (c + 1) + 1 ELSE 0
      /\ \A k \in 1 .. r - (c + 1) + 1 : SubSeq(s, c + 1, r)[k] = s[c + 1 + k - 1]
  BY <1>1, <1>2, SubSeqProperties
<1>4. r - (c + 1) + 1 = r - c /\ (IF c + 1 <= r THEN r - (c + 1) + 1 ELSE 0) = r - c
  OBVIOUS
<1>5. \A k \in 1 .. r - c : c + 1 + k - 1 = c + k
  OBVIOUS
<1>. QED BY <1>3, <1>4, <1>5

LEMMA IsPieceOf ==
  ASSUME NEW S, NEW s \in Seq(S), NEW c \in Nat, NEW r \in Nat, c <= r, r <= Len(s),
         NEW b \in Seq(S), Len(b) = r - c, \A k \in 1 .. r - c : b[k] = s[c + k]
  PROVE  b = SubSeq(s, c + 1, r)
BY PieceOf, SeqEqual

\* What recv() delivers continues what the buffer holds.
LEMMA ReadStream ==
  ASSUME StreamInv, Read
  PROVE  StreamInv'
<1>1. PICK n \in 1 .. Len(sent) - received :
        LET new == SubSeq(sent, received + 1, received + n) IN
          /\ n <= Room
          /\ IF Contains(new, 1, n, "0")
               THEN Close("null") /\ UNCHANGED held
               ELSE /\ buf' = buf \o new /\ received' = received + n
                    /\ phase' = "lines" /\ next' = 1 /\ held' = FALSE
                    /\ UNCHANGED <<data_callback, consumed, reason>>
  BY DEF Read
<1> DEFINE new == SubSeq(sent, received + 1, received + n)
<1>2. UNCHANGED <<sent, executed>>
  BY DEF Read, Sender
<1>3. /\ buf \in Seq(Byte) /\ sent \in Seq(Byte) /\ Len(buf) \in Nat
      /\ consumed \in Nat /\ received \in Nat /\ received <= Len(sent)
      /\ Len(sent) \in Nat /\ n \in Nat /\ n >= 1 /\ received + n <= Len(sent)
      /\ consumed + Len(buf) = received /\ Size \in Nat /\ consumed <= received
  <2>1. /\ buf \in Seq(Byte) /\ sent \in Seq(Byte)
        /\ received \in 0 .. Len(sent) /\ consumed \in 0 .. received
        /\ consumed + Len(buf) = received
    BY DEF StreamInv, ChannelTypeOK, BufferIsStream
  <2>2. Len(buf) \in Nat /\ Len(sent) \in Nat
    BY <2>1, LenProperties
  <2>. QED BY <2>1, <2>2, SizeAssumption
<1>4. CASE Close("null") /\ UNCHANGED held
  BY <1>2, <1>4 DEF Close, StreamInv, ChannelTypeOK, BufferIsStream
<1>5. CASE /\ buf' = buf \o new /\ received' = received + n
           /\ phase' = "lines" /\ next' = 1 /\ held' = FALSE
           /\ UNCHANGED <<data_callback, consumed, reason>>
  <2>1. /\ new \in Seq(Byte) /\ Len(new) = n
        /\ \A k \in 1 .. n : new[k] = sent[received + k]
    <3>1. received + n \in Nat /\ received <= received + n /\ received + n - received = n
      BY <1>3
    <3>. QED BY <1>3, <3>1, PieceOf
  <2> HIDE DEF new
  <2>2. /\ buf' \in Seq(Byte) /\ Len(buf') = Len(buf) + n
        /\ \A i \in 1 .. Len(buf) + n :
             buf'[i] = IF i <= Len(buf) THEN buf[i] ELSE new[i - Len(buf)]
    <3>1. buf' = buf \o new
      BY <1>5 DEF new
    <3>2. /\ buf \o new \in Seq(Byte) /\ Len(buf \o new) = Len(buf) + Len(new)
          /\ \A i \in 1 .. Len(buf) + Len(new) : (buf \o new)[i] =
               IF i <= Len(buf) THEN buf[i] ELSE new[i - Len(buf)]
      <4>1. buf \in Seq(Byte) /\ new \in Seq(Byte)
        BY <1>3, <2>1
      <4>. QED BY <4>1, ConcatProperties
    <3>. QED BY <2>1, <3>1, <3>2
  <2>0. Len(buf') = Len(buf) + n /\ Len(buf') \in Nat
    BY <1>3, <2>2
  <2>3. ChannelTypeOK'
    <3>1. Len(buf') <= Size - 1
      BY <1>1, <1>3, <2>2 DEF Room
    <3>2. next' \in 1 .. Len(buf') + 1
      BY <1>3, <1>5, <2>2
    <3>3. received' \in 0 .. Len(sent') /\ consumed' \in 0 .. received'
      BY <1>2, <1>3, <1>5
    <3>. QED BY <1>2, <1>5, <2>2, <3>1, <3>2, <3>3 DEF StreamInv, ChannelTypeOK
  <2>4. \A k \in 1 .. Len(buf) : buf[k] = sent[consumed + k]
    <3>1. buf = SubSeq(sent, consumed + 1, received) /\ received - consumed = Len(buf)
      BY <1>3 DEF StreamInv, BufferIsStream
    <3>. QED BY <1>3, <3>1, PieceOf
  <2>5. \A k \in 1 .. Len(buf') : buf'[k] = sent'[consumed' + k]
    <3> SUFFICES ASSUME NEW k \in 1 .. Len(buf') PROVE buf'[k] = sent[consumed + k]
      BY <1>2, <1>5
    <3>1. CASE k <= Len(buf)
      BY <1>3, <2>2, <2>4, <3>1
    <3>2. CASE k > Len(buf)
      <4>1. k - Len(buf) \in 1 .. n /\ received + (k - Len(buf)) = consumed + k
        <5>1. k \in Nat /\ k <= Len(buf) + n
          BY <1>3, <2>0
        <5>2. Len(buf) \in Nat /\ n \in Nat /\ consumed \in Nat /\ received = consumed + Len(buf)
          BY <1>3
        <5>. QED BY <3>2, <5>1, <5>2
      <4>2. buf'[k] = new[k - Len(buf)]
        BY <1>3, <2>2, <3>2
      <4>. QED BY <2>1, <4>1, <4>2
    <3>. QED BY <1>3, <2>2, <3>1, <3>2
  <2>6. consumed' + Len(buf') = received'
    <3>1. received' = received + n /\ consumed' = consumed
      BY <1>5
    <3>2. received = consumed + Len(buf) /\ Len(buf) \in Nat /\ consumed \in Nat /\ n \in Nat
      BY <1>3
    <3>. QED BY <2>0, <3>1, <3>2
  <2>7. BufferIsStream'
    <3>1. /\ received' \in Nat /\ consumed' \in Nat /\ consumed' <= received'
          /\ received' <= Len(sent')
      BY <1>2, <1>3, <1>5
    <3>2. Len(buf') = received' - consumed'
      BY <2>0, <2>6, <3>1
    <3>3. \A k \in 1 .. received' - consumed' : buf'[k] = sent'[consumed' + k]
      BY <2>5, <3>2
    <3>4. buf' \in Seq(Byte) /\ sent' \in Seq(Byte)
      BY <1>2, <1>3, <2>2
    <3>5. buf' = SubSeq(sent', consumed' + 1, received')
      BY <3>1, <3>2, <3>3, <3>4, IsPieceOf
    <3>. QED BY <2>6, <3>5 DEF BufferIsStream
  <2>. QED BY <2>3, <2>7 DEF StreamInv
<1>. QED BY <1>1, <1>4, <1>5

\* The bytes the client adds do not move those it has sent.
LEMMA SendStream ==
  ASSUME StreamInv, Send
  PROVE  StreamInv'
<1>1. PICK b \in Byte : sent' = Append(sent, b)
  BY DEF Send
<1>2. /\ buf \in Seq(Byte) /\ sent \in Seq(Byte) /\ Len(sent) < MaxSent
      /\ received \in 0 .. Len(sent) /\ consumed \in 0 .. received
      /\ consumed + Len(buf) = received
  BY DEF StreamInv, ChannelTypeOK, BufferIsStream, Send
<1>3. Len(buf) \in Nat /\ Len(sent) \in Nat
  BY <1>2, LenProperties
<1>4. /\ sent' \in Seq(Byte) /\ Len(sent') = Len(sent) + 1
      /\ \A k \in 1 .. Len(sent) : sent'[k] = sent[k]
  BY <1>1, <1>2, AppendProperties
<1>5. UNCHANGED <<phase, buf, next, data_callback, received, consumed, executed, held, reason>>
  BY DEF Send, History
<1>6. ChannelTypeOK'
  <2>1. Len(sent') <= MaxSent /\ received' \in 0 .. Len(sent')
    BY <1>2, <1>3, <1>4, <1>5, MaxSentAssumption
  <2>. QED BY <1>4, <1>5, <2>1 DEF StreamInv, ChannelTypeOK
<1>7. BufferIsStream'
  <2>1. /\ received \in Nat /\ consumed \in Nat /\ consumed <= received
        /\ received <= Len(sent) /\ received - consumed = Len(buf)
    BY <1>2, <1>3
  <2>2. received <= Len(sent')
    BY <1>3, <1>4, <2>1
  <2>3. buf = SubSeq(sent, consumed + 1, received)
    BY DEF StreamInv, BufferIsStream
  <2>4. \A k \in 1 .. received - consumed : buf[k] = sent[consumed + k]
    BY <1>2, <2>1, <2>3, PieceOf
  <2>5. \A k \in 1 .. received - consumed : consumed + k \in 1 .. Len(sent)
    BY <1>3, <2>1
  <2>6. \A k \in 1 .. received - consumed : buf[k] = sent'[consumed + k]
    BY <1>4, <2>4, <2>5
  <2>7. buf = SubSeq(sent', consumed + 1, received)
    BY <1>2, <1>4, <2>1, <2>2, <2>6, IsPieceOf
  <2>. QED BY <1>2, <1>5, <2>7 DEF BufferIsStream
<1>. QED BY <1>6, <1>7 DEF StreamInv

\* The lines that leave the buffer are its first bytes.
LEMMA CompactStream ==
  ASSUME StreamInv, Compact
  PROVE  /\ StreamInv'
         /\ Len(buf') = Len(buf) - (next - 1)
         /\ \A k \in 1 .. Len(buf') : buf'[k] = buf[next - 1 + k]
<1>1. /\ buf' = SubSeq(buf, next, Len(buf)) /\ consumed' = consumed + next - 1
      /\ next' = 1 /\ phase' = "read"
      /\ UNCHANGED <<data_callback, sent, received, executed, held, reason>>
  BY DEF Compact, Sender, History
<1>2. /\ buf \in Seq(Byte) /\ sent \in Seq(Byte) /\ Len(buf) <= Size - 1
      /\ received \in 0 .. Len(sent) /\ consumed \in 0 .. received
      /\ consumed + Len(buf) = received /\ next \in 1 .. Len(buf) + 1
  BY DEF StreamInv, ChannelTypeOK, BufferIsStream
<1>3. Len(buf) \in Nat /\ Len(sent) \in Nat
  BY <1>2, LenProperties
<1> DEFINE c == next - 1
<1>4. c \in Nat /\ c <= Len(buf) /\ c + 1 = next
  BY <1>2, <1>3
<1>5. /\ buf' \in Seq(Byte) /\ Len(buf') = Len(buf) - c
      /\ \A k \in 1 .. Len(buf) - c : buf'[k] = buf[c + k]
  BY <1>1, <1>2, <1>3, <1>4, PieceOf
<1>6. consumed' = consumed + c /\ consumed' \in 0 .. received
  BY <1>1, <1>2, <1>3, <1>4
<1>7. consumed' + Len(buf') = received
  <2>1. Len(buf') = Len(buf) - c /\ consumed' = consumed + c
    BY <1>5, <1>6
  <2>2. consumed \in Nat /\ consumed + Len(buf) = received
    BY <1>2, <1>3
  <2> HIDE DEF c
  <2>. QED BY <1>3, <1>4, <2>1, <2>2
<1>8. ChannelTypeOK'
  <2>1. Len(buf') <= Size - 1 /\ next' \in 1 .. Len(buf') + 1
    BY <1>1, <1>2, <1>3, <1>4, <1>5, SizeAssumption
  <2>. QED BY <1>1, <1>5, <1>6, <2>1 DEF StreamInv, ChannelTypeOK
<1>9. BufferIsStream'
  <2>1. /\ received \in Nat /\ consumed \in Nat /\ consumed <= received
        /\ received <= Len(sent) /\ received - consumed = Len(buf)
    BY <1>2, <1>3
  <2>2. buf = SubSeq(sent, consumed + 1, received)
    BY DEF StreamInv, BufferIsStream
  <2>3. \A k \in 1 .. Len(buf) : buf[k] = sent[consumed + k]
    BY <1>2, <2>1, <2>2, PieceOf
  <2>4. consumed' \in Nat /\ consumed' <= received /\ Len(buf') = received - consumed'
    BY <1>3, <1>4, <1>5, <1>6, <1>7, <2>1
  <2>5. \A k \in 1 .. received - consumed' : buf'[k] = sent[consumed' + k]
    <3> SUFFICES ASSUME NEW k \in 1 .. Len(buf) - c
                 PROVE  buf'[k] = sent[consumed + c + k]
      BY <1>5, <1>6, <2>4
    <3>1. c + k \in 1 .. Len(buf) /\ consumed + (c + k) = consumed + c + k
      BY <1>3, <1>4, <2>1
    <3>. QED BY <1>5, <2>3, <3>1
  <2>6. buf' = SubSeq(sent, consumed' + 1, received)
    <3>1. sent \in Seq(Byte) /\ buf' \in Seq(Byte)
      BY <1>2, <1>5
    <3> HIDE DEF c
    <3>. QED BY ONLY <2>1, <2>4, <2>5, <3>1, IsPieceOf
  <2>. QED BY <1>1, <1>7, <2>6 DEF BufferIsStream
<1>. QED BY <1>5, <1>8, <1>9 DEF StreamInv

\* A line that is executed lies in the bytes the client has sent.
LEMMA LineType ==
  ASSUME StreamInv, NEW e \in next .. Len(buf), IsEnd(e)
  PROVE  /\ NextLine(e) \in 1 .. Len(buf) + 1
         /\ e > next =>
              Append(executed, <<consumed + next, consumed + e - 1>>)
                \in Seq((1 .. MaxSent) \X (0 .. MaxSent))
<1>1. /\ next \in 1 .. Len(buf) + 1 /\ received \in 0 .. Len(sent)
      /\ consumed \in 0 .. received /\ consumed + Len(buf) = received
      /\ Len(sent) <= MaxSent
      /\ executed \in Seq((1 .. MaxSent) \X (0 .. MaxSent))
      /\ buf \in Seq(Byte) /\ sent \in Seq(Byte)
  BY DEF StreamInv, ChannelTypeOK, BufferIsStream
<1>2. Len(buf) \in Nat /\ Len(sent) \in Nat
  BY <1>1, LenProperties
<1>3. e \in 1 .. Len(buf) - 1
  BY DEF IsEnd, Crlf
<1>4. NextLine(e) \in 1 .. Len(buf) + 1
  BY <1>2, <1>3 DEF NextLine
<1>5. ASSUME e > next
      PROVE  <<consumed + next, consumed + e - 1>> \in (1 .. MaxSent) \X (0 .. MaxSent)
  BY <1>1, <1>2, <1>3, <1>5, MaxSentAssumption
<1>. QED BY <1>1, <1>4, <1>5, AppendProperties

LEMMA StreamStep == ASSUME StreamInv, [ChannelNext]_channelVars PROVE StreamInv'
<1>1. CASE Send
  BY <1>1, SendStream
<1>2. CASE Read
  BY <1>2, ReadStream
<1>3. CASE ReadEnd \/ TooLong \/ BareLineFeed \/ TransferFails
  BY <1>3 DEF ReadEnd, TooLong, BareLineFeed, TransferFails, Close, Sender,
       History, StreamInv, ChannelTypeOK, BufferIsStream
<1>4. CASE Execute
  <2>1. PICK e \in next .. Len(buf) :
          /\ IsEnd(e) /\ next' = NextLine(e)
          /\ IF e > next
               THEN /\ executed' = Append(executed, <<consumed + next, consumed + e - 1>>)
                    /\ data_callback' \in BOOLEAN
               ELSE UNCHANGED <<executed, data_callback>>
    BY <1>4 DEF Execute
  <2>2. UNCHANGED <<phase, buf, sent, received, consumed, held, reason>>
    BY <1>4 DEF Execute, Sender
  <2>3. next' \in 1 .. Len(buf) + 1
    BY <2>1, LineType
  <2>4. executed' \in Seq((1 .. MaxSent) \X (0 .. MaxSent)) /\ data_callback' \in BOOLEAN
    BY <2>1, LineType DEF StreamInv, ChannelTypeOK
  <2>. QED BY <2>2, <2>3, <2>4 DEF StreamInv, ChannelTypeOK, BufferIsStream
<1>5. CASE ExecuteEnds
  <2>1. PICK e \in next + 1 .. Len(buf) :
          /\ IsEnd(e)
          /\ executed' = Append(executed, <<consumed + next, consumed + e - 1>>)
    BY <1>5 DEF ExecuteEnds
  <2>2. e \in next .. Len(buf) /\ e > next
    <3>1. buf \in Seq(Byte) /\ next \in 1 .. Len(buf) + 1
      BY DEF StreamInv, ChannelTypeOK
    <3>2. Len(buf) \in Nat
      BY <3>1, LenProperties
    <3>. QED BY <3>1, <3>2
  <2>3. executed' \in Seq((1 .. MaxSent) \X (0 .. MaxSent))
    BY <2>1, <2>2, LineType
  <2>4. /\ phase' = "closed" /\ reason' = "end"
        /\ UNCHANGED <<buf, next, data_callback, received, consumed, sent, held>>
    BY <1>5 DEF ExecuteEnds, Close, Sender
  <2>. QED BY <2>3, <2>4 DEF StreamInv, ChannelTypeOK, BufferIsStream
<1>6. CASE Compact
  BY <1>6, CompactStream
<1>7. CASE TransferEnds
  BY <1>7 DEF TransferEnds, Sender, StreamInv, ChannelTypeOK, BufferIsStream
<1>8. CASE Closed \/ UNCHANGED channelVars
  BY <1>8 DEF Closed, channelVars, StreamInv, ChannelTypeOK, BufferIsStream
<1>. QED BY <1>1, <1>2, <1>3, <1>4, <1>5, <1>6, <1>7, <1>8 DEF ChannelNext, Server, Lines

LEMMA InitStream == ChannelInit => StreamInv
<1>. SUFFICES ASSUME ChannelInit PROVE StreamInv
  OBVIOUS
<1>1. <<>> \in Seq(Byte) /\ Len(<<>>) = 0 /\ <<>> \in Seq((1 .. MaxSent) \X (0 .. MaxSent))
  BY EmptySeq
<1>2. SubSeq(<<>>, 1, 0) = <<>>
  BY SubSeqEmpty
<1>3. ChannelTypeOK
  <2>1. buf \in Seq(Byte) /\ sent \in Seq(Byte) /\ Len(buf) = 0 /\ Len(sent) = 0
    BY <1>1 DEF ChannelInit
  <2>2. Len(buf) <= Size - 1 /\ next \in 1 .. Len(buf) + 1
    BY <2>1, SizeAssumption DEF ChannelInit
  <2>3. Len(sent) <= MaxSent /\ received \in 0 .. Len(sent) /\ consumed \in 0 .. received
    BY <2>1, MaxSentAssumption DEF ChannelInit
  <2>4. executed \in Seq((1 .. MaxSent) \X (0 .. MaxSent))
    BY <1>1 DEF ChannelInit
  <2>. QED BY <2>1, <2>2, <2>3, <2>4 DEF ChannelInit, ChannelTypeOK
<1>4. BufferIsStream
  BY <1>1, <1>2 DEF ChannelInit, BufferIsStream
<1>. QED BY <1>3, <1>4 DEF StreamInv

\* The buffer never holds more than it has room for, and next stays in it.
THEOREM ChannelTypeCorrect == ChannelSpec => []ChannelTypeOK
<1>1. StreamInv => ChannelTypeOK
  BY DEF StreamInv
<1>. QED BY <1>1, InitStream, StreamStep, PTL DEF ChannelSpec

\* Whatever pieces recv() delivers and however many lines leave the buffer at
\* once, the buffer is what was received and not processed.
THEOREM BufferHoldsTheRest == ChannelSpec => []BufferIsStream
<1>1. StreamInv => BufferIsStream
  BY DEF StreamInv
<1>. QED BY <1>1, InitStream, StreamStep, PTL DEF ChannelSpec

-----------------------------------------------------------------------------
(***************************************************************************)
(* When a complete line may be in the buffer.                              *)
(***************************************************************************)

\* At the head of the loop a line is there only behind a transfer, whose own
\* line has made room; while lines are executed, a transfer is behind one.
WaitInv ==
  /\ phase = "lines" /\ data_callback => next > 1
  /\ phase = "read" /\ Crlf(buf) # {} => data_callback \/ held
  /\ phase = "read" /\ (data_callback \/ Crlf(buf) # {}) => Len(buf) < Size - 1
  /\ reason = "long" => phase = "closed"
  /\ LongMeansLong

LEMMA CompactWait ==
  ASSUME StreamInv, WaitInv, Compact
  PROVE  WaitInv'
<1>1. /\ next' = 1 /\ phase = "lines" /\ phase' = "read"
      /\ UNCHANGED <<data_callback, held, reason>>
      /\ data_callback \/ ~\E e \in Crlf(buf) : e >= next
  BY DEF Compact, Sender, History
<1>2. /\ next \in 1 .. Len(buf) + 1 /\ Len(buf) <= Size - 1 /\ buf \in Seq(Byte)
      /\ buf' \in Seq(Byte)
  BY CompactStream DEF StreamInv, ChannelTypeOK
<1>3. Len(buf) \in Nat /\ Len(buf') \in Nat
  BY <1>2, LenProperties
<1>4. /\ Len(buf') = Len(buf) - (next - 1)
      /\ \A k \in 1 .. Len(buf') : buf'[k] = buf[next - 1 + k]
  BY CompactStream
<1>5. reason' # "long"
  BY <1>1 DEF WaitInv
<1>6. CASE data_callback
  <2>1. next > 1
    BY <1>1, <1>6 DEF WaitInv
  <2>2. Len(buf') < Size - 1
    BY <1>2, <1>3, <1>4, <2>1, SizeAssumption
  <2>. QED BY <1>1, <1>5, <1>6, <2>2 DEF WaitInv, LongMeansLong
<1>7. CASE ~data_callback /\ ~\E e \in Crlf(buf) : e >= next
  <2>1. ASSUME NEW i \in Crlf(buf)' PROVE FALSE
    <3>1. i \in 1 .. Len(buf') - 1 /\ buf'[i] = "CR" /\ buf'[i + 1] = "LF"
      BY DEF Crlf
    <3>2. i \in 1 .. Len(buf') /\ i + 1 \in 1 .. Len(buf')
      BY <1>3, <3>1
    <3>3. buf[next - 1 + i] = "CR" /\ buf[next - 1 + (i + 1)] = "LF"
      BY <1>4, <3>1, <3>2
    <3>4. /\ next - 1 + i \in 1 .. Len(buf) - 1 /\ next - 1 + i >= next
          /\ next - 1 + (i + 1) = next - 1 + i + 1
      BY <1>2, <1>3, <1>4, <3>1
    <3>5. next - 1 + i \in Crlf(buf)
      BY <3>3, <3>4 DEF Crlf
    <3>. QED BY <1>7, <3>4, <3>5
  <2>2. Crlf(buf)' = {}
    BY <2>1
  <2>. QED BY <1>1, <1>5, <1>6, <2>2 DEF WaitInv, LongMeansLong
<1>. QED BY <1>1, <1>6, <1>7

LEMMA WaitStep == ASSUME StreamInv, WaitInv, [ChannelNext]_channelVars PROVE WaitInv'
<1>1. CASE Read
  BY <1>1 DEF Read, Close, WaitInv, LongMeansLong
<1>2. CASE ReadEnd \/ BareLineFeed \/ TransferFails \/ ExecuteEnds
  BY <1>2 DEF ReadEnd, BareLineFeed, TransferFails, ExecuteEnds, Close,
       WaitInv, LongMeansLong
<1>3. CASE TooLong
  <2>1. /\ phase = "read" /\ Room = 0 /\ phase' = "closed" /\ UNCHANGED buf
    BY <1>3 DEF TooLong, Close
  <2>2. Len(buf) = Size - 1
    <3>1. Len(buf) \in Nat
      BY LenProperties DEF StreamInv, ChannelTypeOK
    <3>. QED BY <2>1, <3>1, SizeAssumption DEF Room
  <2>3. Crlf(buf) = {} /\ ~data_callback
    BY <2>1, <2>2, SizeAssumption DEF WaitInv
  <2>4. Crlf(buf)' = {} /\ Len(buf)' = Size - 1 /\ ~data_callback'
    BY <1>3, <2>1, <2>2, <2>3 DEF Crlf, TooLong, Close
  <2>. QED BY <2>1, <2>4 DEF WaitInv, LongMeansLong
<1>4. CASE Execute
  <2>1. PICK e \in next .. Len(buf) : IsEnd(e) /\ next' = NextLine(e)
    BY <1>4 DEF Execute
  <2>2. next' > 1
    <3>1. e \in 1 .. Len(buf) - 1
      BY <2>1 DEF IsEnd, Crlf
    <3>2. buf \in Seq(Byte)
      BY DEF StreamInv, ChannelTypeOK
    <3>3. Len(buf) \in Nat
      BY <3>2, LenProperties
    <3>. QED BY <2>1, <3>1, <3>3 DEF NextLine
  <2>3. phase = "lines" /\ UNCHANGED <<phase, reason>>
    BY <1>4 DEF Execute
  <2>. QED BY <2>2, <2>3 DEF WaitInv, LongMeansLong
<1>5. CASE Compact
  BY <1>5, CompactWait
<1>6. CASE TransferEnds
  BY <1>6 DEF TransferEnds, WaitInv, LongMeansLong
<1>7. CASE Send \/ Closed \/ UNCHANGED channelVars
  BY <1>7 DEF Send, Closed, History, channelVars, WaitInv, LongMeansLong
<1>. QED BY <1>1, <1>2, <1>3, <1>4, <1>5, <1>6, <1>7 DEF ChannelNext, Server, Lines

\* process_control_events closes the connection for a long line only when the
\* buffer is full, no line ends in it and no transfer is under way.
THEOREM TooLongIsHonest == ChannelSpec => []LongMeansLong
<1>1. ChannelInit => WaitInv
  BY DEF ChannelInit, WaitInv, LongMeansLong, Crlf
<1>2. WaitInv => LongMeansLong
  BY DEF WaitInv
<1>. QED BY <1>1, <1>2, InitStream, StreamStep, WaitStep, PTL DEF ChannelSpec

\* A complete line is left waiting only by the end of a transfer.
THEOREM OnlyTransfersDelayLines == ChannelSpec => []LineWaitsOnlyAfterTransfer
<1>1. ChannelInit => WaitInv
  BY DEF ChannelInit, WaitInv, LongMeansLong, Crlf
<1>2. WaitInv => LineWaitsOnlyAfterTransfer
  BY DEF WaitInv, LineWaitsOnlyAfterTransfer
<1>. QED BY <1>1, <1>2, InitStream, StreamStep, WaitStep, PTL DEF ChannelSpec
-----------------------------------------------------------------------------
(***************************************************************************)
(* The lines that are executed are the lines that were sent.               *)
(***************************************************************************)

\* The places of CR LF do not overlap.
LEMMA CrlfApart ==
  ASSUME NEW s \in Seq(Byte)
  PROVE  \A k \in Crlf(s) : k \in Nat /\ k >= 1 /\ k <= Len(s) - 1 /\ k + 1 \notin Crlf(s)
<1>1. Len(s) \in Nat
  BY LenProperties
<1>2. ASSUME NEW k \in Crlf(s), k + 1 \in Crlf(s) PROVE FALSE
  <2>1. s[k + 1] = "LF" /\ s[k + 1] = "CR"
    BY <1>2 DEF Crlf
  <2> QED
    BY <2>1
<1> QED
  BY <1>1, <1>2 DEF Crlf

\* When p follows a CR LF and E is the first one from p on, the only line that
\* ends between them is the text from p to E.
LEMMA OneLine ==
  ASSUME NEW K, \A k \in K : k \in Nat /\ k >= 1 /\ k + 1 \notin K,
         NEW p \in Nat, p >= 1, p = 1 \/ p - 2 \in K,
         NEW E \in K, E >= p, \A k \in K : k >= p => k >= E,
         NEW a \in Nat, NEW b \in Nat, a >= 1, a <= b, a = 1 \/ a - 2 \in K,
         b + 1 \in K, \A i \in a .. b : i \notin K, b < E + 2, b >= p
  PROVE  a = p /\ b = E - 1
<1>0. E \in Nat
  OBVIOUS
<1>1. b + 1 >= E
  <2>1. b + 1 >= p
    OBVIOUS
  <2> QED
    BY <2>1
<1>2. b + 1 # E + 1
  <2>1. E + 1 \notin K
    OBVIOUS
  <2> QED
    BY <2>1
<1>3. b + 1 # E + 2
  <2> SUFFICES ASSUME b = E + 1 PROVE FALSE
    BY <1>0
  <2>1. E \notin a .. b
    OBVIOUS
  <2>2. a = E + 1
    BY <1>0, <2>1
  <2>3. a # 1 /\ a - 2 = E - 1
    BY <1>0, <2>2
  <2>4. E - 1 \in K /\ (E - 1) + 1 = E
    BY <1>0, <2>3
  <2> QED
    BY <2>4
<1>4. b = E - 1
  BY <1>0, <1>1, <1>2, <1>3
<1>5. ~(a > p)
  <2> SUFFICES ASSUME a > p PROVE FALSE
    OBVIOUS
  <2>1. a - 2 \in K
    OBVIOUS
  <2>2. a - 2 < E
    BY <1>0, <1>4
  <2>3. ~(a - 2 >= p)
    BY <2>1, <2>2, <1>0
  <2>4. a - 2 = p - 1
    BY <2>3
  <2>5. p - 1 \in K /\ p - 1 >= 1
    BY <2>1, <2>4
  <2>6. p - 2 \in K /\ (p - 2) + 1 = p - 1
    BY <2>5
  <2> QED
    BY <2>5, <2>6
<1>6. ~(a < p)
  <2> SUFFICES ASSUME a < p PROVE FALSE
    OBVIOUS
  <2>1. p - 2 \in K
    OBVIOUS
  <2>2. p - 2 \notin a .. b /\ p - 2 <= b
    BY <2>1
  <2>3. a = p - 1
    BY <2>2
  <2>4. a - 2 \in K \/ a = 1
    OBVIOUS
  <2>5. CASE a = 1
    <3>1. p - 2 = 0
      BY <2>3, <2>5
    <3> QED
      BY <2>1, <3>1
  <2>6. CASE a - 2 \in K
    <3>1. (a - 2) + 1 = p - 2
      BY <2>3
    <3> QED
      BY <2>1, <2>6, <3>1
  <2> QED
    BY <2>4, <2>5, <2>6
<1> QED
  BY <1>4, <1>5, <1>6

\* The next line to be executed, by its position in what was sent.
Here == consumed + next

\* What was executed is all that was sent up to the next line, which begins
\* where the text or a line begins.
OrderInv ==
  /\ StreamInv /\ LinesInOrder
  /\ phase = "read" => next = 1
  /\ Here = 1 \/ Here - 2 \in Crlf(sent)
  /\ phase # "closed" => \A k \in DOMAIN executed : executed[k][2] < Here

\* The places in the buffer and in what was sent.
LEMMA CrlfMoves ==
  ASSUME StreamInv
  PROVE  /\ buf \in Seq(Byte) /\ sent \in Seq(Byte) /\ Len(buf) \in Nat /\ Len(sent) \in Nat
         /\ consumed \in Nat /\ next \in Nat /\ next >= 1 /\ next <= Len(buf) + 1
         /\ consumed + Len(buf) <= Len(sent)
         /\ \A i \in Crlf(buf) : consumed + i \in Crlf(sent)
         /\ \A i \in 1 .. Len(buf) - 1 : consumed + i \in Crlf(sent) => i \in Crlf(buf)
<1>1. /\ buf \in Seq(Byte) /\ sent \in Seq(Byte) /\ next \in 1 .. Len(buf) + 1
      /\ received \in 0 .. Len(sent) /\ consumed \in 0 .. received
      /\ consumed + Len(buf) = received /\ buf = SubSeq(sent, consumed + 1, received)
  BY DEF StreamInv, ChannelTypeOK, BufferIsStream
<1>2. Len(buf) \in Nat /\ Len(sent) \in Nat
  BY <1>1, LenProperties
<1>3. /\ consumed \in Nat /\ received \in Nat /\ consumed <= received /\ received <= Len(sent)
      /\ next \in Nat /\ next >= 1 /\ next <= Len(buf) + 1 /\ received - consumed = Len(buf)
  BY <1>1, <1>2
<1>4. \A k \in 1 .. Len(buf) : buf[k] = sent[consumed + k]
  <2>1. \A k \in 1 .. received - consumed :
          SubSeq(sent, consumed + 1, received)[k] = sent[consumed + k]
    BY <1>1, <1>3, PieceOf
  <2> QED
    BY <1>1, <1>3, <2>1
<1>5. ASSUME NEW i \in 1 .. Len(buf) - 1
      PROVE  /\ buf[i] = sent[consumed + i] /\ buf[i + 1] = sent[consumed + i + 1]
             /\ consumed + i \in 1 .. Len(sent) - 1
  <2>1. i \in 1 .. Len(buf) /\ i + 1 \in 1 .. Len(buf) /\ consumed + (i + 1) = consumed + i + 1
    BY <1>2, <1>3
  <2> QED
    BY <1>2, <1>3, <1>4, <2>1
<1>6. \A i \in Crlf(buf) : consumed + i \in Crlf(sent)
  BY <1>5 DEF Crlf
<1>7. \A i \in 1 .. Len(buf) - 1 : consumed + i \in Crlf(sent) => i \in Crlf(buf)
  BY <1>5 DEF Crlf
<1> QED
  BY <1>1, <1>2, <1>3, <1>6, <1>7

\* The end of a line in the buffer is the first one behind Here.
LEMMA FirstEnd ==
  ASSUME StreamInv, NEW e \in next .. Len(buf), IsEnd(e)
  PROVE  /\ consumed + e \in Crlf(sent) /\ consumed + e >= Here
         /\ e \in Nat /\ e <= Len(buf) - 1
         /\ \A k \in Crlf(sent) : k >= Here => k >= consumed + e
<1>1. /\ e \in Crlf(buf) /\ e >= next /\ \A i \in Crlf(buf) : i >= next => e <= i
  BY DEF IsEnd
<1>2. e \in 1 .. Len(buf) - 1
  BY <1>1 DEF Crlf
<1>3. ASSUME NEW k \in Crlf(sent), k >= Here, k < consumed + e PROVE FALSE
  <2>1. k \in Nat
    BY <1>3, CrlfMoves, CrlfApart
  <2>2. k - consumed \in 1 .. Len(buf) - 1 /\ consumed + (k - consumed) = k
        /\ k - consumed >= next /\ k - consumed < e
    BY <1>2, <1>3, <2>1, CrlfMoves DEF Here
  <2>3. k - consumed \in Crlf(buf)
    BY <1>3, <2>2, CrlfMoves
  <2> QED
    BY <1>1, <1>2, <2>2, <2>3
<1>4. \A k \in Crlf(sent) : k \in Nat
  BY CrlfMoves, CrlfApart
<1>5. consumed + e \in Crlf(sent)
  BY <1>1, CrlfMoves
<1> QED
  BY <1>1, <1>2, <1>3, <1>4, <1>5, CrlfMoves DEF Here

\* A line that ends at e is a line of what was sent, and the only one that ends
\* between Here and the next.
LEMMA LineHere ==
  ASSUME OrderInv, NEW e \in next .. Len(buf), IsEnd(e)
  PROVE  /\ e > next => <<Here, consumed + e - 1>> \in LinesOf(sent)
         /\ \A l \in LinesOf(sent) :
              l[2] < consumed + e + 2 /\ ~(l[2] < Here)
                => e > next /\ l = <<Here, consumed + e - 1>>
<1> DEFINE K == Crlf(sent)
<1>1. StreamInv /\ (Here = 1 \/ Here - 2 \in K)
  BY DEF OrderInv
<1>2. /\ (consumed + e) \in K /\ (consumed + e) >= Here /\ e \in Nat /\ e <= Len(buf) - 1
      /\ \A k \in K : k >= Here => k >= (consumed + e)
  BY <1>1, FirstEnd
<1>3. /\ Len(sent) \in Nat /\ consumed \in Nat /\ next \in Nat /\ next >= 1
      /\ \A k \in K : k \in Nat /\ k >= 1 /\ k <= Len(sent) - 1 /\ k + 1 \notin K
  BY <1>1, CrlfMoves, CrlfApart
<1>4. Here \in Nat /\ Here >= 1 /\ (consumed + e) \in Nat /\ (consumed + e) >= 1 /\ (consumed + e) <= Len(sent) - 1
  <2>1. Here \in Nat /\ Here >= 1
    BY <1>3 DEF Here
  <2> HIDE DEF K
  <2> QED
    BY <1>2, <1>3, <2>1
<1>5. ASSUME e > next
      PROVE  <<Here, consumed + e - 1>> \in LinesOf(sent)
  <2>1. Here <= (consumed + e) - 1 /\ Here \in 1 .. Len(sent) /\ (consumed + e) - 1 \in 1 .. Len(sent) /\ ((consumed + e) - 1) + 1 = (consumed + e)
    BY <1>2, <1>3, <1>4, <1>5 DEF Here
  <2>2. \A i \in Here .. (consumed + e) - 1 : i \notin K
    BY <1>2, <1>4
  <2>3. PICK a \in Nat, b \in Nat : a = Here /\ b = (consumed + e) - 1
    BY <1>4, <2>1
  <2>4. <<a, b>> \in LinesOf(sent)
    <3>1. /\ <<a, b>> \in (1 .. Len(sent)) \X (1 .. Len(sent)) /\ a <= b
          /\ b + 1 \in K /\ \A i \in a .. b : i \notin K
      BY <1>2, <2>1, <2>2, <2>3
    <3>2. a = 1 \/ a - 2 \in K
      BY <1>1, <2>3
    <3> HIDE DEF K
    <3>3. \A l : l = <<a, b>> => l[1] = a /\ l[2] = b
      OBVIOUS
    <3> QED
      BY <3>1, <3>2, <3>3 DEF LinesOf, K
  <2> QED
    BY <1>2, <1>3, <1>4, <2>3, <2>4
<1>6. ASSUME NEW l \in LinesOf(sent), l[2] < consumed + e + 2, ~(l[2] < Here)
      PROVE  e > next /\ l = <<Here, consumed + e - 1>>
  <2>1. /\ l \in (1 .. Len(sent)) \X (1 .. Len(sent)) /\ l[1] <= l[2]
        /\ l[1] = 1 \/ l[1] - 2 \in K
        /\ l[2] + 1 \in K
        /\ \A i \in l[1] .. l[2] : i \notin K
    BY DEF LinesOf
  <2>2. PICK a \in 1 .. Len(sent), b \in 1 .. Len(sent) : l = <<a, b>>
    BY <2>1
  <2>3. /\ a \in Nat /\ b \in Nat /\ a >= 1 /\ a <= b /\ (a = 1 \/ a - 2 \in K)
        /\ b + 1 \in K /\ \A i \in a .. b : i \notin K
    BY <1>3, <2>1, <2>2
  <2>4. b < (consumed + e) + 2 /\ b >= Here
    BY <1>4, <1>6, <2>2, <2>3
  <2> HIDE DEF K
  <2>5. a = Here /\ b = (consumed + e) - 1
    BY <1>1, <1>2, <1>3, <1>4, <2>3, <2>4, OneLine
  <2>6. e > next
    BY <1>2, <1>3, <1>4, <2>3, <2>5 DEF Here
  <2> QED
    BY <1>2, <1>3, <1>4, <2>2, <2>3, <2>5, <2>6
<1> HIDE DEF K
<1> QED
  BY <1>5, <1>6

\* The lines of a text remain when a byte is added, and the CR LF too.
LEMMA LinesRemain ==
  ASSUME NEW s \in Seq(Byte), NEW b \in Byte
  PROVE  /\ \A k \in Nat : k <= Len(s) - 1 => (k \in Crlf(Append(s, b)) <=> k \in Crlf(s))
         /\ LinesOf(s) \subseteq LinesOf(Append(s, b))
         /\ \A l \in LinesOf(Append(s, b)) : l \in LinesOf(s) \/ l[2] + 1 = Len(s)
<1> DEFINE t == Append(s, b)
<1>1. Len(s) \in Nat /\ Len(t) = Len(s) + 1 /\ \A i \in 1 .. Len(s) : t[i] = s[i]
  BY LenProperties, AppendProperties
<1> HIDE DEF t
<1>2. ASSUME NEW k \in Nat, k <= Len(s) - 1 PROVE k \in Crlf(t) <=> k \in Crlf(s)
  <2>1. CASE k = 0
    BY <2>1 DEF Crlf
  <2>2. CASE k >= 1
    <3>1. k \in 1 .. Len(s) /\ k + 1 \in 1 .. Len(s) /\ k \in 1 .. Len(s) - 1 /\ k \in 1 .. Len(t) - 1
      BY <1>1, <1>2, <2>2
    <3>2. t[k] = s[k] /\ t[k + 1] = s[k + 1]
      BY <1>1, <3>1
    <3> QED
      BY <3>1, <3>2 DEF Crlf
  <2> QED
    BY <2>1, <2>2
<1>3. Crlf(s) \subseteq 1 .. Len(s) - 1 /\ Crlf(t) \subseteq 1 .. Len(s)
  BY <1>1 DEF Crlf
<1>4. ASSUME NEW a \in Nat, NEW z \in Nat, a >= 1, a <= z, z + 1 <= Len(s) - 1
      PROVE  /\ z + 1 \in Crlf(t) <=> z + 1 \in Crlf(s)
             /\ a # 1 => (a - 2 \in Crlf(t) <=> a - 2 \in Crlf(s))
             /\ \A i \in a .. z : i \in Crlf(t) <=> i \in Crlf(s)
  <2>1. z + 1 \in Nat
    OBVIOUS
  <2>2. ASSUME a # 1 PROVE a - 2 \in Nat /\ a - 2 <= Len(s) - 1
    BY <1>1, <1>4, <2>2
  <2>3. \A i \in a .. z : i \in Nat /\ i <= Len(s) - 1
    BY <1>1, <1>4
  <2> QED
    BY <1>2, <1>4, <2>1, <2>2, <2>3
<1>5. ASSUME NEW l \in LinesOf(s) PROVE l \in LinesOf(t)
  <2>1. /\ l \in (1 .. Len(s)) \X (1 .. Len(s)) /\ l[1] <= l[2]
        /\ l[1] = 1 \/ l[1] - 2 \in Crlf(s)
        /\ l[2] + 1 \in Crlf(s)
        /\ \A i \in l[1] .. l[2] : i \notin Crlf(s)
    BY <1>5 DEF LinesOf
  <2>2. /\ l[1] \in Nat /\ l[2] \in Nat /\ l[1] >= 1 /\ l[2] + 1 <= Len(s) - 1
    BY <1>1, <1>3, <2>1
  <2>3. l \in (1 .. Len(t)) \X (1 .. Len(t))
    <3>1. 1 .. Len(s) \subseteq 1 .. Len(t)
      BY <1>1
    <3> QED
      BY <2>1, <3>1
  <2> QED
    BY <1>4, <2>1, <2>2, <2>3 DEF LinesOf
<1>6. ASSUME NEW l \in LinesOf(t), l[2] + 1 # Len(s) PROVE l \in LinesOf(s)
  <2>1. /\ l \in (1 .. Len(t)) \X (1 .. Len(t)) /\ l[1] <= l[2]
        /\ l[1] = 1 \/ l[1] - 2 \in Crlf(t)
        /\ l[2] + 1 \in Crlf(t)
        /\ \A i \in l[1] .. l[2] : i \notin Crlf(t)
    BY <1>6 DEF LinesOf
  <2>2. l[1] \in Nat /\ l[2] \in Nat /\ l[1] >= 1
    BY <1>1, <2>1
  <2>3. l[2] + 1 <= Len(s) - 1
    BY <1>1, <1>3, <1>6, <2>1, <2>2
  <2>4. l \in (1 .. Len(s)) \X (1 .. Len(s))
    <3>1. l[1] \in 1 .. Len(s) /\ l[2] \in 1 .. Len(s)
      BY <1>1, <2>1, <2>2, <2>3
    <3> QED
      BY <2>1, <3>1
  <2> QED
    BY <1>4, <2>1, <2>2, <2>3, <2>4 DEF LinesOf
<1> QED
  BY <1>2, <1>5, <1>6 DEF t

\* A line cannot come to its end at n when the next one begins behind it.
LEMMA NoneBefore ==
  ASSUME NEW K, \A k \in K : k \in Nat /\ k >= 1 /\ k + 1 \notin K,
         NEW n \in K, \A k \in K : k <= n,
         NEW p \in Nat, p >= 1, p = 1 \/ p - 2 \in K, p <= n + 1,
         NEW a \in Nat, NEW b \in Nat, a >= 1, a <= b, a = 1 \/ a - 2 \in K,
         b + 1 = n, \A i \in a .. b : i \notin K, b < p
  PROVE  FALSE
<1>1. n \in Nat /\ p >= n /\ p # 1
  OBVIOUS
<1>2. p - 2 \in K
  BY <1>1
<1>3. CASE p = n + 1
  <2>1. p - 2 = n - 1 /\ (n - 1) + 1 = n
    BY <1>1, <1>3
  <2> QED
    BY <1>2, <2>1
<1>4. CASE p = n
  <2>1. p - 2 \notin a .. b /\ p - 2 <= b
    BY <1>1, <1>2, <1>4
  <2>2. a = p - 1
    BY <1>1, <1>4, <2>1
  <2>3. CASE a = 1
    <3>1. p - 2 = 0
      BY <2>2, <2>3
    <3> QED
      BY <1>2, <3>1
  <2>4. CASE a - 2 \in K
    <3>1. (a - 2) + 1 = p - 2
      BY <2>2
    <3> QED
      BY <1>2, <2>4, <3>1
  <2> QED
    BY <2>3, <2>4
<1> QED
  BY <1>1, <1>3, <1>4

\* What the client adds ends no line before Here.
LEMMA SendOrder ==
  ASSUME OrderInv, Send
  PROVE  LinesInOrder' /\ (Here' = 1 \/ Here' - 2 \in Crlf(sent'))
<1>1. PICK b \in Byte : sent' = Append(sent, b)
  BY DEF Send
<1>2. UNCHANGED <<phase, buf, next, received, consumed, executed>> /\ Here' = Here
  BY DEF Send, History, Here
<1>3. /\ sent \in Seq(Byte) /\ Len(sent) \in Nat /\ Here \in Nat /\ Here >= 1
      /\ Here <= Len(sent) + 1 /\ (Here = 1 \/ Here - 2 \in Crlf(sent))
  <2>1. StreamInv /\ (Here = 1 \/ Here - 2 \in Crlf(sent))
    BY DEF OrderInv
  <2> QED
    BY <2>1, CrlfMoves DEF Here
<1>4. Append(sent, b) \in Seq(Byte) /\ Len(Append(sent, b)) = Len(sent) + 1
  BY <1>3, AppendProperties
<1> DEFINE t == Append(sent, b)
           K == Crlf(t)
           n == Len(sent)
<1>5. /\ \A k \in K : k \in Nat /\ k >= 1 /\ k <= n /\ k + 1 \notin K
      /\ n \in Nat
  <2>1. \A k \in Crlf(t) : k \in Nat /\ k >= 1 /\ k <= Len(t) - 1 /\ k + 1 \notin Crlf(t)
    BY <1>4, CrlfApart
  <2> QED
    BY <1>3, <1>4, <2>1
<1>6. Here = 1 \/ Here - 2 \in K
  <2>1. \A k \in Crlf(sent) : k \in Nat /\ k <= Len(sent) - 1
    BY <1>3, CrlfApart
  <2> QED
    BY <1>3, <2>1, LinesRemain
<1>7. ASSUME NEW l \in LinesOf(t), l[2] < Here PROVE l \in LinesOf(sent)
  <2> SUFFICES ASSUME l[2] + 1 = n PROVE FALSE
    BY <1>3, LinesRemain
  <2>1. /\ l \in (1 .. Len(t)) \X (1 .. Len(t)) /\ l[1] <= l[2]
        /\ l[1] = 1 \/ l[1] - 2 \in K
        /\ l[2] + 1 \in K
        /\ \A i \in l[1] .. l[2] : i \notin K
    BY <1>7 DEF LinesOf
  <2>2. PICK a \in 1 .. Len(t), z \in 1 .. Len(t) : l = <<a, z>>
    BY <2>1
  <2>3. /\ a \in Nat /\ z \in Nat /\ a >= 1 /\ a <= z /\ (a = 1 \/ a - 2 \in K)
        /\ z + 1 \in K /\ \A i \in a .. z : i \notin K
        /\ z < Here /\ z + 1 = n
    BY <1>3, <1>4, <1>7, <2>1, <2>2
  <2> HIDE DEF K, t, n
  <2>4. n \in K
    BY <2>3
  <2> QED
    BY <1>3, <1>5, <1>6, <2>3, <2>4, NoneBefore DEF n
<1>8. LinesOf(sent) \subseteq LinesOf(t)
  BY <1>3, LinesRemain
<1>9. LinesInOrder
  BY DEF OrderInv
<1>10. Here = consumed + next /\ consumed' + next' = Here /\ executed' = executed /\ sent' = t
  BY <1>1, <1>2 DEF Here
<1> HIDE DEF t, K
<1>11. LinesInOrder'
  BY <1>7, <1>8, <1>9, <1>10 DEF LinesInOrder
<1> QED
  BY <1>2, <1>6, <1>10, <1>11 DEF K

\* A sequence of lines and one more.
LEMMA OneMore ==
  ASSUME NEW S, NEW q \in Seq(S), NEW x \in S
  PROVE  LET r == Append(q, x) IN
         /\ \A k \in DOMAIN q : k \in DOMAIN r /\ r[k] = q[k]
         /\ \A k \in DOMAIN r : (k \in DOMAIN q \/ k = Len(q) + 1)
         /\ Len(q) + 1 \in DOMAIN r /\ r[Len(q) + 1] = x
         /\ \A k \in DOMAIN r : k \in DOMAIN q => k <= Len(q) /\ k \in Nat
         /\ Len(q) \in Nat
<1>1. Len(q) \in Nat /\ DOMAIN q = 1 .. Len(q)
  BY LenProperties
<1>2. /\ Append(q, x) \in Seq(S) /\ Len(Append(q, x)) = Len(q) + 1
      /\ \A k \in 1 .. Len(q) : Append(q, x)[k] = q[k]
      /\ Append(q, x)[Len(q) + 1] = x
  BY AppendProperties
<1>3. DOMAIN Append(q, x) = 1 .. Len(q) + 1
  BY <1>2, LenProperties
<1> QED
  BY <1>1, <1>2, <1>3

\* A line that is executed is the next one, and the only one up to the next.
LEMMA ExecuteOrder ==
  ASSUME OrderInv, phase # "closed", NEW e \in next .. Len(buf), IsEnd(e), e > next,
         NEW h, consumed' + next' = h, h = Here \/ h = consumed + e + 2,
         UNCHANGED sent, executed' = Append(executed, <<Here, consumed + e - 1>>)
  PROVE  /\ LinesInOrder'
         /\ \A k \in DOMAIN executed' : executed'[k][2] < consumed + e
<1>1. StreamInv /\ LinesInOrder /\ \A k \in DOMAIN executed : executed[k][2] < Here
  BY DEF OrderInv
<1>2. /\ consumed \in Nat /\ next \in Nat /\ e \in Nat /\ Here \in Nat
      /\ Here < consumed + e /\ Here = consumed + next
  BY <1>1, CrlfMoves, FirstEnd DEF Here
<1> DEFINE S == (1 .. MaxSent) \X (0 .. MaxSent)
           x == <<Here, consumed + e - 1>>
<1>3. executed \in Seq(S) /\ executed' \in Seq(S)
  BY <1>1, LineType DEF StreamInv, ChannelTypeOK, Here
<1>4. x \in LinesOf(sent)
  BY LineHere
<1>5. x \in S
  <2>1. x \in (1 .. Len(sent)) \X (1 .. Len(sent))
    BY <1>4 DEF LinesOf
  <2>2. Len(sent) \in Nat /\ Len(sent) <= MaxSent
    BY <1>1, CrlfMoves DEF StreamInv, ChannelTypeOK
  <2>3. 1 .. Len(sent) \subseteq 1 .. MaxSent /\ 1 .. Len(sent) \subseteq 0 .. MaxSent
    BY <2>2, MaxSentAssumption
  <2> HIDE DEF x
  <2> QED
    BY <2>1, <2>3
<1>6. x[1] = Here /\ x[2] < consumed + e
  BY <1>2
<1>7. \A l \in LinesOf(sent) : l[2] < h => l[2] < Here \/ l = x
  BY LineHere
<1> HIDE DEF x, S
<1>8. /\ \A k \in DOMAIN executed : k \in DOMAIN executed' /\ executed'[k] = executed[k]
      /\ \A k \in DOMAIN executed' : (k \in DOMAIN executed \/ k = Len(executed) + 1)
      /\ Len(executed) + 1 \in DOMAIN executed' /\ executed'[Len(executed) + 1] = x
      /\ \A k \in DOMAIN executed' : k \in DOMAIN executed => k <= Len(executed) /\ k \in Nat
      /\ Len(executed) \in Nat
  BY <1>3, <1>5, OneMore DEF x
<1>9. {executed'[k] : k \in DOMAIN executed'} = {executed[k] : k \in DOMAIN executed} \cup {x}
  BY <1>8
<1>10. \A k \in DOMAIN executed' : executed'[k][2] < consumed + e
  <2> SUFFICES ASSUME NEW k \in DOMAIN executed' PROVE executed'[k][2] < consumed + e
    OBVIOUS
  <2>1. CASE k \in DOMAIN executed
    <3>1. executed[k] \in S /\ executed'[k] = executed[k] /\ executed[k][2] < Here
      BY <1>1, <1>3, <1>8, <2>1, ElementOfSeq, LenProperties
    <3>2. executed[k][2] \in Nat
      BY <3>1, MaxSentAssumption DEF S
    <3> QED
      BY <1>2, <3>1, <3>2
  <2>2. CASE k = Len(executed) + 1
    BY <1>6, <1>8, <2>2
  <2> QED
    BY <1>8, <2>1, <2>2
<1>11. ASSUME NEW j \in DOMAIN executed', NEW k \in DOMAIN executed', j < k
       PROVE  executed'[j][2] < executed'[k][1]
  <2>1. CASE k \in DOMAIN executed
    <3>1. k \in Nat /\ k <= Len(executed)
      BY <1>8, <2>1
    <3>2. j # Len(executed) + 1
      BY <1>8, <1>11, <3>1
    <3>3. j \in DOMAIN executed
      BY <1>8, <3>2
    <3>4. executed[j][2] < executed[k][1]
      BY <1>1, <1>11, <2>1, <3>3 DEF LinesInOrder
    <3> QED
      BY <1>8, <2>1, <3>3, <3>4
  <2>2. CASE k = Len(executed) + 1
    <3>1. j # Len(executed) + 1
      BY <1>8, <1>11, <2>2
    <3>2. j \in DOMAIN executed
      BY <1>8, <3>1
    <3> QED
      BY <1>1, <1>6, <1>8, <2>2, <3>2
  <2> QED
    BY <1>8, <2>1, <2>2
<1>12. {executed[k] : k \in DOMAIN executed} \subseteq LinesOf(sent)
  BY <1>1 DEF LinesInOrder
<1>13. \A l \in LinesOf(sent) : l[2] < Here => l \in {executed[k] : k \in DOMAIN executed}
  BY <1>1, <1>2 DEF LinesInOrder
<1>14. LinesInOrder'
  <2>1. {executed'[k] : k \in DOMAIN executed'} \subseteq LinesOf(sent)
    BY <1>4, <1>9, <1>12
  <2>2. \A l \in LinesOf(sent) : l[2] < h => l \in {executed'[k] : k \in DOMAIN executed'}
    BY <1>7, <1>9, <1>13
  <2> QED
    BY <1>11, <2>1, <2>2 DEF LinesInOrder
<1> QED
  BY <1>10, <1>14

\* The rest of OrderInv, when what was sent and executed and the next line
\* stay as they are.
LEMMA SameOrder ==
  ASSUME OrderInv, UNCHANGED <<sent, executed>>, Here' = Here,
         phase' # "closed" => phase # "closed", phase' = "read" => next' = 1, StreamInv'
  PROVE  OrderInv'
<1>1. consumed' + next' = consumed + next
  BY DEF Here
<1>2. LinesInOrder'
  BY <1>1 DEF OrderInv, LinesInOrder
<1>3. Here' = 1 \/ Here' - 2 \in Crlf(sent')
  BY DEF OrderInv
<1> QED
  BY <1>2, <1>3 DEF OrderInv

LEMMA OrderStep == ASSUME OrderInv, [ChannelNext]_channelVars PROVE OrderInv'
<1>1. StreamInv /\ StreamInv'
  BY StreamStep DEF OrderInv
<1>2. /\ consumed \in Nat /\ next \in Nat /\ Here = consumed + next /\ Here \in Nat
  BY <1>1, CrlfMoves DEF Here
<1>3. CASE Send
  <2>1. LinesInOrder' /\ (Here' = 1 \/ Here' - 2 \in Crlf(sent'))
    BY <1>3, SendOrder
  <2>2. UNCHANGED <<phase, next, executed>> /\ Here' = Here
    BY <1>3 DEF Send, History, Here
  <2> QED
    BY <1>1, <2>1, <2>2 DEF OrderInv
<1>4. CASE Read
  <2>1. /\ UNCHANGED <<sent, executed, consumed>> /\ phase = "read"
        /\ (phase' = "closed" /\ UNCHANGED next) \/ (phase' = "lines" /\ next' = 1)
    BY <1>4 DEF Read, Close, Sender
  <2>2. next = 1
    BY <2>1 DEF OrderInv
  <2>3. Here' = Here
    BY <2>1, <2>2 DEF Here
  <2> QED
    BY <1>1, <2>1, <2>3, SameOrder
<1>5. CASE ReadEnd \/ TooLong \/ BareLineFeed \/ TransferFails
  <2>1. UNCHANGED <<sent, executed, consumed, next>> /\ phase' = "closed"
    BY <1>5 DEF ReadEnd, TooLong, BareLineFeed, TransferFails, Close, Sender, History
  <2> QED
    BY <1>1, <2>1, SameOrder DEF Here
<1>6. CASE TransferEnds \/ Closed \/ UNCHANGED channelVars
  <2>1. UNCHANGED <<sent, executed, consumed, next, phase>>
    BY <1>6 DEF TransferEnds, Closed, channelVars, Sender
  <2> QED
    BY <1>1, <2>1, SameOrder DEF Here, OrderInv
<1>7. CASE Compact
  <2>1. /\ UNCHANGED <<sent, executed>> /\ consumed' = consumed + next - 1 /\ next' = 1
        /\ phase = "lines"
    BY <1>7 DEF Compact, Sender, History
  <2>2. Here' = Here
    BY <1>2, <2>1 DEF Here
  <2> QED
    BY <1>1, <2>1, <2>2, SameOrder
<1>8. CASE ExecuteEnds
  <2>1. PICK e \in next + 1 .. Len(buf) :
          /\ IsEnd(e)
          /\ executed' = Append(executed, <<Here, consumed + e - 1>>)
    BY <1>8 DEF ExecuteEnds, Here
  <2>2. UNCHANGED <<sent, consumed, next>> /\ phase' = "closed" /\ phase = "lines"
    BY <1>8 DEF ExecuteEnds, Close, Sender
  <2>3. e \in next .. Len(buf) /\ e > next
    BY <1>1, <1>2, CrlfMoves
  <2>4. LinesInOrder'
    BY <2>1, <2>2, <2>3, ExecuteOrder DEF Here
  <2>5. Here' = Here
    BY <2>2 DEF Here
  <2> QED
    BY <1>1, <2>2, <2>4, <2>5 DEF OrderInv
<1>9. CASE Execute
  <2>1. PICK e \in next .. Len(buf) :
          /\ IsEnd(e) /\ next' = e + 2
          /\ e > next => executed' = Append(executed, <<Here, consumed + e - 1>>)
          /\ ~(e > next) => executed' = executed
    BY <1>9 DEF Execute, NextLine, Here
  <2>2. UNCHANGED <<phase, sent, consumed>> /\ phase = "lines"
    BY <1>9 DEF Execute, Sender
  <2>3. /\ consumed + e \in Crlf(sent) /\ e \in Nat /\ consumed + e >= Here
    BY <1>1, <2>1, FirstEnd
  <2>4. Here' = consumed + e + 2 /\ (Here' - 2) = consumed + e
    BY <1>2, <2>1, <2>2, <2>3 DEF Here
  <2>5. CASE e > next
    <3>1. /\ LinesInOrder'
          /\ \A k \in DOMAIN executed' : executed'[k][2] < consumed + e
      BY <2>1, <2>2, <2>4, <2>5, ExecuteOrder DEF Here
    <3>2. executed' \in Seq((1 .. MaxSent) \X (0 .. MaxSent))
      BY <1>1 DEF StreamInv, ChannelTypeOK
    <3>3. ASSUME NEW k \in DOMAIN executed' PROVE executed'[k][2] < Here'
      <4>1. executed'[k] \in (1 .. MaxSent) \X (0 .. MaxSent)
        BY <3>2, ElementOfSeq, LenProperties
      <4>2. executed'[k][2] \in Nat
        BY <4>1, MaxSentAssumption
      <4> QED
        BY <1>2, <2>3, <2>4, <3>1, <4>2
    <3> QED
      BY <1>1, <2>2, <2>3, <2>4, <3>1, <3>3 DEF OrderInv
  <2>6. CASE ~(e > next)
    <3>1. \A l \in LinesOf(sent) : l[2] < consumed + e + 2 => l[2] < Here
      BY <2>1, <2>6, LineHere
    <3>2. LinesInOrder /\ \A k \in DOMAIN executed : executed[k][2] < Here
      BY <2>2 DEF OrderInv
    <3>3. LinesInOrder'
      <4>1. consumed' + next' = consumed + e + 2
        BY <2>4 DEF Here
      <4>2. \A l \in LinesOf(sent) : l[2] < consumed' + next' => l[2] < consumed + next
        BY <1>2, <3>1, <4>1
      <4> QED
        BY <2>1, <2>2, <2>6, <3>2, <4>2 DEF LinesInOrder
    <3>4. executed \in Seq((1 .. MaxSent) \X (0 .. MaxSent))
      BY <1>1 DEF StreamInv, ChannelTypeOK
    <3>5. ASSUME NEW k \in DOMAIN executed PROVE executed[k][2] < Here'
      <4>1. executed[k] \in (1 .. MaxSent) \X (0 .. MaxSent)
        BY <3>4, ElementOfSeq, LenProperties
      <4>2. executed[k][2] \in Nat
        BY <4>1, MaxSentAssumption
      <4> QED
        BY <1>2, <2>3, <2>4, <3>2, <4>2
    <3> QED
      BY <1>1, <2>1, <2>2, <2>3, <2>4, <2>6, <3>3, <3>5 DEF OrderInv
  <2> QED
    BY <2>5, <2>6
<1> QED
  BY <1>3, <1>4, <1>5, <1>6, <1>7, <1>8, <1>9 DEF ChannelNext, Server, Lines

LEMMA InitOrder == ChannelInit => OrderInv
<1> SUFFICES ASSUME ChannelInit PROVE OrderInv
  OBVIOUS
<1>1. StreamInv
  BY InitStream
<1>2. Here = 1 /\ phase = "read" /\ next = 1 /\ DOMAIN executed = {} /\ Len(sent) = 0
  BY DEF ChannelInit, Here
<1>3. LinesOf(sent) = {}
  BY <1>2 DEF LinesOf
<1>4. LinesInOrder
  BY <1>2, <1>3 DEF LinesInOrder
<1> QED
  BY <1>1, <1>2, <1>4 DEF OrderInv

\* The commands of process_control_events are the lines the client has sent,
\* each once, in the order sent and none passed over, whatever pieces recv()
\* delivers and however long the buffer is.
THEOREM LinesAreExecuted == ChannelSpec => []LinesInOrder
<1>1. OrderInv => LinesInOrder
  BY DEF OrderInv
<1> QED
  BY <1>1, InitOrder, OrderStep, PTL DEF ChannelSpec

=============================================================================
