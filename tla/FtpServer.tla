------------------------------ MODULE FtpServer ------------------------------
(***************************************************************************)
(* The FTP engine of WiiUFtpServer: the single-threaded event loop of      *)
(* main.c and ftp.c (accept, then visit the connection slots in order, then *)
(* the buttons), the data connection of every slot, and the transfer       *)
(* threads that run beside the loop on other cores.                        *)
(*                                                                         *)
(* A connection_t is a slot of the preallocated array connections[0..NB].  *)
(* Sockets are members of Fd; a descriptor that was closed may be handed   *)
(* out again.  Time is not counted: OSGetTime() > data_connection_timer is *)
(* a choice of the step that reads it.                                     *)
(***************************************************************************)
EXTENDS Integers, FiniteSets

CONSTANTS
  NB,        \* NB_SIMULTANEOUS_TRANSFERS: the last slot
  Fd,        \* socket descriptors the network stack can hand out
  NoFd,      \* the -1 (or error code) of a field that holds no socket
  Client,    \* addresses that connect
  NoClient,  \* "UNKNOWN_CLIENT"
  Command,   \* the commands the client uses, of those modelled here
  W          \* modulus of uint32_t

ASSUME NBAssumption == NB \in Nat
ASSUME FdAssumption == NoFd \notin Fd
ASSUME ClientAssumption == NoClient \notin Client
ASSUME WAssumption == W \in Nat /\ W > NB + 1

VARIABLES
  pc,         \* where the main thread is
  cur,        \* connection_index of the loop over the slots
  active,     \* activeConnectionsNumber
  xfers,      \* activeTransfersNumber
  clientIp,
  conn,       \* connections[i]
  thread,     \* connections[i]->transferThread: what it is executing
  fds,        \* descriptors open in the network stack
  stop,       \* history: why the main loop was left
  clobbered,  \* history: slots that were reset while a client was using them
  staleClose  \* history: some field kept a descriptor after closing it

vars == <<pc, cur, active, xfers, clientIp, conn, thread, fds,
          stop, clobbered, staleClose>>

Slots == 0 .. NB
FdOrNone == Fd \cup {NoFd}

\* The data_callback of a slot: send_list / send_nlst, or transfer.
Callback == {"none", "list", "transfer"}

\* connection_t.  started is dataTransferOffset # -1, moving is
\* bytesTransferred > 0; file is f (NULL, open, or closed and still pointed
\* to), vol is volPath.
Connection ==
  [sock : FdOrNone, passive : FdOrNone, data : FdOrNone,
   auth : BOOLEAN, connected : BOOLEAN, cb : Callback,
   file : {"null", "open", "closed"}, vol : {"null", "alloc", "freed"},
   started : BOOLEAN, moving : BOOLEAN]

ThreadState == {"none", "send", "recv", "done"}

\* resetConnection, and socket = -1
FreshConnection ==
  [sock |-> NoFd, passive |-> NoFd, data |-> NoFd,
   auth |-> FALSE, connected |-> FALSE, cb |-> "none",
   file |-> "null", vol |-> "null", started |-> FALSE, moving |-> FALSE]

Used == {i \in Slots : conn[i].sock # NoFd}
Serving == pc \in {"accept", "slots", "join", "buttons"}
Running(i) == thread[i] \in {"send", "recv"}

(***************************************************************************)
(* Helpers of the handlers.                                                *)
(***************************************************************************)

\* write_reply can succeed only on a socket that is open.
CanReply(i, ok) == ok => conn[i].sock \in fds

\* The uint32_t decrement of closeTransferredFile, which the cleanup of a
\* transfer calls whether or not transfer() ever ran.
Decremented(n, c) == IF c.cb = "transfer" THEN (n + W - 1) % W ELSE n

\* activeTransfersNumber++ of transfer()
Incremented(n) == (n + 1) % W

\* cleanup_data_resources: the descriptors it closes ...
DataFdsForgotten(c) == {}   \* (faulty: the data socket is not closed)
DataFds(c) == {c.data} \ {c.passive}

\* ... and the slot it leaves.
DataCleanedOffsetKept(c) ==   \* (faulty: dataTransferOffset is not reset)
  [c EXCEPT !.data = NoFd, !.connected = FALSE,
            !.cb = "none", !.file = "null",
            !.vol = IF c.cb = "transfer" /\ @ = "alloc" THEN "freed" ELSE @]
DataCleaned(c) ==
  [c EXCEPT !.data = NoFd, !.connected = FALSE, !.started = FALSE,
            !.cb = "none", !.file = "null",
            !.vol = IF c.cb = "transfer" /\ @ = "alloc" THEN "freed" ELSE @]

\* close_passive_socket
PassiveKept(c) == c   \* (faulty: passive_socket is not set to -1)
PassiveClosed(c) == [c EXCEPT !.passive = NoFd]

\* activeConnectionsNumber after cleanup_connection
OneLess(n) == IF n >= 1 THEN n - 1 ELSE n

\* cleanup_connection, when activeTransfersNumber is n
CleanupSocketKept(i, n) ==   \* (faulty: socket is not set to -1)
  /\ fds' = fds \ {conn[i].sock, conn[i].data, conn[i].passive}
  /\ conn' = [conn EXCEPT ![i] = [FreshConnection EXCEPT !.sock = conn[i].sock]]
  /\ active' = OneLess(active)
  /\ xfers' = Decremented(n, conn[i])
CleanupConnection(i, n) ==
  /\ fds' = fds \ {conn[i].sock, conn[i].data, conn[i].passive}
  /\ conn' = [conn EXCEPT ![i] = FreshConnection]
  /\ active' = OneLess(active)
  /\ xfers' = Decremented(n, conn[i])

\* The loop goes on with the next slot, or with the buttons after the last.
NextSlot ==
  IF cur < NB THEN pc' = "slots" /\ cur' = cur + 1
              ELSE pc' = "buttons" /\ cur' = 0

Leave(reason) == pc' = "exit" /\ cur' = 0 /\ stop' = reason

(***************************************************************************)
(* processConnections                                                      *)
(***************************************************************************)

ServerFull == active > NB

GotoSlots == pc' = "slots" /\ cur' = 0

\* The maximum number of connections is reached, or nobody is waiting.
AcceptNothing ==
  /\ pc = "accept"
  /\ GotoSlots
  /\ UNCHANGED <<active, xfers, clientIp, conn, thread, fds, stop,
                 clobbered, staleClose>>

\* accept failed: the first used slot is told, and write_reply's 0 (success)
\* is returned as false, which stops the server; its failure keeps it running.
KeepsRunning(ok) == ~ok
AcceptError ==
  /\ pc = "accept" /\ ~ServerFull
  /\ \/ Used = {} /\ Leave("uninformed")
     \/ /\ Used # {}
        /\ LET first == CHOOSE i \in Used : \A j \in Used : i <= j IN
           \E ok \in BOOLEAN :
             /\ CanReply(first, ok)
             /\ IF KeepsRunning(ok)
                  THEN GotoSlots /\ UNCHANGED stop
                  ELSE Leave(IF ok THEN "informed" ELSE "uninformed")
  /\ UNCHANGED <<active, xfers, clientIp, conn, thread, fds,
                 clobbered, staleClose>>

\* The slot a new connection gets.
NewSlot == active

\* A peer with the address of the client (the first peer ever accepted sets
\* it) takes the slot connections[activeConnectionsNumber], whatever that
\* slot holds, and is greeted; if the greeting fails the server stops.
Accept(c, fd) ==
  /\ pc = "accept" /\ ~ServerFull
  /\ fd \notin fds
  /\ clientIp \in {NoClient, c}
  /\ clientIp' = c
  /\ clobbered' = IF conn[NewSlot].sock # NoFd
                    THEN clobbered \cup {NewSlot} ELSE clobbered
  /\ \/ /\ conn' = [conn EXCEPT ![NewSlot] = [FreshConnection EXCEPT !.sock = fd]]
        /\ fds' = fds \cup {fd}
        /\ active' = active + 1
        /\ GotoSlots
        /\ UNCHANGED stop
     \/ /\ conn' = [conn EXCEPT ![NewSlot] = FreshConnection]
        /\ Leave("greeting")
        /\ UNCHANGED <<fds, active>>
  /\ UNCHANGED <<xfers, thread, staleClose>>

\* A peer with another address is closed at once; the loop accepts again.
Refuse(c) ==
  /\ pc = "accept" /\ ~ServerFull
  /\ clientIp \notin {NoClient, c}
  /\ UNCHANGED vars

(***************************************************************************)
(* process_control_events: the loop over the commands of one slot.  A      *)
(* command that leaves no data_callback keeps the loop on the slot.        *)
(***************************************************************************)

VisitControl(i) ==
  pc = "slots" /\ cur = i /\ conn[i].sock # NoFd /\ conn[i].cb = "none"

SkipSlot(i) ==
  /\ pc = "slots" /\ cur = i /\ conn[i].sock = NoFd
  /\ NextSlot
  /\ UNCHANGED <<active, xfers, clientIp, conn, thread, fds, stop,
                 clobbered, staleClose>>

\* network_read returns -EAGAIN.
ControlIdle(i) ==
  /\ VisitControl(i) /\ conn[i].sock \in fds
  /\ NextSlot
  /\ UNCHANGED <<active, xfers, clientIp, conn, thread, fds, stop,
                 clobbered, staleClose>>

\* End of file, a read error, a line the server rejects, QUIT, or a command
\* whose reply could not be written.
ControlClose(i) ==
  /\ VisitControl(i)
  /\ CleanupConnection(i, xfers)
  /\ NextSlot
  /\ UNCHANGED <<clientIp, thread, stop, clobbered, staleClose>>

\* A command that changes the slot, is answered, and sets no callback.
Answered(i, c) ==
  /\ CanReply(i, TRUE)
  /\ conn' = [conn EXCEPT ![i] = c]
  /\ UNCHANGED <<pc, cur, active, xfers, clientIp, thread, stop, clobbered>>

\* PASS with the right password, or with any when none is set
PASS(i) ==
  /\ VisitControl(i)
  /\ Answered(i, [conn[i] EXCEPT !.auth = TRUE])
  /\ UNCHANGED <<fds, staleClose>>

REIN(i) ==
  /\ "REIN" \in Command
  /\ VisitControl(i)
  /\ Answered(i, [PassiveClosed(conn[i]) EXCEPT !.auth = FALSE])
  /\ fds' = fds \ {conn[i].passive}
  /\ UNCHANGED staleClose

\* The old passive socket is closed; a new one is created, bound and listened
\* on, or (421) none is left.
PASV(i) ==
  /\ "PASV" \in Command
  /\ VisitControl(i) /\ conn[i].auth
  /\ LET rest == fds \ {conn[i].passive} IN
     \E fd \in (Fd \ rest) \cup {NoFd} :
       /\ Answered(i, [conn[i] EXCEPT !.passive = fd])
       /\ fds' = (rest \cup {fd}) \ {NoFd}
  /\ UNCHANGED staleClose

PORT(i) ==
  /\ "PORT" \in Command
  /\ VisitControl(i) /\ conn[i].auth
  /\ Answered(i, PassiveClosed(conn[i]))
  /\ fds' = fds \ {conn[i].passive}
  /\ UNCHANGED staleClose

(***************************************************************************)
(* prepare_data_connection, on the slot c as its command handler left it.  *)
(***************************************************************************)

Prepared(c, cb, data) ==
  [c EXCEPT !.data = data, !.cb = cb, !.connected = FALSE]

\* Passive: the data socket is the listening one until somebody connects.
PreparePassive(i, c, cb) ==
  /\ c.passive # NoFd
  /\ conn' = [conn EXCEPT ![i] = Prepared(c, cb, c.passive)]
  /\ NextSlot
  /\ UNCHANGED <<active, xfers, fds, staleClose>>

\* Active: a new socket, or none when network_socket fails and the 421 is
\* delivered (its 0 is then taken for success), or one that bind refused and
\* that is closed but still recorded.
PrepareActive(i, c, cb) ==
  /\ c.passive = NoFd
  /\ NextSlot
  /\ \E fd \in (Fd \ fds) \cup {NoFd} :
       /\ conn' = [conn EXCEPT ![i] = Prepared(c, cb, fd)]
       /\ \/ fds' = (fds \cup {fd}) \ {NoFd} /\ UNCHANGED staleClose
          \/ fd # NoFd /\ staleClose' = TRUE /\ UNCHANGED fds
  /\ UNCHANGED <<active, xfers>>

\* Active: no socket, or one that bind refused; the 421 fails, but the 520
\* that follows is delivered: the command succeeds without a data connection
\* and without closing f.
PrepareLost(i, c) ==
  /\ c.passive = NoFd
  /\ \E fd \in (Fd \ fds) \cup {NoFd} :
       /\ conn' = [conn EXCEPT ![i] = [c EXCEPT !.data = fd]]
       /\ staleClose' = (staleClose \/ fd # NoFd)
  /\ UNCHANGED <<pc, cur, active, xfers, fds>>

\* A reply fails: the command returns an error and the slot is cleaned up.
PrepareFailed(i) ==
  /\ CleanupConnection(i, xfers)
  /\ NextSlot
  /\ UNCHANGED staleClose

PrepareDataConnection(i, c, cb) ==
  /\ \/ CanReply(i, TRUE) /\ PreparePassive(i, c, cb)
     \/ CanReply(i, TRUE) /\ PrepareActive(i, c, cb)
     \/ CanReply(i, TRUE) /\ PrepareLost(i, c)
     \/ PrepareFailed(i)
  /\ UNCHANGED <<clientIp, thread, stop, clobbered>>

\* LIST and NLST on a directory that opens
LIST(i) ==
  /\ "LIST" \in Command
  /\ VisitControl(i) /\ conn[i].auth
  /\ PrepareDataConnection(i, conn[i], "list")

\* The file cannot be opened, or (RETR) the restart offset cannot be reached:
\* f is then closed but not forgotten.
OpenFailed(i, file, vol) ==
  /\ Answered(i, [conn[i] EXCEPT !.file = file, !.vol = vol])
  /\ UNCHANGED <<fds, staleClose>>

RETR(i) ==
  /\ "RETR" \in Command
  /\ VisitControl(i) /\ conn[i].auth
  /\ \/ OpenFailed(i, "null", conn[i].vol)
     \/ OpenFailed(i, "closed", conn[i].vol)
     \/ PrepareDataConnection(i, [conn[i] EXCEPT !.file = "open", !.vol = "null"],
                              "transfer")

\* STOR and APPE.  volPath is NULL when virtualToVolPath runs out of memory.
STOR(i) ==
  /\ "STOR" \in Command
  /\ VisitControl(i) /\ conn[i].auth
  /\ \E vol \in {"alloc", "null"} :
       \/ OpenFailed(i, "null", vol)
       \/ PrepareDataConnection(i, [conn[i] EXCEPT !.file = "open", !.vol = vol],
                                "transfer")

(***************************************************************************)
(* process_data_events                                                     *)
(***************************************************************************)

VisitData(i) ==
  pc = "slots" /\ cur = i /\ conn[i].sock # NoFd /\ conn[i].cb # "none"
ConnectingOrConnected(i) == VisitData(i)   \* (faulty: the timer is never disarmed)
Connecting(i) == VisitData(i) /\ ~conn[i].connected
Connected(i) == VisitData(i) /\ conn[i].connected

\* The visit changes nothing: no peer yet (-EAGAIN), or a connect still in
\* progress after its retries, or a transfer that is moving.
Poll(i) ==
  /\ NextSlot
  /\ UNCHANGED <<active, xfers, clientIp, conn, thread, fds, stop,
                 clobbered, staleClose>>

DataWait(i) == Connecting(i) /\ Poll(i)

DataAccept(i, fd) ==
  /\ Connecting(i) /\ conn[i].passive # NoFd /\ fd \notin fds
  /\ conn' = [conn EXCEPT ![i].data = fd, ![i].connected = TRUE]
  /\ fds' = fds \cup {fd}
  /\ NextSlot
  /\ UNCHANGED <<active, xfers, clientIp, thread, stop, clobbered, staleClose>>

\* cleanup_data_resources and the 226, whose result is ignored.
FinishData(i) ==
  /\ fds' = fds \ DataFds(conn[i])
  /\ conn' = [conn EXCEPT ![i] = DataCleaned(conn[i])]
  /\ xfers' = Decremented(xfers, conn[i])
  /\ NextSlot
  /\ UNCHANGED <<active, clientIp, stop, clobbered, staleClose>>

\* Active mode: the 0 of a connect that succeeds is taken for the result of
\* the whole transfer.
DataConnect(i) ==
  /\ Connecting(i) /\ conn[i].passive = NoFd /\ conn[i].data \in fds
  /\ FinishData(i)
  /\ UNCHANGED thread

\* cleanup_data_resources, a reply, cleanup_connection
CloseData(i, n) ==
  /\ CleanupConnection(i, n)
  /\ NextSlot
  /\ UNCHANGED <<clientIp, stop, clobbered, staleClose>>

\* accept or connect failed, or nobody connected before the timer.
DataFailActiveOnly(i) ==   \* (faulty: the timer is not looked at when passive)
  /\ Connecting(i) /\ conn[i].passive = NoFd
  /\ CloseData(i, xfers) /\ UNCHANGED thread
DataFail(i) == Connecting(i) /\ CloseData(i, xfers) /\ UNCHANGED thread

\* send_list and send_nlst run to their end inside the visit.
DataList(i) ==
  /\ Connected(i) /\ conn[i].cb = "list"
  /\ FinishData(i) \/ CloseData(i, xfers)
  /\ UNCHANGED thread

\* The first call of transfer(): count it and start the thread, which sends
\* when volPath is NULL.  A thread that cannot be created closes the slot.
\* Creating it over one that still runs fails, or brings the program down.
FirstCall(i) == Connected(i) /\ conn[i].cb = "transfer" /\ ~conn[i].started
Direction(c) == IF c.vol = "null" THEN "send" ELSE "recv"

TransferStart(i) ==
  /\ FirstCall(i) /\ ~Running(i)
  /\ xfers' = Incremented(xfers)
  /\ conn' = [conn EXCEPT ![i].started = TRUE]
  /\ thread' = [thread EXCEPT ![i] = Direction(conn[i])]
  /\ NextSlot
  /\ UNCHANGED <<active, clientIp, fds, stop, clobbered, staleClose>>

TransferNoThread(i) ==
  /\ FirstCall(i)
  /\ CloseData(i, Incremented(xfers))
  /\ UNCHANGED thread

TransferOverRunning(i) ==
  /\ FirstCall(i) /\ Running(i)
  /\ pc' = "crashed"
  /\ UNCHANGED <<cur, active, xfers, clientIp, conn, thread, fds, stop,
                 clobbered, staleClose>>

\* The later calls: poll while bytes are moving ...
NextCall(i) == Connected(i) /\ conn[i].cb = "transfer" /\ conn[i].started
TransferPoll(i) == NextCall(i) /\ conn[i].moving /\ Poll(i)

\* ... and otherwise (no block went through yet, or the thread has ended)
\* block in OSJoinThread until the thread has ended.
TransferBlock(i) ==
  /\ NextCall(i) /\ ~conn[i].moving
  /\ pc' = "join"
  /\ UNCHANGED <<cur, active, xfers, clientIp, conn, thread, fds, stop,
                 clobbered, staleClose>>

TransferJoin(i) ==
  /\ pc = "join" /\ cur = i
  /\ thread[i] = "done"
  /\ thread' = [thread EXCEPT ![i] = "none"]
  /\ FinishData(i) \/ CloseData(i, xfers)

(***************************************************************************)
(* The transfer thread: launchTransfer.                                    *)
(***************************************************************************)

\* A block went through: dataTransferOffset and bytesTransferred are set.
ThreadMove(i) ==
  /\ Running(i) /\ pc # "crashed"
  /\ conn' = [conn EXCEPT ![i].started = TRUE, ![i].moving = TRUE]
  /\ UNCHANGED <<pc, cur, active, xfers, clientIp, thread, fds, stop,
                 clobbered, staleClose>>

\* The end; a sender reads its file to the end first.
ThreadEnd(i) ==
  /\ Running(i) /\ pc # "crashed"
  /\ thread[i] = "send" => conn[i].file = "open"
  /\ thread' = [thread EXCEPT ![i] = "done"]
  /\ conn' = [conn EXCEPT ![i].moving = FALSE]
  /\ UNCHANGED <<pc, cur, active, xfers, clientIp, fds, stop,
                 clobbered, staleClose>>

\* fread or fwrite on a FILE that is NULL or closed brings the program down.
ThreadFault(i) ==
  /\ Running(i) /\ pc # "crashed"
  /\ conn[i].file # "open"
  /\ pc' = "crashed"
  /\ UNCHANGED <<cur, active, xfers, clientIp, conn, thread, fds, stop,
                 clobbered, staleClose>>

(***************************************************************************)
(* The end of the main loop, and cleanup_ftp.                              *)
(***************************************************************************)

\* After a whole turn: HOME leaves the loop.
Buttons ==
  /\ pc = "buttons"
  /\ \/ pc' = "accept" /\ UNCHANGED <<cur, stop>>
     \/ Leave("home")
  /\ UNCHANGED <<active, xfers, clientIp, conn, thread, fds,
                 clobbered, staleClose>>

\* Every slot is cleaned up and freed, its thread joined or not.
ExitSlot(i) ==
  /\ pc = "exit" /\ cur = i
  /\ CleanupConnection(i, xfers)
  /\ IF cur < NB THEN cur' = cur + 1 /\ UNCHANGED pc
                 ELSE pc' = "done" /\ UNCHANGED cur
  /\ UNCHANGED <<clientIp, thread, stop, clobbered, staleClose>>

Stopped == pc \in {"done", "crashed"} /\ UNCHANGED vars

-----------------------------------------------------------------------------

Init ==
  /\ pc = "accept" /\ cur = 0
  /\ active = 0 /\ xfers = 0 /\ clientIp = NoClient
  /\ conn = [i \in Slots |-> FreshConnection]
  /\ thread = [i \in Slots |-> "none"]
  /\ fds = {}
  /\ stop = "no" /\ clobbered = {} /\ staleClose = FALSE

Accepting ==
  \/ AcceptNothing
  \/ AcceptError
  \/ \E c \in Client : Refuse(c) \/ (\E fd \in Fd : Accept(c, fd))

Control(i) ==
  \/ SkipSlot(i) \/ ControlIdle(i) \/ ControlClose(i)
  \/ PASS(i) \/ REIN(i) \/ PASV(i) \/ PORT(i)
  \/ LIST(i) \/ RETR(i) \/ STOR(i)

Data(i) ==
  \/ DataWait(i) \/ DataConnect(i) \/ DataFail(i) \/ DataList(i)
  \/ \E fd \in Fd : DataAccept(i, fd)
  \/ TransferStart(i) \/ TransferNoThread(i) \/ TransferOverRunning(i)
  \/ TransferPoll(i) \/ TransferBlock(i) \/ TransferJoin(i)

Thread(i) == ThreadMove(i) \/ ThreadEnd(i) \/ ThreadFault(i)

Next ==
  \/ Accepting
  \/ \E i \in Slots : Control(i) \/ Data(i) \/ ExitSlot(i) \/ Thread(i)
  \/ Buttons
  \/ Stopped

Spec == Init /\ [][Next]_vars

(***************************************************************************)
(* Fairness: the main thread and the transfer threads are scheduled; a     *)
(* client pauses between two commands sooner or later, and its peer ends a *)
(* transfer; a passive data connection that nobody opens meets its timer.  *)
(***************************************************************************)

Main ==
  \/ Accepting
  \/ \E i \in Slots : Control(i) \/ Data(i) \/ ExitSlot(i)
  \/ Buttons

PassiveTimeout(i) == conn[i].passive # NoFd /\ DataFail(i)

FairSpec ==
  /\ Spec
  /\ WF_vars(Main)
  /\ \A i \in Slots : /\ WF_vars(ControlIdle(i))
                      /\ WF_vars(ThreadEnd(i))
                      /\ SF_vars(PassiveTimeout(i))

-----------------------------------------------------------------------------
(***************************************************************************)
(* Correctness.                                                            *)
(***************************************************************************)

StopReason == {"no", "home", "greeting", "informed", "uninformed"}

\* The type invariant; it contains that the slot a new connection takes is
\* in the array, since active never exceeds NB + 1.
TypeOK ==
  /\ pc \in {"accept", "slots", "join", "buttons", "exit", "done", "crashed"}
  /\ cur \in Slots
  /\ active \in 0 .. NB + 1
  /\ xfers \in 0 .. W - 1
  /\ clientIp \in Client \cup {NoClient}
  /\ conn \in [Slots -> Connection]
  /\ thread \in [Slots -> ThreadState]
  /\ fds \subseteq Fd
  /\ stop \in StopReason
  /\ clobbered \subseteq Slots
  /\ staleClose \in BOOLEAN

\* activeConnectionsNumber may drift above the number of slots in use, never
\* below it: the limit of NB + 1 connections is enforced, and a server that
\* counts no connection has none (processConnections, cleanup_connection).
SlotsWithinCount ==
  Serving => Cardinality(Used) <= active

\* While the server runs, a transfer thread works on a slot whose transfer is
\* under way and whose file is open: no path closes the file, the data socket
\* or the session under it.  Only a slot that was given to a new connection
\* while in use can lose this (transfer, process_data_events).
ThreadHoldsTransfer ==
  Serving =>
    \A i \in Slots \ clobbered :
      Running(i) => /\ conn[i].cb = "transfer"
                    /\ conn[i].connected /\ conn[i].started
                    /\ conn[i].file = "open"

\* transfer() never joins a thread that it did not create: when the offset
\* says that the transfer has started there is a thread to wait for, and it is
\* still there, with the session it belongs to, while the loop waits for it.
JoinHasThread ==
  Serving =>
    /\ \A i \in Slots :
         conn[i].cb = "transfer" /\ conn[i].started => thread[i] # "none"
    /\ pc = "join" => /\ thread[cur] # "none"
                      /\ conn[cur].sock # NoFd /\ conn[cur].cb = "transfer"

\* A data callback belongs to a session that is connected and logged in, and
\* the callback of a transfer to a file that is open and a volPath that was
\* not freed: closeTransferredFile closes and frees each of them once.
CallbackContext ==
  \A i \in Slots :
    conn[i].cb # "none" =>
      /\ conn[i].sock # NoFd /\ conn[i].auth
      /\ conn[i].connected => conn[i].data # NoFd
      /\ conn[i].cb = "transfer" => conn[i].file = "open" /\ conn[i].vol # "freed"

Held(i) == {conn[i].sock, conn[i].passive, conn[i].data} \ {NoFd}

\* Every descriptor a slot holds is open and no other slot holds it, so that
\* closing one connection never closes a socket of another; the one
\* exception is a descriptor that the failed bind of an active data connection
\* closed and left in data_socket.
DescriptorOwnership ==
  ~staleClose =>
    /\ UNION {Held(i) : i \in Slots} \subseteq fds
    /\ \A i, j \in Slots : i # j => Held(i) \cap Held(j) = {}
    /\ \A i \in Slots : conn[i].sock # NoFd =>
         conn[i].sock \notin {conn[i].passive, conn[i].data}

\* No descriptor is lost: each open one is in a field of some slot, unless a
\* slot was reset under a client.
NoDescriptorLeak ==
  ~staleClose /\ clobbered = {} =>
     fds \subseteq UNION {Held(i) : i \in Slots}

\* The program goes down only after a slot was given away while in use, or
\* while it is being left with a transfer running.
CrashCause == pc = "crashed" => clobbered # {} \/ stop # "no"

\* The main loop never hangs: it comes back to accept until the server stops,
\* although a visit may block in OSJoinThread.
LoopTurns == []<>(pc = "accept") \/ <>(~Serving)

\* A passive data connection comes to an end: somebody connects and the
\* transfer ends, or the timer of FTP_CONNECTION_TIMEOUT closes it.
DataConnectionResolves ==
  \A i \in Slots :
    conn[i].cb # "none" /\ conn[i].passive # NoFd
      ~> conn[i].cb = "none" \/ ~Serving

=============================================================================
