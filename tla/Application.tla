---------------------------- MODULE Application ----------------------------
(***************************************************************************)
(* The program around the server: __entry_menu of main.c from its start to *)
(* its return, with MountVirtualDevices, create_server, cleanup_ftp and    *)
(* UnmountVirtualDevices.  What is opened on the way and what of it is     *)
(* given back; FtpServer is what happens at step = "serve".                  *)
(***************************************************************************)
EXTENDS Integers, FiniteSets

CONSTANTS
  Connections,   \* FTP_NB_SIMULTANEOUS_TRANSFERS
  Port     \* the USB ports

ASSUME ConnectionsAssumption == Connections \in Nat \ {0}
ASSUME PortAssumption == Port \subseteq Nat /\ 0 \notin Port /\ IsFiniteSet(Port)

VARIABLES
  step,
  returnCode,
  iosuhax,     \* "closed", "open" (IOSUHAX_Open) or "hook" (through MCP)
  fsa,         \* fsaFd is open
  mountMlc,
  mounted,     \* the device names that are mounted
  flags,       \* the names whose global is 1
  storage_usb, \* the ports whose storage_usb[] is 1
  found,       \* the port of storage_usb_found; 0 when it is ""
  table,       \* names in VIRTUAL_PARTITIONS
  nbDevices,
  listener,    \* "none" (-1), "error" (another negative), "open", "closed"
  allocated    \* connections[0 .. allocated - 1] are not NULL

programVars == <<step, returnCode, iosuhax, fsa, mountMlc, mounted, flags, storage_usb,
          found, table, nbDevices, listener, allocated>>
access == <<iosuhax, fsa>>
devices == <<mounted, flags, storage_usb, found, table, nbDevices>>
server == <<listener, allocated>>

Usb == "storage_usb"
Mlc == {"storage_slccmpt", "storage_mlc", "storage_slc"}
Odd == {"storage_odd_tickets", "storage_odd_updates", "storage_odd_content",
        "storage_odd_content2"}
Device == {"sd", Usb} \cup Mlc \cup Odd

NoDevices == -20

Goto(from, to) == step = from /\ step' = to

(***************************************************************************)
(* Access to the file system of the console.                               *)
(***************************************************************************)

NoCfw ==
  /\ Goto("cfw", "exit") /\ returnCode' = -10
  /\ UNCHANGED <<access, mountMlc, devices, server>>

\* IOSUHAX_Open, and MCPHookOpen when it fails.
OpenIosuhax ==
  /\ step = "cfw"
  /\ iosuhax' \in {"closed", "open", "hook"}
  /\ IF iosuhax' = "closed" THEN step' = "exit" /\ returnCode' = -11
                            ELSE step' = "fsa" /\ UNCHANGED returnCode
  /\ UNCHANGED <<fsa, mountMlc, devices, server>>

OpenFsa ==
  /\ Goto("fsa", "menu") /\ fsa' = TRUE
  /\ UNCHANGED <<returnCode, iosuhax, mountMlc, devices, server>>

OpenFsaFailsKept ==   \* (faulty: the way to IOS is not closed)
  /\ Goto("fsa", "exit") /\ returnCode' = -12
  /\ UNCHANGED <<access, mountMlc, devices, server>>
OpenFsaFails ==
  /\ Goto("fsa", "exit") /\ returnCode' = -12
  /\ iosuhax' = "closed"
  /\ UNCHANGED <<fsa, mountMlc, devices, server>>

\* The menu is left by button A or B.  cpt is compared with 400 and never
\* incremented, so that a turn without a button changes nothing.
Button ==
  /\ Goto("menu", "sd")
  /\ mountMlc' \in BOOLEAN
  /\ UNCHANGED <<returnCode, access, devices, server>>

(***************************************************************************)
(* MountVirtualDevices.                                                    *)
(***************************************************************************)

\* The devices of group that answer are mounted.
Mount(group) ==
  \E ok \in SUBSET group :
    /\ mounted' = mounted \cup ok /\ flags' = flags \cup ok
    /\ table' = table \cup ok
    /\ nbDevices' = nbDevices + Cardinality(ok)

MountSd ==
  /\ Goto("sd", "usb") /\ Mount({"sd"})
  /\ UNCHANGED <<returnCode, access, mountMlc, storage_usb, found, server>>

IsLast(p, ports) == p \in ports /\ \A q \in ports : q <= p

\* Each port is mounted, looked at and unmounted; the last one with a folder
\* usr is mounted again as storage_usb, and counted whether this works or not.
MountUsb ==
  /\ Goto("usb", "mlc")
  /\ \E ports \in SUBSET Port :
       /\ storage_usb' = ports
       /\ IF ports = {}
            THEN UNCHANGED <<mounted, found, table, nbDevices>>
            ELSE /\ \E p \in ports : IsLast(p, ports) /\ found' = p
                 /\ mounted' \in {mounted, mounted \cup {Usb}}
                 /\ table' = table \cup {Usb} /\ nbDevices' = nbDevices + 1
  /\ UNCHANGED <<returnCode, access, mountMlc, flags, server>>

MountMlc ==
  /\ Goto("mlc", "odd") /\ Mount(IF mountMlc THEN Mlc ELSE {})
  /\ UNCHANGED <<returnCode, access, mountMlc, storage_usb, found, server>>

MountOdd ==
  /\ Goto("odd", "count") /\ Mount(Odd)
  /\ UNCHANGED <<returnCode, access, mountMlc, storage_usb, found, server>>

CountDevices ==
  /\ step = "count"
  /\ IF nbDevices = 0 THEN step' = "exit" /\ returnCode' = NoDevices
                      ELSE step' = "server" /\ UNCHANGED returnCode
  /\ UNCHANGED <<access, mountMlc, devices, server>>

(***************************************************************************)
(* create_server.                                                          *)
(***************************************************************************)

\* The error of socket(), or -1 when the library names none.
SocketFails ==
  /\ Goto("server", "stop") /\ listener' \in {"none", "error"}
  /\ UNCHANGED <<returnCode, access, mountMlc, devices, allocated>>

\* bind or listen fails: the descriptor is closed, its number stays.
ListenFails ==
  /\ Goto("server", "stop") /\ listener' = "closed"
  /\ UNCHANGED <<returnCode, access, mountMlc, devices, allocated>>

\* Only malloc of a connection_t is checked.
AllocFails ==
  /\ Goto("server", "stop") /\ listener' = "open"
  /\ allocated' \in 0 .. Connections - 1
  /\ UNCHANGED <<returnCode, access, mountMlc, devices>>

Listen ==
  /\ Goto("server", "serve") /\ listener' = "open" /\ allocated' = Connections
  /\ UNCHANGED <<returnCode, access, mountMlc, devices>>

\* The HOME button, or process_ftp_events reports that the network is down.
LeaveLoop ==
  /\ Goto("serve", "stop")
  /\ UNCHANGED <<returnCode, access, mountMlc, devices, server>>

(***************************************************************************)
(* The exit.                                                               *)
(***************************************************************************)

\* cleanup_ftp looks at every connection, except when listener is -1; and
\* serverSocket, the result of create_server, is closed when it is one.
Stop ==
  /\ step = "stop"
  /\ IF listener = "none" THEN step' = "unmount" /\ UNCHANGED server
     ELSE IF allocated < Connections THEN step' = "crashed" /\ UNCHANGED server
     ELSE step' = "unmount" /\ allocated' = 0 /\ listener' = "closed"
  /\ UNCHANGED <<returnCode, access, mountMlc, devices>>

\* UnmountVirtualDevices: the names whose global is 1, and the ports under the
\* names they had while they were being looked at.
UnmountKeepsMlc ==   \* (faulty: the memory of the console stays mounted)
  /\ Goto("unmount", "close")
  /\ table' = {} /\ mounted' = mounted \ (flags \ Mlc) /\ flags' = {}
  /\ storage_usb' = {}
  /\ UNCHANGED <<returnCode, access, mountMlc, found, nbDevices, server>>
Unmount ==
  /\ Goto("unmount", "close")
  /\ table' = {} /\ mounted' = mounted \ flags /\ flags' = {}
  /\ storage_usb' = {}
  /\ UNCHANGED <<returnCode, access, mountMlc, found, nbDevices, server>>

CloseAccess ==
  /\ Goto("close", "exit") /\ fsa' = FALSE /\ iosuhax' = "closed"
  /\ UNCHANGED <<returnCode, mountMlc, devices, server>>

Return ==
  /\ Goto("exit", "returned")
  /\ UNCHANGED <<returnCode, access, mountMlc, devices, server>>

Over == step \in {"returned", "crashed"} /\ UNCHANGED programVars

ProgramInit ==
  /\ step = "cfw" /\ returnCode = 0 /\ iosuhax = "closed" /\ fsa = FALSE
  /\ mountMlc = FALSE
  /\ mounted = {} /\ flags = {} /\ storage_usb = {} /\ found = 0
  /\ table = {} /\ nbDevices = 0
  /\ listener = "none" /\ allocated = 0

Start == NoCfw \/ OpenIosuhax \/ OpenFsa \/ OpenFsaFails
Mounting == MountSd \/ MountUsb \/ MountMlc \/ MountOdd \/ CountDevices
CreateServer == SocketFails \/ ListenFails \/ AllocFails \/ Listen
Exit == Stop \/ Unmount \/ CloseAccess \/ Return
Program == Start \/ Mounting \/ CreateServer \/ Exit
User == Button \/ LeaveLoop

ProgramNext == Program \/ User \/ Over

ProgramSpec == ProgramInit /\ [][ProgramNext]_programVars

-----------------------------------------------------------------------------

ProgramTypeOK ==
  /\ step \in {"cfw", "fsa", "menu", "sd", "usb", "mlc", "odd", "count", "server",
             "serve", "stop", "unmount", "close", "exit", "returned", "crashed"}
  /\ returnCode \in {0, -10, -11, -12, NoDevices}
  /\ iosuhax \in {"closed", "open", "hook"} /\ fsa \in BOOLEAN
  /\ mountMlc \in BOOLEAN
  /\ mounted \subseteq Device /\ flags \subseteq Device \ {Usb}
  /\ storage_usb \subseteq Port /\ found \in Port \cup {0}
  /\ table \subseteq Device /\ nbDevices \in Nat
  /\ listener \in {"none", "error", "open", "closed"}
  /\ allocated \in 0 .. Connections

\* No file system is left mounted on a closed fsaFd, the USB drive aside.
NoMountOutlivesFsa == mounted \subseteq {"sd", Usb} \/ fsa

\* However the program gets to its return, what it opened is closed again,
\* except when it found no device; then it goes back with fsaFd open.
ReleasedAtReturn ==
  step = "returned" /\ returnCode # NoDevices =>
    /\ iosuhax = "closed" /\ ~fsa /\ listener # "open" /\ allocated = 0
    /\ mounted \subseteq {Usb} /\ table = {}
=============================================================================
