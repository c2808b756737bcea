----------------------------- MODULE FtpSession -----------------------------
(***************************************************************************)
(* The sessions of the FTP server: what a command does with its path, with *)
(* the folder, the pending rename and the restart marker of its session,   *)
(* and with the files of the devices (the handlers of ftp.c and the vrt_   *)
(* functions below them).  Each command runs to its end in the event loop; *)
(* the data connections and transfers they start are those of FtpServer.   *)
(***************************************************************************)
EXTENDS VrtPath, FiniteSets

CONSTANTS
  Session,       \* slots of connections[]
  Arg,           \* the paths clients send
  Password,      \* what they send as passwords
  Offset,        \* what they send with REST
  Folders,       \* what is on the devices at the start, their roots included
  Renames,       \* the devices whose rename works: those of libfat
  MaxCommands    \* bound on the commands of a behaviour

ASSUME SessionAssumption ==
  /\ Renames \subseteq Device
  /\ \A p \in Arg : IsPath(p)
  /\ Offset \subseteq Nat /\ MaxCommands \in Nat

VARIABLES
  session,    \* the fields of connection_t a session keeps
  password,   \* the global password: a set of one, or {} for NULL
  fs,         \* what there is at each path of the devices
  down,       \* NULL or an overflow was reached, or the tree has a ring
  commands,
  home,       \* history: the folder each client has been told it is in
  asked,      \* history: what RNFR named, and where
  proved,     \* history: sessions that gave the password since they began
  strayed     \* history: sessions that named a path outside their folder

vars == <<session, password, fs, down, commands, home, asked, proved, strayed>>
history == <<home, asked, proved, strayed>>

\* Paths: a device, folders on it, and what is in these.
Node == {<<d>> : d \in Device} \cup {<<d, n>> : d \in Device, n \in Name}
        \cup {<<d, n, m>> : d \in Device, n \in Name, m \in Name}    \* (the bound on depth)

ASSUME FoldersAssumption ==
  /\ Folders \subseteq Node
  /\ \A p \in Node : Len(p) = 1 => p \in Folders
  /\ \A p \in Folders : Len(p) > 1 => Front(p) \in Folders

Kind(p) == IF p \in Node THEN fs[p] ELSE "none"
IsDir(p) == Kind(p) = "dir"
Empty(p) == \A q \in Node : Len(q) = Len(p) + 1 /\ Front(q) = p => fs[q] = "none"
Room(p) == p \in Node /\ Kind(p) = "none" /\ IsDir(Front(p))
Below(p, q) == Len(q) >= Len(p) /\ SubSeq(q, 1, Len(p)) = p

\* resetConnection
FreshKeepsLogin(s) ==    \* (faulty: the login of the last session is kept)
  [s EXCEPT !.open = FALSE, !.cwd = Root, !.pending = <<>>, !.marker = 0]
Fresh(s) ==
  [s EXCEPT !.open = FALSE, !.authenticated = FALSE, !.cwd = Root, !.pending = <<>>, !.marker = 0]

NotAsked == [path |-> Null, free |-> FALSE, folder |-> Null]

(***************************************************************************)
(* The functions of vrt.c.                                                 *)
(***************************************************************************)

\* with_virtual_path hands no root and no unknown device to the devices.
OnDevice(p) == p # Null /\ p # <<>>

VrtCheckdir(cwd, path) ==
  LET p == ToRealPath(cwd, path) IN
  p # Null /\ (p = <<>> \/ path = Dot \/ (path = DotDot /\ Longer(cwd)) \/ IsDir(p))

VrtChdirBlind(cwd, path) ==    \* (faulty: to a folder that is not there)
  LET abspath == VirtualAbspath(cwd, path) IN IF abspath = Root THEN Root ELSE abspath \o Root
VrtChdir(cwd, path) ==
  LET abspath == VirtualAbspath(cwd, path) IN
  IF ~VrtCheckdir(cwd, path) THEN cwd
  ELSE IF abspath = Root THEN Root ELSE abspath \o Root

\* vrt_unlink: unlink takes a file or, on the card, an empty folder; what is
\* still a folder is given to rmdir.
Removable(p) == Kind(p) = "file" \/ (IsDir(p) /\ Len(p) > 1 /\ Empty(p))
VrtUnlink(p) == IF OnDevice(p) /\ Removable(p) THEN [fs EXCEPT ![p] = "none"] ELSE fs

VrtMkdir(p) == IF OnDevice(p) /\ Room(p) THEN [fs EXCEPT ![p] = "dir"] ELSE fs

\* fopen with "wb" or "ab" makes the file; the other modes change nothing.
Opened(files, p) ==
  IF OnDevice(p) /\ p \in Node /\ files[p] = "none" /\ files[Front(p)] = "dir"
  THEN [files EXCEPT ![p] = "file"] ELSE files

\* rename gives a file, or a folder with all that is in it, a free name of the
\* same device (and no place deeper than Node, the bound).  Nothing keeps a
\* folder from a name within itself: its new entry is then out of reach as soon
\* as the old one is removed.  vrt_rename does not look at the result.
CanRename(p, q) ==
  /\ OnDevice(p) /\ OnDevice(q) /\ Kind(p) # "none" /\ Room(q)
  /\ p[1] = q[1] /\ p[1] \in Renames
Fits(p, q) ==
  \A r \in Node : Below(p, r) /\ fs[r] # "none" => q \o SubSeq(r, Len(p) + 1, Len(r)) \in Node
Move(p, q) ==
  [r \in Node |->
     CASE Below(q, r) -> Kind(p \o SubSeq(r, Len(q) + 1, Len(r)))
       [] Below(p, r) /\ ~Below(q, r) -> "none"
       [] OTHER -> fs[r]]
Lost(p) == [r \in Node |-> IF Below(p, r) THEN "none" ELSE fs[r]]
VrtRename(p, q) ==
  CASE CanRename(p, q) /\ Len(p) > 1 /\ Below(p, q) -> Lost(p)
    [] CanRename(p, q) /\ Len(p) > 1 /\ ~Below(p, q) /\ Fits(p, q) -> Move(p, q)
    [] OTHER -> fs

\* The root of a device has no entry that could be removed: the new one makes
\* it a folder of its own folder, and Node knows no such tree.
RootRenamed(p, q) == CanRename(p, q) /\ Len(p) = 1

(***************************************************************************)
(* What the handlers have in common.                                       *)
(***************************************************************************)
In(c) == session[c].cwd
Where(c) == Items(VirtualAbspath(In(c), <<>>))     \* the folder a session is in
Split(c, p) == SecureAndSplitPath(In(c), p)

\* What the handlers open or look at: those that take folder and fileName,
\* LIST, RETR, which leaves a slash behind the folder, STOR and APPE.
Folder(c, p) == Settled(Split(c, p).folder)
Real(c, p) == ToRealPath(Folder(c, p), Split(c, p).fileName)
Listed(c, p) == ToRealPath(In(c), IF p = <<>> THEN Dot ELSE p)
Retrieved(c, p) == ToRealPath(Split(c, p).folder \o Root, p)
StoredAt(c, p) == ToRealPath(Folder(c, p), p)

\* A path that makes its own folder the one of the session.
Strays(c, p) == p = <<>> \/ IsAbsolute(p) \/ InCwd(In(c), p)
Stray(c, p) == strayed' = IF Strays(c, p) THEN strayed \cup {c} ELSE strayed

Command(c) == ~down /\ session[c].open
LoggedIn(c) == Command(c) /\ session[c].authenticated
Counted == commands < MaxCommands /\ commands' = commands + 1   \* (the bound)

\* The start of every handler that takes a path: folder is copied to cwd.
\* Undefined: a NULL that is copied, and a short name copied behind cwd.
Splits(c, p) == LoggedIn(c) /\ Counted /\ Split(c, p).folder # Null
Moves(c, cwd) == session' = [session EXCEPT ![c].cwd = cwd]
Fails(c, p) ==
  /\ LoggedIn(c) /\ Counted
  /\ Split(c, p).folder = Null \/ Overflows(In(c), p)
  /\ down' = TRUE
  /\ UNCHANGED <<session, password, fs, history>>

(***************************************************************************)
(* Connections, login and the commands without a path.                     *)
(***************************************************************************)
Begins(c) ==
  /\ home' = [home EXCEPT ![c] = <<>>]
  /\ strayed' = strayed \ {c}
  /\ proved' = proved \ {c}

\* A new client takes the slot connections[activeConnectionsNumber], which may
\* be in use (FtpServer has the number; here it may be any slot).
Connect(c) ==
  /\ ~down
  /\ session' = [session EXCEPT ![c] = [Fresh(@) EXCEPT !.open = TRUE]]
  /\ Begins(c)
  /\ asked' = [asked EXCEPT ![c] = NotAsked]
  /\ UNCHANGED <<password, fs, down, commands>>

Disconnect(c) ==    \* QUIT, and every end of the control connection
  /\ ~down /\ session[c].open
  /\ session' = [session EXCEPT ![c] = Fresh(@)]
  /\ UNCHANGED <<password, fs, down, commands, history>>

PASS(c, word) ==
  /\ Command(c)
  /\ IF password \subseteq {word}
     THEN /\ session' = [session EXCEPT ![c].authenticated = TRUE]
          /\ proved' = proved \cup {c}
     ELSE UNCHANGED <<session, proved>>
  /\ UNCHANGED <<password, fs, down, commands, home, asked, strayed>>

REIN(c) ==
  /\ Command(c)
  /\ session' = [session EXCEPT ![c].cwd = Root, ![c].authenticated = FALSE]
  /\ Begins(c)
  /\ UNCHANGED <<password, fs, down, commands, asked>>

SITE_PASSWD(c, new) ==    \* and SITE NOPASSWD
  /\ LoggedIn(c)
  /\ password' = new
  /\ UNCHANGED <<session, fs, down, commands, history>>

REST(c, offset) ==
  /\ LoggedIn(c)
  /\ session' = [session EXCEPT ![c].marker = offset]
  /\ UNCHANGED <<password, fs, down, commands, history>>

\* The name of the root is a literal, which is freed.
SITE_CHMOD(c) ==
  /\ LoggedIn(c)
  /\ down' = (In(c) = Root)
  /\ UNCHANGED <<session, password, fs, commands, history>>

(***************************************************************************)
(* The folder of a session.                                                *)
(***************************************************************************)
CWD(c, p) ==
  LET base == Split(c, p).fileName
      found == VrtCheckdir(Folder(c, p), base)
  IN
  /\ Splits(c, p)
  /\ Moves(c, VrtChdir(Folder(c, p), base))
  /\ IF found
     THEN /\ home' = [home EXCEPT ![c] = Meant(@, p)]
          /\ strayed' = IF IsAbsolute(p) THEN strayed \ {c}
                        ELSE IF Strays(c, p) THEN strayed \cup {c} ELSE strayed
     ELSE home' = home /\ Stray(c, p)
  /\ UNCHANGED <<password, fs, down, asked, proved>>

CDUP(c) ==
  LET found == VrtCheckdir(In(c), DotDot) IN
  /\ LoggedIn(c) /\ Counted
  /\ Moves(c, VrtChdir(In(c), DotDot))
  /\ home' = IF found THEN [home EXCEPT ![c] = Meant(@, DotDot)] ELSE home
  /\ UNCHANGED <<password, fs, down, asked, proved, strayed>>

(***************************************************************************)
(* Files and folders.                                                      *)
(***************************************************************************)
\* DELE and RMD do the same, to a file or a folder.
DELE(c, p) ==
  /\ Splits(c, p)
  /\ Moves(c, Folder(c, p)) /\ Stray(c, p)
  /\ fs' = VrtUnlink(Real(c, p))
  /\ UNCHANGED <<password, down, home, asked, proved>>

MKD(c, p) ==
  /\ Splits(c, p) /\ p # <<>>
  /\ Moves(c, Folder(c, p)) /\ Stray(c, p)
  /\ fs' = IF VrtCheckdir(Folder(c, p), Split(c, p).fileName) THEN fs ELSE VrtMkdir(Real(c, p))
  /\ UNCHANGED <<password, down, home, asked, proved>>

RNFR(c, p) ==
  /\ Splits(c, p)
  /\ session' = [session EXCEPT ![c].cwd = Folder(c, p), ![c].pending = Split(c, p).fileName]
  /\ asked' = [asked EXCEPT ![c] = [path |-> Meant(home[c], p), folder |-> Folder(c, p),
                                    free |-> IsAbsolute(p) \/ ~(c \in strayed \/ Strays(c, p))]]
  /\ Stray(c, p)
  /\ UNCHANGED <<password, fs, down, home, proved>>

RNTO(c, p) ==
  LET from == session[c].pending
      to == Split(c, p).fileName
      source == ToRealPath(Folder(c, p), from)
  IN
  /\ Splits(c, p) /\ from # <<>>
  /\ session' = [session EXCEPT ![c].cwd = Folder(c, p), ![c].pending = <<>>]
  /\ fs' = IF from = to THEN fs ELSE VrtRename(source, Real(c, p))
  /\ down' = (from # to /\ RootRenamed(source, Real(c, p)))
  /\ Stray(c, p)
  /\ UNCHANGED <<password, home, asked, proved>>

SIZE(c, p) ==
  /\ Splits(c, p)
  /\ Moves(c, Folder(c, p)) /\ Stray(c, p)
  /\ UNCHANGED <<password, fs, down, home, asked, proved>>

LIST(c, p) ==    \* and NLST
  /\ LoggedIn(c) /\ Counted
  /\ UNCHANGED <<session, password, fs, down, history>>

RETR(c, p) ==
  /\ Splits(c, p)
  /\ \E seeks \in BOOLEAN :
       /\ seeks \/ (Kind(Retrieved(c, p)) = "file" /\ session[c].marker > 0)
       /\ session' = [session EXCEPT ![c].cwd = Split(c, p).folder \o Root,
                                     ![c].marker = IF seeks THEN @ ELSE 0]
  /\ Stray(c, p)
  /\ UNCHANGED <<password, fs, down, home, asked, proved>>

\* stor_or_append makes the folder when it is not there.  It takes the name
\* and the parent of the root, and of "", which are NULL.
Stored(c, p, marker) ==
  LET folder == Split(c, p).folder
      parent == Before(folder) \o Root
      name == LastItemOfPath(folder)
      files == IF VrtCheckdir(parent, name) THEN fs ELSE VrtMkdir(ToRealPath(parent, name))
  IN
  /\ Splits(c, p) /\ folder \notin {Root, <<>>}
  /\ session' = [session EXCEPT ![c].cwd = Settled(folder), ![c].marker = marker]
  /\ fs' = Opened(files, StoredAt(c, p))
  /\ Stray(c, p)
  /\ UNCHANGED <<password, down, home, asked, proved>>

STOR(c, p) == Stored(c, p, 0)
APPE(c, p) == Stored(c, p, session[c].marker)

StoreFails(c, p) ==
  /\ Splits(c, p) /\ Split(c, p).folder \in {Root, <<>>}
  /\ down' = TRUE
  /\ UNCHANGED <<session, password, fs, history>>

----------------------------------------------------------------------------
Blank == [open |-> FALSE, authenticated |-> FALSE, cwd |-> Root, pending |-> <<>>, marker |-> 0]

Init ==
  /\ session = [c \in Session |-> Blank]
  /\ password = {}
  /\ fs = [p \in Node |-> IF p \in Folders THEN "dir" ELSE "none"]
  /\ down = FALSE /\ commands = 0
  /\ home = [c \in Session |-> <<>>]
  /\ asked = [c \in Session |-> NotAsked]
  /\ proved = {}
  /\ strayed = {}

Login(c) ==
  \/ Connect(c) \/ Disconnect(c) \/ REIN(c)
  \/ \E w \in Password : PASS(c, w) \/ SITE_PASSWD(c, {w})
  \/ SITE_PASSWD(c, {})

OnPath(c, p) ==
  \/ CWD(c, p) \/ DELE(c, p) \/ MKD(c, p) \/ RNFR(c, p) \/ RNTO(c, p) \/ SIZE(c, p)
  \/ LIST(c, p) \/ RETR(c, p) \/ STOR(c, p) \/ APPE(c, p)
  \/ Fails(c, p) \/ StoreFails(c, p)

Done == down /\ UNCHANGED vars

Next ==
  \/ \E c \in Session :
       \/ Login(c) \/ CDUP(c) \/ SITE_CHMOD(c)
       \/ \E n \in Offset : REST(c, n)
       \/ \E p \in Arg : OnPath(c, p)
  \/ Done

Spec == Init /\ [][Next]_vars

(***************************************************************************)
(* Properties.                                                             *)
(***************************************************************************)
\* Types; every working folder begins and ends with a slash, which is what
\* virtual_abspath and the messages rely on when they put a path behind it.
TypeOK ==
  /\ \A c \in Session :
       /\ session[c].open \in BOOLEAN /\ session[c].authenticated \in BOOLEAN
       /\ session[c].cwd # <<>> /\ session[c].cwd[1] = "/" /\ Last(session[c].cwd) = "/"
       /\ session[c].marker \in Offset \cup {0}
  /\ Cardinality(password) <= 1 /\ password \subseteq Password
  /\ fs \in [Node -> {"none", "file", "dir"}]
  /\ \A p \in Node : Len(p) > 1 /\ fs[p] # "none" => IsDir(Front(p))
  /\ down \in BOOLEAN /\ commands \in 0 .. MaxCommands

\* A session is logged in only when this client, and not the one that had the
\* slot before or that began again with REIN, gave the password.
OnlyProven == \A c \in Session : session[c].authenticated => c \in proved /\ session[c].open

\* A session whose commands named plain paths since its last absolute CWD is in
\* the folder its client was told of: neither failing nor succeeding does any
\* command move it (cwd is rewritten by every one of them).
StaysWhereTold ==
  \A c \in Session : session[c].open /\ c \notin strayed => Where(c) = home[c]

\* And from there every handler acts on the path the client named, whichever
\* of the four ways to build a path it goes.
Translated(p) == IF p = <<>> \/ p[1] \in Device THEN p ELSE Null
ActsWhereNamed == ~down =>
  \A c \in Session, p \in Arg :
    /\ session[c].authenticated /\ Split(c, p).folder # Null
    /\ p # <<>> /\ (IsAbsolute(p) \/ ~(c \in strayed \/ Strays(c, p)))
    => {Real(c, p), Listed(c, p), Retrieved(c, p), StoredAt(c, p)}
         = {Translated(Meant(home[c], p))}

\* What RNTO moves is what RNFR named, as long as both name the same folder.
RenamesWhatWasNamed ==
  \A c \in Session :
    asked[c].free /\ session[c].pending # <<>> /\ asked[c].folder = In(c)
      => ToRealPath(In(c), session[c].pending) = Translated(asked[c].path)
=============================================================================
