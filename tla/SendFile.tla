------------------------------ MODULE SendFile ------------------------------
(***************************************************************************)
(* A download: send_from_file and network_write of net.c, as the transfer  *)
(* thread of a slot runs them.  The file is the bytes 1 .. Size; wire is    *)
(* what the client has received.  One send() carries one byte of the model *)
(* (a unit of any length).                                                 *)
(***************************************************************************)
EXTENDS Transfer, FiniteSets, Functions

CONSTANTS
  Size,     \* length of the file
  Block     \* dlBufferSize

ASSUME SizeAssumption == Size \in Nat
ASSUME BlockAssumption == Block \in Nat \ {0}

\* pc is "read" (fread), "write" (network_write) or "done".
VARIABLES
  from,         \* file position of the block in transferBuffer
  bytes_read,   \* length of that block
  sent,         \* bytes of the block that this network_write has sent
  wire,
  ioError,      \* ferror(f)
  gaveUp,       \* history: a block was abandoned after a socket error
  resent,       \* history: a block was sent again
  emptyFault    \* history: an fread failed before its first byte

vars == <<pc, from, bytes_read, sent, retryNumber, offset, result, wire,
          ioError, gaveUp, resent, emptyFault>>

ReadError == -103      \* a failed fread

Position == from + bytes_read
Left == Size - Position
Shortest(m, n) == IF m <= n THEN m ELSE n

\* fread set the end-of-file indicator: it returned less than a block and
\* nothing went wrong.
AtEof == Position = Size /\ bytes_read < Block

(***************************************************************************)
(* fread: a block, the rest of the file, or what precedes a read error.    *)
(***************************************************************************)

LoadedGoesOn(n) ==   \* (faulty: the loop goes on after an empty read)
  /\ from' = Position /\ bytes_read' = n
  /\ sent' = 0 /\ retryNumber' = 0
  /\ UNCHANGED <<offset, wire, gaveUp, resent>>
  /\ IF n = 0 THEN pc' = "read" /\ result' = 0
              ELSE pc' = "write" /\ UNCHANGED result
Loaded(n) ==
  /\ from' = Position /\ bytes_read' = n
  /\ sent' = 0 /\ retryNumber' = 0
  /\ UNCHANGED <<offset, wire, gaveUp, resent>>
  /\ IF n = 0 THEN pc' = "done" /\ result' = 0
              ELSE pc' = "write" /\ UNCHANGED result

Fread ==
  /\ pc = "read"
  /\ Loaded(Shortest(Block, Left))
  /\ UNCHANGED <<ioError, emptyFault>>

FreadFails ==
  /\ pc = "read"
  /\ \E n \in 0 .. Shortest(Block - 1, Left) :
       Loaded(n) /\ emptyFault' = (emptyFault \/ n = 0)
  /\ ioError' = TRUE

(***************************************************************************)
(* network_write and the loop around it.                                   *)
(***************************************************************************)

\* The test after a block that went through.
ShortRead(eof) == bytes_read < Block /\ (~eof \/ ioError)

BlockDone ==
  /\ offset' = offset + bytes_read
  /\ IF ShortRead(AtEof) THEN pc' = "done" /\ result' = ReadError
                         ELSE pc' = "read" /\ result' = bytes_read

\* send() took some of what is left.  EAGAIN is tried again: no step.
Send ==
  /\ pc = "write"
  /\ wire' = Append(wire, from + sent + 1)
  /\ sent' = sent + 1
  /\ IF sent' = bytes_read THEN BlockDone ELSE UNCHANGED <<pc, offset, result>>
  /\ UNCHANGED <<from, bytes_read, retryNumber, ioError, gaveUp, resent, emptyFault>>

\* network_write returns an error of retry()'s list: the whole block is sent
\* again, with what this call had already sent.
SendRetrySkipsSent ==   \* (faulty: the bytes that failed are skipped)
  /\ pc = "write" /\ retryNumber < Retries
  /\ retryNumber' = retryNumber + 1
  /\ sent' = Shortest(sent + 1, bytes_read - 1)
  /\ resent' = TRUE
  /\ UNCHANGED <<pc, from, bytes_read, offset, result, wire, ioError, gaveUp, emptyFault>>
SendRetry ==
  /\ pc = "write" /\ retryNumber < Retries
  /\ retryNumber' = retryNumber + 1
  /\ sent' = 0
  /\ resent' = TRUE
  /\ UNCHANGED <<pc, from, bytes_read, offset, result, wire, ioError, gaveUp, emptyFault>>

\* Any other error, or one retry too many: the block is abandoned, and the
\* outer loop reads the next one.
SendFailsCounted ==   \* (faulty: the abandoned block is counted)
  /\ pc = "write"
  /\ result' = SocketError /\ gaveUp' = TRUE
  /\ offset' = offset + bytes_read
  /\ pc' = "read"
  /\ UNCHANGED <<from, bytes_read, sent, retryNumber, wire, ioError, resent, emptyFault>>
SendFails ==
  /\ pc = "write"
  /\ result' = SocketError /\ gaveUp' = TRUE
  /\ pc' = "read"
  /\ UNCHANGED <<from, bytes_read, sent, retryNumber, offset, wire, ioError,
                 resent, emptyFault>>

Done == pc = "done" /\ UNCHANGED vars

Init ==
  /\ pc = "read" /\ from = 0 /\ bytes_read = 0 /\ sent = 0
  /\ retryNumber = 0 /\ offset = 0 /\ result = 0 /\ wire = <<>>
  /\ ioError = FALSE /\ gaveUp = FALSE /\ resent = FALSE /\ emptyFault = FALSE

Step == Fread \/ FreadFails \/ Send \/ SendRetry \/ SendFails
Next == Step \/ Done

Spec == Init /\ [][Next]_vars

\* The thread is scheduled, and a socket that returns EAGAIN sooner or later
\* takes data or fails.
FairSpec == Spec /\ WF_vars(Step)

-----------------------------------------------------------------------------

Received == Range(wire)

\* from and sent stay in the file and in the block.
TypeOK ==
  /\ pc \in {"read", "write", "done"}
  /\ from \in 0 .. Size /\ bytes_read \in 0 .. Shortest(Block, Size - from)
  /\ sent \in 0 .. bytes_read
  /\ pc = "write" => sent < bytes_read
  /\ retryNumber \in 0 .. Retries
  /\ offset \in 0 .. Size
  /\ result \in {SocketError, ReadError} \cup 0 .. Block
  /\ wire \in Seq(1 .. Size)
  /\ {ioError, gaveUp, resent, emptyFault} \subseteq BOOLEAN

\* As long as the socket and the file give no error, the client has the first
\* bytes of the file, each once and in order; and when send_from_file then
\* returns, it has all of them, the count is right and the result is success.
CalmIsExact ==
  ~resent /\ ~gaveUp /\ ~ioError =>
    /\ wire = [k \in 1 .. from + sent |-> k]
    /\ pc = "done" => from = Size /\ offset = Size /\ result = 0

\* The retries may repeat bytes but lose none: unless a block was abandoned,
\* the client has everything up to the furthest byte it has.
RetriesLoseNothing ==
  ~gaveUp => \A k \in Received : 1 .. k \subseteq Received

\* Every byte that dataTransferOffset counts has reached the client, whatever
\* failed before.
CountedIsReceived ==
  Cardinality(Received) >= offset

\* A download that is reported as complete is complete, unless a block was
\* abandoned or an fread failed before its first byte.
SuccessIsComplete ==
  pc = "done" /\ result = 0 /\ ~gaveUp /\ ~emptyFault => Received = 1 .. Size

\* send_from_file returns.
Terminates == <>(pc = "done")

=============================================================================
