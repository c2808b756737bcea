------------------------------ MODULE RecvFile ------------------------------
(***************************************************************************)
(* An upload: recv_to_file and network_readChunk of net.c in the transfer  *)
(* thread, then the fclose of closeTransferredFile in the main loop.  The  *)
(* bytes are received into transferBuffer, which setvbuf has also made the *)
(* buffer of the stream they are written to: one array, mem.               *)
(* The client's file is the bytes 1 .. size; one recv() is one byte of the *)
(* model (a unit of any length).                                           *)
(***************************************************************************)
EXTENDS Transfer

CONSTANTS
  MaxSize,  \* length of the longest file
  Chunk,    \* chunckSize
  Buf       \* TRANSFER_BUFFER_SIZE

ASSUME MaxSizeAssumption == MaxSize \in Nat
ASSUME BufferAssumption == Chunk \in Nat \ {0} /\ Buf \in Nat /\ Chunk < Buf

\* pc is "recv", "write", "join" (the thread has returned) or "closed".
VARIABLES
  size,         \* length of the client's file
  mem,          \* transferBuffer
  received,     \* bytes of the chunk that are in mem
  next,         \* the next byte of the client
  pending,      \* bytes in the stream's buffer that are not written yet
  disk,         \* the file
  lost,         \* history: received bytes that a recv error threw away
  writeError,   \* history: ferror(f), a write during the transfer failed
  closeError    \* history: the write of fclose failed

uploadVars == <<size, pc, mem, received, next, pending, disk, offset, retryNumber,
          result, lost, writeError, closeError>>
client == <<size, next>>
file == <<pending, disk, offset, writeError, closeError>>

WriteError == -100
Index == 1 .. Buf

(***************************************************************************)
(* network_readChunk, and what recv_to_file does with what it returns.     *)
(* EAGAIN is tried again: no step.                                         *)
(***************************************************************************)

RecvOverwrites ==   \* (faulty: mem is not advanced)
  /\ pc = "recv" /\ next <= size
  /\ mem' = [mem EXCEPT ![1] = next]
  /\ received' = received + 1 /\ next' = next + 1
  /\ pc' = IF received' = Chunk THEN "write" ELSE "recv"
  /\ UNCHANGED <<size, file, retryNumber, result, lost>>
Recv ==
  /\ pc = "recv" /\ next <= size
  /\ mem' = [mem EXCEPT ![received + 1] = next]
  /\ received' = received + 1 /\ next' = next + 1
  /\ pc' = IF received' = Chunk THEN "write" ELSE "recv"
  /\ UNCHANGED <<size, file, retryNumber, result, lost>>

\* recv() returned 0: what is in the chunk is written first, and the next
\* call ends the loop.
ClientEofAtOnce ==   \* (faulty: the end of the stream ends the loop)
  /\ pc = "recv" /\ next > size
  /\ pc' = "join" /\ result' = 0
  /\ received' = 0
  /\ UNCHANGED <<client, mem, file, retryNumber, lost>>
ClientEof ==
  /\ pc = "recv" /\ next > size
  /\ IF received > 0 THEN pc' = "write" /\ UNCHANGED result
                     ELSE pc' = "join" /\ result' = 0
  /\ UNCHANGED <<client, mem, received, file, retryNumber, lost>>

\* An error of retry()'s list: network_readChunk returns the error in place of
\* the count, and the next call starts at the beginning of mem.
RecvRetryRestarts ==   \* (faulty: the count begins again at its limit)
  /\ pc = "recv"
  /\ retryNumber' = (retryNumber + 1) % (Retries + 1)
  /\ lost' = lost + received /\ received' = 0
  /\ UNCHANGED <<client, pc, mem, file, result>>
RecvRetry ==
  /\ pc = "recv" /\ retryNumber < Retries
  /\ retryNumber' = retryNumber + 1
  /\ lost' = lost + received /\ received' = 0
  /\ UNCHANGED <<client, pc, mem, file, result>>

\* Any other error, or one retry too many.
RecvFails ==
  /\ pc = "recv"
  /\ pc' = "join" /\ result' = SocketError
  /\ lost' = lost + received /\ received' = 0
  /\ UNCHANGED <<client, mem, file, retryNumber>>

(***************************************************************************)
(* fwrite on a fully buffered stream: the bytes pass through the stream's  *)
(* buffer, which is written to the file when it is full.                   *)
(***************************************************************************)

\* memmove of n bytes within the array.
Moved(a, src, dst, n) ==
  [i \in Index |-> IF i \in dst + 1 .. dst + n THEN a[i - dst + src] ELSE a[i]]

Room == Buf - pending
Fits == received < Room
Filled == Moved(mem, 0, pending, IF Fits THEN received ELSE Room)

\* The buffer is written as soon as it is full; the rest of the chunk goes to
\* its beginning.
Stream ==
  IF Fits
    THEN mem' = Filled /\ pending' = pending + received /\ UNCHANGED disk
    ELSE /\ mem' = Moved(Filled, Room, 0, received - Room)
         /\ pending' = received - Room
         /\ disk' = disk \o Filled

Fwrite ==
  /\ pc = "write" /\ Stream
  /\ offset' = offset + received /\ result' = received
  /\ received' = 0 /\ pc' = "recv"
  /\ UNCHANGED <<client, retryNumber, lost, writeError, closeError>>

\* The write fails and ferror is set; the stream's buffer is emptied.
FwriteFails ==
  /\ pc = "write" /\ ~Fits
  /\ mem' = Filled /\ pending' = 0
  /\ writeError' = TRUE /\ result' = WriteError
  /\ received' = 0 /\ pc' = "join"
  /\ UNCHANGED <<client, disk, offset, retryNumber, lost, closeError>>

(***************************************************************************)
(* closeTransferredFile: fclose writes what is pending; its result is not  *)
(* read.                                                                   *)
(***************************************************************************)

Fclose ==
  /\ pc = "join" /\ pc' = "closed"
  /\ disk' = disk \o SubSeq(mem, 1, pending) /\ pending' = 0
  /\ UNCHANGED <<client, mem, received, offset, retryNumber, result, lost,
                 writeError, closeError>>

FcloseFails ==
  /\ pc = "join" /\ pending > 0 /\ pc' = "closed"
  /\ pending' = 0 /\ closeError' = TRUE
  /\ UNCHANGED <<client, mem, received, disk, offset, retryNumber, result, lost,
                 writeError>>

UploadDone == pc = "closed" /\ UNCHANGED uploadVars

UploadInit ==
  /\ size \in 0 .. MaxSize /\ next = 1
  /\ pc = "recv" /\ mem = [i \in Index |-> 0] /\ received = 0
  /\ pending = 0 /\ disk = <<>> /\ offset = 0
  /\ retryNumber = 0 /\ result = 0
  /\ lost = 0 /\ writeError = FALSE /\ closeError = FALSE

Thread == Recv \/ ClientEof \/ RecvRetry \/ RecvFails \/ Fwrite \/ FwriteFails
Close == Fclose \/ FcloseFails
UploadNext == Thread \/ Close \/ UploadDone

UploadSpec == UploadInit /\ [][UploadNext]_uploadVars

\* The thread is scheduled, the client sends its file or the socket fails,
\* and the main loop joins the thread.
UploadFairSpec == UploadSpec /\ WF_uploadVars(Thread) /\ WF_uploadVars(Close)

-----------------------------------------------------------------------------

UploadTypeOK ==
  /\ size \in 0 .. MaxSize /\ next \in 1 .. size + 1
  /\ pc \in {"recv", "write", "join", "closed"}
  /\ mem \in [Index -> 0 .. MaxSize]
  /\ received \in 0 .. Chunk
  /\ pc = "recv" => received < Chunk
  /\ pc = "write" => received > 0
  /\ pending \in 0 .. Buf - 1
  /\ disk \in Seq(0 .. MaxSize)
  /\ offset \in 0 .. MaxSize /\ lost \in 0 .. MaxSize
  /\ retryNumber \in 0 .. Retries
  /\ result \in {SocketError, WriteError} \cup 0 .. Chunk
  /\ {writeError, closeError} \subseteq BOOLEAN

\* Every byte taken from the socket is counted by dataTransferOffset, still in
\* the chunk, or was thrown away by an error, a chunk that could not be
\* written aside.
BytesAccounted ==
  ~writeError => next - 1 = offset + received + lost

\* What dataTransferOffset counts is in the file or in the stream's buffer:
\* the file never has another length, wherever the chunks end.
LengthKept ==
  ~writeError /\ ~closeError => offset = Len(disk) + pending

\* A file that fits in one chunk arrives intact when nothing fails.
OneChunkIntact ==
  pc = "closed" /\ size <= Chunk /\ lost = 0 /\ result = 0 /\ ~closeError =>
    disk = [k \in 1 .. size |-> k]

\* Both sides come to an end.
UploadEnds == <>(pc = "closed")

=============================================================================
