--------------------------- MODULE ControlChannel ---------------------------
(***************************************************************************)
(* The control connection of one slot: how process_control_events of ftp.c *)
(* cuts what the client sends into command lines while the client sends    *)
(* more, and holds the lines back while a transfer is under way.           *)
(* Of a command only its outcome matters here: answered, answered with the *)
(* start of a data connection, or the end of the session.                  *)
(***************************************************************************)
EXTENDS Integers, Sequences, FiniteSets

CONSTANTS
  Size,      \* FTP_MSG_BUFFER_SIZE
  MaxSent    \* bound: the bytes a client sends

ASSUME SizeAssumption == Size \in Nat \ {0, 1}
ASSUME MaxSentAssumption == MaxSent \in Nat

VARIABLES
  phase,          \* "read" (head of the loop), "lines" (in the for), "closed"
  buf,            \* buf[0 .. offset - 1]
  next,           \* the index in buf of the next line
  data_callback,  \* a data connection is under way
  sent,           \* history: all the client has sent
  received,       \* how many of these bytes recv() has delivered
  consumed,       \* history: how many have left buf
  executed,       \* history: the commands, as <<first, last>> bytes of sent
  held,           \* history: a transfer has ended since the last recv()
  reason          \* history: why the connection was closed

channelVars == <<phase, buf, next, data_callback, sent, received, consumed,
                 executed, held, reason>>

\* Any byte that is not one of the other three; CR; LF; the null byte.
Byte == {"c", "CR", "LF", "0"}

\* strstr(s, CRLF): the places of CR before LF.
Crlf(s) == {i \in 1 .. Len(s) - 1 : s[i] = "CR" /\ s[i + 1] = "LF"}

Contains(s, from, to, byte) == \E i \in from .. to : s[i] = byte

Sender == <<sent>>
History == <<executed, held>>

Close(why) ==
  /\ phase' = "closed" /\ reason' = why
  /\ UNCHANGED <<buf, next, data_callback, received, consumed>>

-----------------------------------------------------------------------------

Send ==
  /\ phase # "closed" /\ Len(sent) < MaxSent
  /\ \E b \in Byte : sent' = Append(sent, b)
  /\ UNCHANGED <<phase, buf, next, data_callback, received, consumed, History, reason>>

(***************************************************************************)
(* The head of the loop.                                                   *)
(***************************************************************************)

\* What recv() may deliver: the last byte of the buffer is for the terminator.
Room == Size - 1 - Len(buf)

\* recv() delivers some of the bytes that have arrived, no more than there is
\* room for.
Read ==
  /\ phase = "read" /\ ~data_callback
  /\ \E n \in 1 .. Len(sent) - received :
       LET new == SubSeq(sent, received + 1, received + n) IN
         /\ n <= Room
         /\ IF Contains(new, 1, n, "0")
              THEN Close("null") /\ UNCHANGED held
              ELSE /\ buf' = buf \o new /\ received' = received + n
                   /\ phase' = "lines" /\ next' = 1 /\ held' = FALSE
                   /\ UNCHANGED <<data_callback, consumed, reason>>
  /\ UNCHANGED <<Sender, executed>>

\* The client has closed its side, or the socket gives an error.
ReadEnd ==
  /\ phase = "read" /\ ~data_callback
  /\ Close("end")
  /\ UNCHANGED <<Sender, History>>

TooLong ==
  /\ phase = "read" /\ Room = 0
  /\ Close("long")
  /\ UNCHANGED <<Sender, History>>

(***************************************************************************)
(* The lines in the buffer.                                                *)
(***************************************************************************)

\* The end of the line at next.
IsEnd(e) == e \in Crlf(buf) /\ e >= next /\ \A i \in Crlf(buf) : i >= next => e <= i

NextLine(e) == e + 2

\* A command is answered and may have started a data connection; an empty
\* line is passed over.
Execute ==
  /\ phase = "lines" /\ ~data_callback
  /\ \E e \in next .. Len(buf) :
       /\ IsEnd(e) /\ ~Contains(buf, next, e - 1, "LF")
       /\ next' = NextLine(e)
       /\ IF e > next
            THEN /\ executed' = Append(executed, <<consumed + next, consumed + e - 1>>)
                 /\ data_callback' \in BOOLEAN
            ELSE UNCHANGED <<executed, data_callback>>
  /\ UNCHANGED <<phase, buf, Sender, received, consumed, held, reason>>

\* The command is QUIT, or fails in a way that ends the connection.
ExecuteEnds ==
  /\ phase = "lines" /\ ~data_callback
  /\ \E e \in next + 1 .. Len(buf) :
       /\ IsEnd(e) /\ ~Contains(buf, next, e - 1, "LF")
       /\ executed' = Append(executed, <<consumed + next, consumed + e - 1>>)
  /\ Close("end")
  /\ UNCHANGED <<Sender, held>>

BareLineFeed ==
  /\ phase = "lines" /\ ~data_callback
  /\ \E e \in next .. Len(buf) : IsEnd(e) /\ Contains(buf, next, e - 1, "LF")
  /\ Close("line feed")
  /\ UNCHANGED <<Sender, History>>

\* The lines that were processed leave the buffer.
CompactNothing ==   \* (faulty: the processed lines stay in the buffer)
  /\ phase = "lines"
  /\ data_callback \/ ~\E e \in Crlf(buf) : e >= next
  /\ next' = 1 /\ phase' = "read"
  /\ UNCHANGED <<buf, consumed, data_callback, Sender, received, History, reason>>
CompactAtOnce ==   \* (faulty: one line for every recv())
  /\ phase = "lines"
  /\ next > 1 \/ ~\E e \in Crlf(buf) : e >= next
  /\ buf' = SubSeq(buf, next, Len(buf))
  /\ consumed' = consumed + next - 1
  /\ next' = 1 /\ phase' = "read"
  /\ UNCHANGED <<data_callback, Sender, received, History, reason>>
Compact ==
  /\ phase = "lines"
  /\ data_callback \/ ~\E e \in Crlf(buf) : e >= next
  /\ buf' = SubSeq(buf, next, Len(buf))
  /\ consumed' = consumed + next - 1
  /\ next' = 1 /\ phase' = "read"
  /\ UNCHANGED <<data_callback, Sender, received, History, reason>>

\* process_data_events: the transfer is over, and a failed one closes the
\* connection.
TransferEnds ==
  /\ phase = "read" /\ data_callback
  /\ data_callback' = FALSE /\ held' = TRUE
  /\ UNCHANGED <<phase, buf, next, Sender, received, consumed, executed, reason>>
TransferFails ==
  /\ phase = "read" /\ data_callback
  /\ Close("end")
  /\ UNCHANGED <<Sender, History>>

Closed == phase = "closed" /\ UNCHANGED channelVars

ChannelInit ==
  /\ phase = "read" /\ buf = <<>> /\ next = 1 /\ data_callback = FALSE
  /\ sent = <<>> /\ received = 0 /\ consumed = 0 /\ executed = <<>>
  /\ held = FALSE /\ reason = "none"

Lines == Execute \/ ExecuteEnds \/ BareLineFeed \/ Compact
Server == Read \/ ReadEnd \/ TooLong \/ Lines \/ TransferEnds \/ TransferFails
ChannelNext == Send \/ Server \/ Closed

ChannelSpec == ChannelInit /\ [][ChannelNext]_channelVars

-----------------------------------------------------------------------------

ChannelTypeOK ==
  /\ phase \in {"read", "lines", "closed"}
  /\ buf \in Seq(Byte) /\ Len(buf) <= Size - 1
  /\ next \in 1 .. Len(buf) + 1
  /\ data_callback \in BOOLEAN /\ held \in BOOLEAN
  /\ sent \in Seq(Byte) /\ Len(sent) <= MaxSent
  /\ received \in 0 .. Len(sent) /\ consumed \in 0 .. received
  /\ executed \in Seq((1 .. MaxSent) \X (0 .. MaxSent))
  /\ reason \in {"none", "null", "end", "long", "line feed"}

\* The buffer holds what was received and not processed, in order and once.
BufferIsStream ==
  /\ consumed + Len(buf) = received
  /\ buf = SubSeq(sent, consumed + 1, received)

\* The lines of a text that are not empty, as <<first, last>>.
LinesOf(s) ==
  {l \in (1 .. Len(s)) \X (1 .. Len(s)) :
     /\ l[1] <= l[2]
     /\ l[1] = 1 \/ l[1] - 2 \in Crlf(s)
     /\ l[2] + 1 \in Crlf(s)
     /\ \A i \in l[1] .. l[2] : i \notin Crlf(s)}

\* The commands that were executed are the lines the client sent, each once
\* and in the order sent, and none is passed over, whatever the pieces recv()
\* delivers.
LinesInOrder ==
  LET done == {executed[k] : k \in DOMAIN executed} IN
    /\ done \subseteq LinesOf(sent)
    /\ \A l \in LinesOf(sent) : l[2] < consumed + next => l \in done
    /\ \A j, k \in DOMAIN executed : j < k => executed[j][2] < executed[k][1]

\* The loop over recv() also ends on a full buffer, and closes the connection.
\* That happens to a long line only: not to lines that fill the buffer while
\* they are held back, and never to a transfer that is under way.
LongMeansLong ==
  reason = "long" => Len(buf) = Size - 1 /\ Crlf(buf) = {} /\ ~data_callback

\* A complete line waits in the buffer, with no transfer under way, only when
\* a transfer has ended since the last recv(): it is looked at again when the
\* client sends something more.
LineWaitsOnlyAfterTransfer ==
  phase = "read" /\ ~data_callback /\ Crlf(buf) # {} => held

=============================================================================
