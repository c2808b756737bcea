--------------------------- MODULE TransferProofs ---------------------------
(***************************************************************************)
(* What holds of a download for every file length, block size and number   *)
(* of retries, and of an upload for every file length, every chunk smaller *)
(* than the buffer, and every number of retries.                           *)
(***************************************************************************)
EXTENDS SendFile, RecvFile, SequenceTheorems, FiniteSetTheorems, TLAPS

\* A block that is being sent is within the file and not sent to its end.
BlockInv ==
  /\ from \in Nat /\ bytes_read \in Nat /\ sent \in Nat
  /\ from + bytes_read <= Size /\ bytes_read <= Block /\ sent <= bytes_read
  /\ pc = "write" => sent < bytes_read

\* What dataTransferOffset counts: blocks before the one being sent.
Behind == IF pc = "write" THEN from ELSE from + bytes_read

TypeInv == TypeOK /\ BlockInv /\ offset <= Behind

LEMMA ShortestType ==
  ASSUME NEW a \in Nat, NEW b \in Nat
  PROVE  Shortest(a, b) \in Nat /\ Shortest(a, b) <= a /\ Shortest(a, b) <= b
BY DEF Shortest

\* fread returns a block of the file that follows the last one.
LEMMA LoadedInv ==
  ASSUME TypeInv, pc = "read", NEW n \in 0 .. Shortest(Block, Left), Loaded(n),
         ioError' \in BOOLEAN, emptyFault' \in BOOLEAN
  PROVE  TypeInv'
<1>0. Position \in Nat /\ Left \in Nat /\ Left = Size - Position
  BY SizeAssumption DEF TypeInv, BlockInv, Left, Position
<1>1. n \in Nat /\ n <= Block /\ Position + n <= Size /\ Position \in Nat
  <2>1. n \in Nat /\ n <= Block /\ n <= Left
    BY <1>0, BlockAssumption DEF Shortest
  <2>. QED BY <1>0, <2>1, SizeAssumption
<1>2. n <= Shortest(Block, Size - Position)
  BY <1>0, <1>1, BlockAssumption, SizeAssumption DEF Shortest
<1>3. BlockInv'
  BY <1>1 DEF Loaded, BlockInv
<1>4. offset' <= Behind'
  BY <1>1, SizeAssumption DEF Loaded, TypeInv, TypeOK, Behind, Position, BlockInv
<1>5. TypeOK'
  BY <1>1, <1>2, SizeAssumption, BlockAssumption, RetriesAssumption
  DEF Loaded, TypeInv, TypeOK, BlockInv
<1>. QED BY <1>3, <1>4, <1>5 DEF TypeInv

LEMMA StepType == ASSUME TypeInv, [Next]_vars PROVE TypeInv'
<1>1. CASE Fread
  <2>1. Left \in Nat /\ Block \in Nat
    BY SizeAssumption, BlockAssumption DEF TypeInv, BlockInv, Left, Position
  <2>2. Shortest(Block, Left) \in 0 .. Shortest(Block, Left)
    BY <2>1, ShortestType
  <2>. QED BY <1>1, <2>2, LoadedInv DEF Fread, TypeInv, TypeOK
<1>2. CASE FreadFails
  <2>1. Left \in Nat /\ Block \in Nat /\ Block - 1 \in Nat
    BY SizeAssumption, BlockAssumption DEF TypeInv, BlockInv, Left, Position
  <2>2. PICK n \in 0 .. Shortest(Block - 1, Left) :
          Loaded(n) /\ emptyFault' = (emptyFault \/ n = 0)
    BY <1>2 DEF FreadFails
  <2>3. n \in 0 .. Shortest(Block, Left)
    BY <2>1, <2>2 DEF Shortest
  <2>. QED BY <1>2, <2>2, <2>3, LoadedInv DEF FreadFails, TypeInv, TypeOK
<1>3. CASE Send
  <2>1. from + sent + 1 \in 1 .. Size
    BY <1>3, SizeAssumption DEF Send, TypeInv, BlockInv
  <2>2. wire' \in Seq(1 .. Size)
    BY <1>3, <2>1 DEF Send, TypeInv, TypeOK
  <2>3. CASE sent' = bytes_read
    <3>1. /\ offset' = offset + bytes_read
          /\ pc' \in {"read", "done"} /\ result' \in {ReadError, bytes_read}
      BY <1>3, <2>3 DEF Send, BlockDone
    <3>2. /\ offset \in Nat /\ offset <= from /\ bytes_read \in 0 .. Block
          /\ from + bytes_read <= Size /\ from \in Nat
      BY <1>3, SizeAssumption, BlockAssumption DEF Send, TypeInv, TypeOK, BlockInv, Behind
    <3>3. offset' \in 0 .. Size /\ offset' <= Behind'
      BY <1>3, <3>1, <3>2, SizeAssumption DEF Send, Behind
    <3>4. BlockInv'
      BY <1>3, <2>3, <3>1 DEF Send, TypeInv, BlockInv
    <3>5. TypeOK'
      BY <1>3, <2>2, <3>1, <3>2, <3>3, <3>4 DEF Send, TypeInv, TypeOK, BlockInv
    <3>. QED BY <3>3, <3>4, <3>5 DEF TypeInv
  <2>4. CASE sent' # bytes_read
    <3>1. BlockInv' /\ offset' <= Behind'
      BY <1>3, <2>4 DEF Send, TypeInv, BlockInv, Behind
    <3>2. TypeOK'
      BY <1>3, <2>2, <2>4, <3>1 DEF Send, TypeInv, TypeOK, BlockInv
    <3>. QED BY <3>1, <3>2 DEF TypeInv
  <2>. QED BY <2>3, <2>4
<1>4. CASE SendRetry
  <2>1. BlockInv' /\ offset' <= Behind'
    BY <1>4 DEF SendRetry, TypeInv, BlockInv, Behind
  <2>2. TypeOK'
    BY <1>4, <2>1, RetriesAssumption DEF SendRetry, TypeInv, TypeOK, BlockInv
  <2>. QED BY <2>1, <2>2 DEF TypeInv
<1>5. CASE SendFails
  <2>1. BlockInv' /\ offset' <= Behind'
    BY <1>5, SizeAssumption DEF SendFails, TypeInv, TypeOK, BlockInv, Behind
  <2>2. TypeOK'
    BY <1>5, <2>1 DEF SendFails, TypeInv, TypeOK, BlockInv
  <2>. QED BY <2>1, <2>2 DEF TypeInv
<1>6. CASE Done \/ UNCHANGED vars
  BY <1>6 DEF Done, vars, TypeInv, TypeOK, BlockInv, Behind
<1>. QED BY <1>1, <1>2, <1>3, <1>4, <1>5, <1>6 DEF Next, Step

LEMMA InitTypeInv == Init => TypeInv
<1> SUFFICES ASSUME Init PROVE TypeInv
  OBVIOUS
<1>1. BlockInv /\ offset <= Behind
  BY SizeAssumption, BlockAssumption DEF Init, BlockInv, Behind
<1>2. Shortest(Block, Size - from) \in Nat
  BY SizeAssumption, BlockAssumption, ShortestType DEF Init
<1>3. wire \in Seq(1 .. Size)
  BY EmptySeq DEF Init
<1>4. /\ bytes_read \in 0 .. Shortest(Block, Size - from)
      /\ retryNumber \in 0 .. Retries
  BY <1>2, RetriesAssumption DEF Init
<1>5. /\ from \in 0 .. Size /\ offset \in 0 .. Size /\ sent \in 0 .. bytes_read
      /\ pc = "read" /\ result \in 0 .. Block
  BY SizeAssumption, BlockAssumption DEF Init
<1>6. {ioError, gaveUp, resent, emptyFault} \subseteq BOOLEAN
  BY DEF Init
<1>7. TypeOK
  BY <1>3, <1>4, <1>5, <1>6 DEF TypeOK
<1>. QED BY <1>1, <1>7 DEF TypeInv

\* TypeOK: in every download the block is within the file and what has been
\* sent of it within the block.
THEOREM TypeCorrect == Spec => []TypeOK
<1>1. Spec => []TypeInv
  BY InitTypeInv, StepType, PTL DEF Spec
<1>2. TypeInv => TypeOK
  BY DEF TypeInv
<1>. QED BY <1>1, <1>2, PTL

-----------------------------------------------------------------------------

\* Sending a byte adds it to what the client has.
LEMMA SendReceives ==
  ASSUME TypeInv, Send
  PROVE  /\ from + sent + 1 \in 1 .. Size
         /\ Received' = Received \cup {from + sent + 1}
<1>1. from + sent + 1 \in 1 .. Size
  BY SizeAssumption DEF Send, TypeInv, BlockInv
<1>2. wire \in Seq(1 .. Size) /\ wire' = Append(wire, from + sent + 1)
  BY DEF Send, TypeInv, TypeOK
<1>3. /\ Len(wire) \in Nat /\ DOMAIN wire = 1 .. Len(wire)
      /\ DOMAIN wire' = 1 .. Len(wire) + 1
      /\ \A i \in 1 .. Len(wire) : wire'[i] = wire[i]
      /\ wire'[Len(wire) + 1] = from + sent + 1
  BY <1>1, <1>2, LenProperties, AppendProperties
<1>4. Received' = Received \cup {from + sent + 1}
  BY <1>3 DEF Received, Range
<1>. QED BY <1>1, <1>4

\* What Send leaves of the block: sent grows, and the block is over exactly
\* when all of it is sent.
LEMMA SendAdvances ==
  ASSUME TypeInv, Send
  PROVE  /\ pc = "write" /\ sent' = sent + 1
         /\ UNCHANGED <<from, bytes_read, ioError, gaveUp, resent>>
         /\ \/ /\ sent' = bytes_read /\ pc' \in {"read", "done"}
               /\ offset' = offset + bytes_read
            \/ sent' # bytes_read /\ pc' = "write" /\ offset' = offset
BY DEF Send, BlockDone

\* Only Send changes what the client has.
LEMMA OthersReceive ==
  ASSUME [Next]_vars, ~Send PROVE UNCHANGED Received
BY DEF Next, Step, Fread, FreadFails, Loaded, SendRetry, SendFails, Done, vars, Received

\* The client has a prefix of the file that reaches the byte being sent.
Prefix ==
  ~gaveUp => /\ \A k \in Received : 1 .. k \subseteq Received
             /\ 1 .. from + sent \subseteq Received
             /\ pc # "write" => sent = bytes_read

LEMMA PrefixStep == ASSUME TypeInv, Prefix, [Next]_vars PROVE Prefix'
<1> SUFFICES ASSUME ~gaveUp'
             PROVE  /\ \A k \in Received' : 1 .. k \subseteq Received'
                    /\ 1 .. from' + sent' \subseteq Received'
                    /\ pc' # "write" => sent' = bytes_read'
  BY DEF Prefix
<1>1. CASE Send
  <2>1. /\ Received' = Received \cup {from + sent + 1}
        /\ sent' = sent + 1 /\ from' = from /\ bytes_read' = bytes_read
        /\ ~gaveUp /\ from + sent \in Nat /\ from \in Nat /\ sent \in Nat
        /\ pc' # "write" => sent' = bytes_read'
    BY <1>1, SendReceives, SendAdvances DEF TypeInv, BlockInv
  <2>2. 1 .. from + sent + 1 \subseteq Received'
    BY <2>1 DEF Prefix
  <2>3. \A k \in Received' : 1 .. k \subseteq Received'
    BY <2>1, <2>2 DEF Prefix
  <2>. QED BY <2>1, <2>2, <2>3
<1>2. CASE ~Send
  <2>1. Received' = Received
    BY <1>2, OthersReceive
  <2>2. CASE Fread \/ FreadFails
    <3>1. PICK n : Loaded(n)
      BY <2>2 DEF Fread, FreadFails
    <3>2. pc = "read" /\ ~gaveUp
      BY <2>2, <3>1 DEF Fread, FreadFails, Loaded
    <3>3. from' + sent' = from + sent /\ (pc' # "write" => sent' = bytes_read')
      BY <3>1, <3>2 DEF Loaded, Prefix, Position, TypeInv, BlockInv
    <3>. QED BY <2>1, <3>2, <3>3 DEF Prefix
  <2>3. CASE SendRetry
    <3>1. /\ pc' = "write" /\ from' = from /\ sent' = 0 /\ ~gaveUp
          /\ from \in Nat /\ sent \in Nat
      BY <2>3 DEF SendRetry, TypeInv, BlockInv
    <3>2. 1 .. from' + sent' \subseteq 1 .. from + sent
      BY <3>1
    <3>. QED BY <2>1, <3>1, <3>2 DEF Prefix
  <2>4. CASE SendFails
    BY <2>4 DEF SendFails
  <2>5. CASE Done \/ UNCHANGED vars
    BY <2>1, <2>5 DEF Done, vars, Prefix
  <2>. QED BY <1>2, <2>2, <2>3, <2>4, <2>5 DEF Next, Step
<1>. QED BY <1>1, <1>2

LEMMA InitPrefix == Init => Prefix
<1> SUFFICES ASSUME Init PROVE Prefix
  OBVIOUS
<1>1. Received = {} /\ from + sent = 0
  BY DEF Init, Received, Range
<1>. QED BY <1>1 DEF Prefix, Init

\* RetriesLoseNothing: the retries of network_write repeat bytes and skip none.
THEOREM NoByteIsSkipped == Spec => []RetriesLoseNothing
<1>1. Init => TypeInv /\ Prefix
  BY InitTypeInv, InitPrefix
<1>2. TypeInv /\ Prefix /\ [Next]_vars => (TypeInv /\ Prefix)'
  BY StepType, PrefixStep
<1>3. Prefix => RetriesLoseNothing
  BY DEF Prefix, RetriesLoseNothing
<1>. QED BY <1>1, <1>2, <1>3, PTL DEF Spec

-----------------------------------------------------------------------------

Calm == ~resent /\ ~gaveUp /\ ~ioError

\* Without a fault the client has exactly the first bytes, the count is that
\* of the blocks before, and a block is short only at the end of the file.
CalmInv ==
  Calm => /\ Len(wire) = from + sent /\ \A k \in 1 .. Len(wire) : wire[k] = k
          /\ offset = Behind
          /\ pc # "write" => sent = bytes_read
          /\ pc = "write" => bytes_read = Block \/ from + bytes_read = Size
          /\ pc = "done" => from = Size /\ bytes_read = 0 /\ result = 0

LEMMA CalmStep == ASSUME TypeInv, CalmInv, [Next]_vars PROVE CalmInv'
<1> SUFFICES ASSUME Calm'
             PROVE  CalmInv'
  BY DEF CalmInv
<1>1. CASE Fread
  <2>1. Position \in Nat /\ Left \in Nat /\ Left = Size - Position
    BY SizeAssumption DEF TypeInv, BlockInv, Left, Position
  <2> DEFINE n == Shortest(Block, Left)
  <2>2. n \in Nat /\ (n = Block \/ n = Left) /\ (n = 0 => Left = 0)
    BY <2>1, BlockAssumption DEF Shortest
  <2>3. /\ pc = "read" /\ from' = Position /\ bytes_read' = n /\ sent' = 0
        /\ UNCHANGED <<offset, wire>> /\ Calm
        /\ pc' = IF n = 0 THEN "done" ELSE "write"
        /\ n = 0 => result' = 0
    BY <1>1 DEF Fread, Loaded, Calm
  <2> HIDE DEF n
  <2>4. Len(wire) = Position /\ offset = Position
    BY <2>3 DEF CalmInv, Position, Behind, TypeInv, BlockInv
  <2>5. offset' = Behind'
    BY <2>1, <2>2, <2>3, <2>4 DEF Behind
  <2>6. bytes_read' = Block \/ from' + bytes_read' = Size
    BY <2>1, <2>2, <2>3, SizeAssumption
  <2>7. pc' = "done" => from' = Size /\ bytes_read' = 0 /\ result' = 0
    BY <2>1, <2>2, <2>3, SizeAssumption
  <2>8. Len(wire') = from' + sent'
    BY <2>1, <2>3, <2>4
  <2>9. pc' # "write" => sent' = bytes_read'
    BY <2>3
  <2>10. \A k \in 1 .. Len(wire') : wire'[k] = k
    BY <2>3 DEF CalmInv
  <2>. QED BY <2>5, <2>6, <2>7, <2>8, <2>9, <2>10 DEF CalmInv
<1>2. CASE Send
  <2>1. /\ from + sent + 1 \in 1 .. Size /\ wire \in Seq(1 .. Size)
        /\ from \in Nat /\ sent \in Nat /\ bytes_read \in Nat
    BY <1>2, SendReceives DEF TypeInv, TypeOK, BlockInv
  <2>2. pc = "write" /\ sent' = sent + 1 /\ from' = from /\ bytes_read' = bytes_read /\ Calm
    BY <1>2, SendAdvances DEF Calm
  <2>3. wire' = Append(wire, from + sent + 1)
    BY <1>2 DEF Send
  <2>4. /\ Len(wire) = from + sent /\ \A k \in 1 .. Len(wire) : wire[k] = k
        /\ offset = from /\ (bytes_read = Block \/ from + bytes_read = Size)
    BY <2>2 DEF CalmInv, Behind
  <2>5. Len(wire') = from' + sent' /\ \A k \in 1 .. Len(wire') : wire'[k] = k
    <3>1. /\ Len(wire') = Len(wire) + 1
          /\ \A k \in 1 .. Len(wire) : wire'[k] = wire[k]
          /\ wire'[Len(wire) + 1] = from + sent + 1
      BY <2>1, <2>3, AppendProperties
    <3>. QED BY <2>1, <2>2, <2>4, <3>1
  <2>6. CASE sent' # bytes_read
    <3>1. pc' = "write" /\ offset' = offset
      BY <1>2, <2>6, SendAdvances
    <3>. QED BY <2>2, <2>4, <2>5, <3>1 DEF CalmInv, Behind
  <2>7. CASE sent' = bytes_read
    <3>1. ~ioError /\ (bytes_read < Block => AtEof)
      BY <2>1, <2>2, <2>4, BlockAssumption DEF Calm, AtEof, Position
    <3>2. ~ShortRead(AtEof)
      BY <3>1 DEF ShortRead
    <3>3. pc' = "read" /\ offset' = offset + bytes_read
      BY <1>2, <2>7, <3>2 DEF Send, BlockDone
    <3>. QED BY <2>2, <2>4, <2>5, <2>7, <3>3 DEF CalmInv, Behind
  <2>. QED BY <2>6, <2>7
<1>3. CASE FreadFails \/ SendRetry \/ SendFails
  BY <1>3 DEF FreadFails, SendRetry, SendFails, Calm
<1>4. CASE Done \/ UNCHANGED vars
  BY <1>4 DEF Done, vars, CalmInv, Calm, Behind
<1>. QED BY <1>1, <1>2, <1>3, <1>4 DEF Next, Step

LEMMA InitCalmInv == Init => CalmInv
BY DEF Init, CalmInv, Behind

LEMMA CalmInvIsExact == ASSUME TypeInv, CalmInv PROVE CalmIsExact
<1> SUFFICES ASSUME Calm
             PROVE  /\ wire = [k \in 1 .. from + sent |-> k]
                    /\ pc = "done" => from = Size /\ offset = Size /\ result = 0
  BY DEF CalmIsExact, Calm
<1>1. wire \in [1 .. Len(wire) -> 1 .. Size]
  BY LenProperties DEF TypeInv, TypeOK
<1>2. wire = [k \in 1 .. from + sent |-> k]
  BY <1>1 DEF CalmInv
<1>3. pc = "done" => from = Size /\ offset = Size /\ result = 0
  BY SizeAssumption DEF CalmInv, Behind
<1>. QED BY <1>2, <1>3

\* CalmIsExact: a download that meets no error is the file.
THEOREM CalmDownloadIsTheFile == Spec => []CalmIsExact
<1>1. Init => TypeInv /\ CalmInv
  BY InitTypeInv, InitCalmInv
<1>2. TypeInv /\ CalmInv /\ [Next]_vars => (TypeInv /\ CalmInv)'
  BY StepType, CalmStep
<1>3. TypeInv /\ CalmInv => CalmIsExact
  BY CalmInvIsExact
<1>. QED BY <1>1, <1>2, <1>3, PTL DEF Spec

-----------------------------------------------------------------------------

\* What the client has of the blocks behind the one being sent.
Had == Received \cap (1 .. Behind)

CountInv ==
  /\ Cardinality(Had) >= offset
  /\ pc = "write" => from + 1 .. from + sent \subseteq Received

LEMMA ReceivedFinite ==
  ASSUME TypeInv
  PROVE  /\ Received \subseteq 1 .. Size /\ IsFiniteSet(Received)
         /\ Cardinality(Received) \in Nat
<1>1. wire \in [1 .. Len(wire) -> 1 .. Size]
  BY LenProperties DEF TypeInv, TypeOK
<1>2. Received \subseteq 1 .. Size
  BY <1>1 DEF Received, Range
<1>3. IsFiniteSet(1 .. Size)
  BY FS_Interval, SizeAssumption
<1>. QED BY <1>2, <1>3, FS_Subset, FS_CardinalityType

LEMMA CountStep == ASSUME TypeInv, CountInv, [Next]_vars PROVE CountInv'
<1>. /\ from \in Nat /\ bytes_read \in Nat /\ sent \in Nat /\ offset \in Nat
  BY SizeAssumption DEF TypeInv, TypeOK, BlockInv
<1>1. CASE Send
  <2>1. /\ Received' = Received \cup {from + sent + 1}
        /\ pc = "write" /\ sent' = sent + 1 /\ from' = from /\ bytes_read' = bytes_read
    BY <1>1, SendReceives, SendAdvances
  <2>2. from' + 1 .. from' + sent' \subseteq Received'
    BY <2>1 DEF CountInv
  <2>3. Had = Received \cap (1 .. from)
    BY <2>1 DEF Had, Behind
  <2>4. CASE pc' = "write"
    <3>1. offset' = offset
      BY <1>1, <2>4, SendAdvances
    <3>2. Had' = Had
      BY <2>1, <2>3, <2>4 DEF Had, Behind
    <3>. QED BY <2>2, <3>1, <3>2 DEF CountInv
  <2>5. CASE pc' # "write"
    <3>1. offset' = offset + bytes_read /\ sent' = bytes_read
      BY <1>1, <2>5, SendAdvances
    <3> DEFINE B == from + 1 .. from + bytes_read
    <3>2. Had \cup B \subseteq Had'
      BY <2>1, <2>2, <2>3, <2>5, <3>1 DEF Had, Behind
    <3>3. IsFiniteSet(B) /\ Cardinality(B) = bytes_read
      BY FS_Interval
    <3>4. IsFiniteSet(Had) /\ IsFiniteSet(Had') /\ Cardinality(Had) \in Nat
      <4>1. IsFiniteSet(Received)
        BY ReceivedFinite
      <4>2. IsFiniteSet(Received')
        BY <2>1, <4>1, FS_AddElement
      <4>. QED BY <4>1, <4>2, FS_Intersection, FS_CardinalityType DEF Had
    <3>5. Had \cap B = {}
      BY <2>3
    <3>6. Cardinality(Had \cup B) = Cardinality(Had) + bytes_read
      <4>1. Cardinality(Had \cap B) = 0
        BY <3>5, FS_EmptySet
      <4> HIDE DEF B
      <4>2. Cardinality(Had \cup B) = Cardinality(Had) + Cardinality(B) - Cardinality(Had \cap B)
        BY <3>3, <3>4, FS_Union
      <4>. QED BY <3>3, <3>4, <4>1, <4>2
    <3>7. Cardinality(Had \cup B) <= Cardinality(Had')
      BY <3>2, <3>4, FS_Subset
    <3>8. Cardinality(Had') \in Nat
      BY <3>4, FS_CardinalityType
    <3>9. Cardinality(Had') >= offset'
      BY <3>1, <3>4, <3>6, <3>7, <3>8 DEF CountInv
    <3>. QED BY <2>5, <3>9 DEF CountInv
  <2>. QED BY <2>4, <2>5
<1>2. CASE ~Send
  <2>1. Received' = Received
    BY <1>2, OthersReceive
  <2>2. CASE Fread \/ FreadFails
    <3>1. PICK n : Loaded(n)
      BY <2>2 DEF Fread, FreadFails
    <3>2. /\ pc = "read" /\ sent' = 0 /\ from' = from + bytes_read
          /\ offset' = offset /\ (pc' # "write" => bytes_read' = 0)
      BY <2>2, <3>1 DEF Fread, FreadFails, Loaded, Position
    <3>3. Had' = Had
      BY <2>1, <3>2 DEF Had, Behind
    <3>. QED BY <3>2, <3>3 DEF CountInv
  <2>3. CASE SendRetry
    <3>1. Had' = Had /\ offset' = offset /\ sent' = 0 /\ from' = from
      BY <2>1, <2>3 DEF SendRetry, Had, Behind
    <3>. QED BY <3>1 DEF CountInv
  <2>4. CASE SendFails
    <3>1. /\ pc = "write" /\ pc' = "read" /\ from' = from /\ bytes_read' = bytes_read
          /\ offset' = offset
      BY <2>4 DEF SendFails
    <3>2. Had \subseteq Had'
      BY <2>1, <3>1 DEF Had, Behind
    <3>3. IsFiniteSet(Had')
      BY <2>1, ReceivedFinite, FS_Intersection DEF Had
    <3>4. /\ Cardinality(Had) <= Cardinality(Had')
          /\ Cardinality(Had) \in Nat /\ Cardinality(Had') \in Nat
      BY <3>2, <3>3, FS_Subset, FS_CardinalityType
    <3>. QED BY <3>1, <3>4 DEF CountInv
  <2>5. CASE Done \/ UNCHANGED vars
    <3>1. UNCHANGED <<pc, from, bytes_read, sent, offset>>
      BY <2>5 DEF Done, vars
    <3>. QED BY <2>1, <3>1 DEF CountInv, Had, Behind
  <2>. QED BY <1>2, <2>2, <2>3, <2>4, <2>5 DEF Next, Step
<1>. QED BY <1>1, <1>2

LEMMA InitCountInv == Init => CountInv
<1> SUFFICES ASSUME Init PROVE CountInv
  OBVIOUS
<1>1. Had = {}
  BY DEF Init, Had, Received, Range
<1>. QED BY <1>1, FS_EmptySet DEF Init, CountInv

LEMMA CountInvIsEnough == ASSUME TypeInv, CountInv PROVE CountedIsReceived
<1>1. Had \subseteq Received
  BY DEF Had
<1>2. /\ IsFiniteSet(Received) /\ Cardinality(Received) \in Nat
      /\ Cardinality(Had) <= Cardinality(Received) /\ Cardinality(Had) \in Nat
  BY <1>1, ReceivedFinite, FS_Subset, FS_CardinalityType
<1>. QED BY <1>2, SizeAssumption DEF CountInv, CountedIsReceived, TypeInv, TypeOK

\* CountedIsReceived: dataTransferOffset never exceeds what the client got.
THEOREM CountIsHonest == Spec => []CountedIsReceived
<1>1. Init => TypeInv /\ CountInv
  BY InitTypeInv, InitCountInv
<1>2. TypeInv /\ CountInv /\ [Next]_vars => (TypeInv /\ CountInv)'
  BY StepType, CountStep
<1>3. TypeInv /\ CountInv => CountedIsReceived
  BY CountInvIsEnough
<1>. QED BY <1>1, <1>2, <1>3, PTL DEF Spec

-----------------------------------------------------------------------------

\* send_from_file returns 0 only at the end of the file, or after an fread
\* that failed on its first byte.
EndInv == pc = "done" /\ result = 0 /\ ~emptyFault => Position = Size

LEMMA EndStep == ASSUME TypeInv, EndInv, [Next]_vars PROVE EndInv'
<1>1. CASE Fread
  <2>1. Position \in Nat /\ Left \in Nat /\ Left = Size - Position
    BY SizeAssumption DEF TypeInv, BlockInv, Left, Position
  <2>2. Shortest(Block, Left) = 0 => Left = 0
    BY <2>1, BlockAssumption DEF Shortest
  <2>3. pc' = "done" => from' = Position /\ bytes_read' = 0 /\ Left = 0
    BY <1>1, <2>2 DEF Fread, Loaded
  <2>. QED BY <2>1, <2>3, SizeAssumption DEF EndInv, Position
<1>2. CASE FreadFails
  <2>1. PICK n \in 0 .. Shortest(Block - 1, Left) :
          Loaded(n) /\ emptyFault' = (emptyFault \/ n = 0)
    BY <1>2 DEF FreadFails
  <2>2. pc' = "done" => emptyFault'
    BY <1>2, <2>1 DEF FreadFails, Loaded
  <2>. QED BY <2>2 DEF EndInv
<1>3. CASE Send
  <2>1. pc' = "done" => result' = ReadError
    BY <1>3 DEF Send, BlockDone
  <2>. QED BY <2>1 DEF EndInv, ReadError
<1>4. CASE SendRetry \/ SendFails
  BY <1>4 DEF SendRetry, SendFails, EndInv
<1>5. CASE Done \/ UNCHANGED vars
  <2>1. UNCHANGED vars
    BY <1>5 DEF Done
  <2>. QED BY <2>1 DEF vars, EndInv, Position
<1>. QED BY <1>1, <1>2, <1>3, <1>4, <1>5 DEF Next, Step

LEMMA EndIsComplete == ASSUME TypeInv, Prefix, EndInv PROVE SuccessIsComplete
<1> SUFFICES ASSUME pc = "done", result = 0, ~gaveUp, ~emptyFault
             PROVE  Received = 1 .. Size
  BY DEF SuccessIsComplete
<1>1. from + sent = Size
  BY DEF EndInv, Prefix, Position
<1>2. 1 .. Size \subseteq Received
  BY <1>1 DEF Prefix
<1>. QED BY <1>2, ReceivedFinite

\* SuccessIsComplete: what is reported as complete is.
THEOREM SuccessMeansComplete == Spec => []SuccessIsComplete
<1>1. Init => TypeInv /\ Prefix /\ EndInv
  <2>1. Init => EndInv
    BY DEF Init, EndInv
  <2>. QED BY <2>1, InitTypeInv, InitPrefix
<1>2. TypeInv /\ Prefix /\ EndInv /\ [Next]_vars => (TypeInv /\ Prefix /\ EndInv)'
  BY StepType, PrefixStep, EndStep
<1>3. TypeInv /\ Prefix /\ EndInv => SuccessIsComplete
  BY EndIsComplete
<1>. QED BY <1>1, <1>2, <1>3, PTL DEF Spec

-----------------------------------------------------------------------------
(***************************************************************************)
(* Uploads.                                                                *)
(***************************************************************************)

\* What fwrite does to the array, the stream's buffer and the file.
LEMMA MovedType ==
  ASSUME NEW a \in [Index -> 0 .. MaxSize], NEW src \in Nat, NEW dst \in Nat,
         NEW n \in Nat, src + n <= Buf, dst + n <= Buf
  PROVE  Moved(a, src, dst, n) \in [Index -> 0 .. MaxSize]
<1>1. \A i \in Index : i \in dst + 1 .. dst + n => i - dst + src \in Index
  BY BufferAssumption DEF Index
<1>. QED BY <1>1 DEF Moved

LEMMA ArrayIsSequence ==
  ASSUME NEW a \in [Index -> 0 .. MaxSize]
  PROVE  a \in Seq(0 .. MaxSize) /\ Len(a) = Buf
<1>1. Buf \in Nat /\ a \in [1 .. Buf -> 0 .. MaxSize]
  BY BufferAssumption DEF Index
<1>2. a \in Seq(0 .. MaxSize)
  BY <1>1, SeqDef
<1>. QED BY <1>1, <1>2, LenProperties

LEMMA FilledType ==
  ASSUME UploadTypeOK, pc = "write"
  PROVE  /\ Filled \in [Index -> 0 .. MaxSize]
         /\ Room \in 1 .. Buf /\ Room = Buf - pending
         /\ received \in Nat /\ received < Buf /\ pending \in Nat /\ offset \in Nat
<1>1. /\ Room \in 1 .. Buf /\ Room = Buf - pending /\ pending \in Nat
      /\ received \in Nat /\ received < Buf /\ offset \in Nat
  BY BufferAssumption, MaxSizeAssumption DEF UploadTypeOK, Room
<1>2. mem \in [Index -> 0 .. MaxSize]
  BY DEF UploadTypeOK
<1>3. CASE Fits
  BY <1>1, <1>2, <1>3, MovedType, BufferAssumption DEF Filled, Fits
<1>4. CASE ~Fits
  BY <1>1, <1>2, <1>4, MovedType, BufferAssumption DEF Filled, Fits
<1>. QED BY <1>1, <1>3, <1>4

\* Stream takes the whole chunk: what is written and what is pending grow by
\* as much as was received.
LEMMA StreamTakes ==
  ASSUME UploadTypeOK, pc = "write", Stream
  PROVE  /\ mem' \in [Index -> 0 .. MaxSize] /\ pending' \in 0 .. Buf - 1
         /\ disk' \in Seq(0 .. MaxSize)
         /\ Len(disk') + pending' = Len(disk) + pending + received
<1>1. /\ Filled \in [Index -> 0 .. MaxSize] /\ disk \in Seq(0 .. MaxSize)
      /\ Room \in 1 .. Buf /\ Room = Buf - pending
      /\ received \in Nat /\ received < Buf /\ pending \in Nat /\ Len(disk) \in Nat
  BY FilledType, LenProperties DEF UploadTypeOK
<1>2. CASE Fits
  <2>1. mem' = Filled /\ pending' = pending + received /\ disk' = disk
    BY <1>2 DEF Stream
  <2>. QED BY <1>1, <1>2, <2>1, BufferAssumption DEF Fits
<1>3. CASE ~Fits
  <2>1. /\ mem' = Moved(Filled, Room, 0, received - Room)
        /\ pending' = received - Room /\ disk' = disk \o Filled
    BY <1>3 DEF Stream
  <2>2. received - Room \in Nat /\ received - Room < Buf
    BY <1>1, <1>3, BufferAssumption DEF Fits
  <2>3. mem' \in [Index -> 0 .. MaxSize]
    <3> DEFINE rest == received - Room
    <3>1. rest \in Nat /\ Room \in Nat /\ 0 \in Nat /\ Room + rest <= Buf /\ 0 + rest <= Buf
      BY <1>1, <2>2, BufferAssumption
    <3> HIDE DEF rest
    <3>2. Moved(Filled, Room, 0, rest) \in [Index -> 0 .. MaxSize]
      BY <1>1, <3>1, MovedType
    <3>. QED BY <2>1, <3>2 DEF rest
  <2>4. Filled \in Seq(0 .. MaxSize) /\ Len(Filled) = Buf
    BY <1>1, ArrayIsSequence
  <2>5. disk' \in Seq(0 .. MaxSize) /\ Len(disk') = Len(disk) + Buf
    BY <1>1, <2>1, <2>4, ConcatProperties
  <2>. QED BY <1>1, <2>1, <2>2, <2>3, <2>5, BufferAssumption
<1>. QED BY <1>2, <1>3

-----------------------------------------------------------------------------

\* The bytes taken from the socket are each in one place; a failed write
\* loses some of them and ends the thread.
Accounted ==
  IF writeError THEN pc \in {"join", "closed"} /\ offset + lost <= size
                ELSE next - 1 = offset + received + lost
UploadTypeInv == UploadTypeOK /\ Accounted

LEMMA InitType == UploadInit => UploadTypeInv
<1> SUFFICES ASSUME UploadInit PROVE UploadTypeInv
  OBVIOUS
<1>1. mem \in [Index -> 0 .. MaxSize] /\ disk \in Seq(0 .. MaxSize)
  BY MaxSizeAssumption, EmptySeq DEF UploadInit
<1>2. {writeError, closeError} \subseteq BOOLEAN /\ ~writeError
  BY DEF UploadInit
<1>3. Accounted
  BY <1>2 DEF UploadInit, Accounted
<1>. QED BY <1>1, <1>2, <1>3, MaxSizeAssumption, BufferAssumption, RetriesAssumption
         DEF UploadInit, UploadTypeInv, UploadTypeOK

LEMMA UploadStepType == ASSUME UploadTypeInv, [UploadNext]_uploadVars PROVE UploadTypeInv'
<1>. /\ size \in 0 .. MaxSize /\ next \in 1 .. size + 1 /\ MaxSize \in Nat
     /\ received \in 0 .. Chunk /\ Chunk \in Nat \ {0} /\ Buf \in Nat /\ Chunk < Buf
     /\ offset \in 0 .. MaxSize /\ lost \in 0 .. MaxSize
     /\ pending \in 0 .. Buf - 1 /\ mem \in [Index -> 0 .. MaxSize]
     /\ pc = "recv" => received < Chunk
  BY MaxSizeAssumption, BufferAssumption DEF UploadTypeInv, UploadTypeOK
<1>1. CASE Recv
  <2>1. /\ mem' \in [Index -> 0 .. MaxSize]
    <3>1. next \in 0 .. MaxSize
      BY <1>1 DEF Recv
    <3>. QED BY <1>1, <3>1 DEF Recv
  <2>2. Accounted'
    BY <1>1 DEF Recv, file, UploadTypeInv, Accounted
  <2>. QED BY <1>1, <2>1, <2>2 DEF Recv, UploadTypeInv, UploadTypeOK, file
<1>2. CASE ClientEof
  BY <1>2 DEF ClientEof, UploadTypeInv, UploadTypeOK, Accounted, client, file
<1>3. CASE RecvRetry
  <2>1. Accounted' /\ lost' \in 0 .. MaxSize
    BY <1>3 DEF RecvRetry, UploadTypeInv, UploadTypeOK, Accounted, client, file
  <2>. QED BY <1>3, <2>1, RetriesAssumption DEF RecvRetry, UploadTypeInv, UploadTypeOK, client, file
<1>4. CASE RecvFails
  <2>1. Accounted' /\ lost' \in 0 .. MaxSize
    BY <1>4 DEF RecvFails, UploadTypeInv, UploadTypeOK, Accounted, client, file
  <2>. QED BY <1>4, <2>1 DEF RecvFails, UploadTypeInv, UploadTypeOK, client, file
<1>5. CASE Fwrite
  <2>1. /\ mem' \in [Index -> 0 .. MaxSize] /\ pending' \in 0 .. Buf - 1
        /\ disk' \in Seq(0 .. MaxSize)
    BY <1>5, StreamTakes DEF Fwrite, UploadTypeInv
  <2>2. Accounted' /\ offset' \in 0 .. MaxSize
    BY <1>5 DEF Fwrite, UploadTypeInv, UploadTypeOK, Accounted, client
  <2>. QED BY <1>5, <2>1, <2>2 DEF Fwrite, UploadTypeInv, UploadTypeOK, client
<1>6. CASE FwriteFails
  <2>1. mem' \in [Index -> 0 .. MaxSize]
    BY <1>6, FilledType DEF FwriteFails, UploadTypeInv
  <2>2. Accounted'
    BY <1>6 DEF FwriteFails, UploadTypeInv, Accounted, client
  <2>. QED BY <1>6, <2>1, <2>2 DEF FwriteFails, UploadTypeInv, UploadTypeOK, client
<1>7. CASE Fclose
  <2>1. SubSeq(mem, 1, pending) \in Seq(0 .. MaxSize)
    BY ArrayIsSequence, SubSeqProperties
  <2>2. disk' \in Seq(0 .. MaxSize)
    BY <1>7, <2>1, ConcatProperties DEF Fclose, UploadTypeInv, UploadTypeOK
  <2>. QED BY <1>7, <2>2 DEF Fclose, UploadTypeInv, UploadTypeOK, Accounted, client
<1>8. CASE FcloseFails
  BY <1>8 DEF FcloseFails, UploadTypeInv, UploadTypeOK, Accounted, client
<1>9. CASE UploadDone \/ UNCHANGED uploadVars
  <2>1. UNCHANGED uploadVars
    BY <1>9 DEF UploadDone
  <2>. QED BY <2>1 DEF uploadVars, UploadTypeInv, UploadTypeOK, Accounted
<1>. QED BY <1>1, <1>2, <1>3, <1>4, <1>5, <1>6, <1>7, <1>8, <1>9
         DEF UploadNext, Thread, Close

\* UploadTypeOK: the chunk stays in transferBuffer and the stream's buffer never
\* holds more than it can.
THEOREM UploadTypeCorrect == UploadSpec => []UploadTypeOK
<1>1. UploadSpec => []UploadTypeInv
  BY InitType, UploadStepType, PTL DEF UploadSpec
<1>2. UploadTypeInv => UploadTypeOK
  BY DEF UploadTypeInv
<1>. QED BY <1>1, <1>2, PTL

\* BytesAccounted: every byte the client sent is counted, in the chunk or
\* dropped by an error.
THEOREM NoByteVanishes == UploadSpec => []BytesAccounted
<1>1. UploadSpec => []UploadTypeInv
  BY InitType, UploadStepType, PTL DEF UploadSpec
<1>2. UploadTypeInv => BytesAccounted
  BY DEF UploadTypeInv, Accounted, BytesAccounted
<1>. QED BY <1>1, <1>2, PTL

-----------------------------------------------------------------------------

\* fwrite and fclose pass on as many bytes as were counted.
LEMMA LengthStep == ASSUME UploadTypeInv, LengthKept, [UploadNext]_uploadVars PROVE LengthKept'
<1> SUFFICES ASSUME ~writeError', ~closeError' PROVE offset' = Len(disk') + pending'
  BY DEF LengthKept
<1>. /\ disk \in Seq(0 .. MaxSize) /\ Len(disk) \in Nat /\ offset \in Nat
     /\ pending \in Nat /\ received \in Nat
  BY LenProperties, MaxSizeAssumption, BufferAssumption DEF UploadTypeInv, UploadTypeOK
<1>1. CASE Fwrite
  <2>1. Len(disk') + pending' = Len(disk) + pending + received
    BY <1>1, StreamTakes DEF Fwrite, UploadTypeInv
  <2>. QED BY <1>1, <2>1 DEF Fwrite, LengthKept
<1>2. CASE Fclose
  <2>1. /\ SubSeq(mem, 1, pending) \in Seq(0 .. MaxSize)
        /\ Len(SubSeq(mem, 1, pending)) = pending
    <3>1. /\ mem \in [Index -> 0 .. MaxSize] /\ mem \in Seq(0 .. MaxSize)
          /\ Len(mem) = Buf /\ pending \in 0 .. Buf
      BY ArrayIsSequence, BufferAssumption DEF UploadTypeInv, UploadTypeOK
    <3>. QED BY <3>1, SubSeqProperties
  <2>2. Len(disk') = Len(disk) + pending
    BY <1>2, <2>1, ConcatProperties DEF Fclose
  <2>. QED BY <1>2, <2>2 DEF Fclose, LengthKept
<1>3. CASE Recv \/ ClientEof \/ RecvRetry \/ RecvFails \/ UploadDone \/ UNCHANGED uploadVars
  <2>1. UNCHANGED file
    BY <1>3 DEF Recv, ClientEof, RecvRetry, RecvFails, UploadDone, uploadVars, file
  <2>. QED BY <2>1 DEF file, LengthKept
<1>4. CASE FwriteFails \/ FcloseFails
  BY <1>4 DEF FwriteFails, FcloseFails
<1>. QED BY <1>1, <1>2, <1>3, <1>4 DEF UploadNext, Thread, Close

\* LengthKept: the file has the length that was counted.
THEOREM LengthIsRight == UploadSpec => []LengthKept
<1>1. UploadInit => UploadTypeInv /\ LengthKept
  <2>1. UploadInit => LengthKept
    BY EmptySeq DEF UploadInit, LengthKept
  <2>. QED BY <2>1, InitType
<1>2. UploadTypeInv /\ LengthKept /\ [UploadNext]_uploadVars => (UploadTypeInv /\ LengthKept)'
  BY UploadStepType, LengthStep
<1>. QED BY <1>1, <1>2, PTL DEF UploadSpec

-----------------------------------------------------------------------------

\* A file of one chunk: being received, in the stream's buffer, on the disk.
InChunk ==
  /\ pc \in {"recv", "write"} /\ pending = 0 /\ disk = <<>>
  /\ next = received + 1
  /\ \A k \in 1 .. received : mem[k] = k
  /\ pc = "write" => received = size
InBuffer ==
  /\ pc \in {"recv", "join"} /\ received = 0 /\ next = size + 1
  /\ pending = size /\ disk = <<>>
  /\ \A k \in 1 .. size : mem[k] = k
OnDisk == pc = "closed" /\ disk = [k \in 1 .. size |-> k]

Smooth == size <= Chunk /\ lost = 0 /\ result >= 0 /\ ~closeError

OneChunkInv ==
  /\ pc \in {"recv", "write"} => result \in Nat
  /\ Smooth => InChunk \/ InBuffer \/ OnDisk

LEMMA OneChunkStep == ASSUME UploadTypeInv, OneChunkInv, [UploadNext]_uploadVars PROVE OneChunkInv'
<1>. /\ size \in Nat /\ next \in Nat /\ received \in Nat /\ lost \in Nat
     /\ pending \in Nat /\ received <= Chunk /\ Chunk \in Nat /\ Buf \in Nat
     /\ Chunk < Buf /\ next <= size + 1 /\ result \in Int
     /\ (pc = "recv" => received < Chunk) /\ (pc = "write" => received > 0)
  BY MaxSizeAssumption, BufferAssumption
  DEF UploadTypeInv, UploadTypeOK, SocketError, WriteError
<1>. mem \in [Index -> 0 .. MaxSize]
  BY DEF UploadTypeInv, UploadTypeOK
<1>1. CASE Recv
  <2>1. mem' = [mem EXCEPT ![received + 1] = next]
    BY <1>1 DEF Recv
  <2>2. ASSUME Smooth' PROVE InChunk'
    <3>1. Smooth /\ pc = "recv" /\ next <= size
      BY <1>1, <2>2 DEF Recv, Smooth, file
    <3>2. InChunk
      BY <3>1 DEF OneChunkInv, InBuffer, OnDisk
    <3>3. \A k \in 1 .. received + 1 : mem'[k] = k
      <4>1. received + 1 \in Index /\ \A k \in 1 .. received : k \in Index
        BY <3>1 DEF Index
      <4>. QED BY <2>1, <3>2, <4>1 DEF InChunk
    <3>4. pc' = "write" => received' = size'
      <4>1. received' = received + 1 /\ size' = size /\ next = received + 1
        BY <1>1, <3>2 DEF Recv, InChunk
      <4>2. pc' = "write" => received' = Chunk
        BY <1>1 DEF Recv
      <4>. QED BY <3>1, <4>1, <4>2 DEF Smooth
    <3>. QED BY <1>1, <3>2, <3>3, <3>4 DEF Recv, InChunk, file
  <2>3. result' \in Nat
    BY <1>1 DEF Recv, OneChunkInv
  <2>. QED BY <2>2, <2>3 DEF OneChunkInv
<1>2. CASE ClientEof
  <2>1. pc' \in {"recv", "write"} => result' \in Nat
    BY <1>2 DEF ClientEof, OneChunkInv
  <2>2. ASSUME Smooth' PROVE InChunk' \/ InBuffer'
    <3>1. Smooth /\ pc = "recv" /\ next > size
      BY <1>2, <2>2 DEF ClientEof, Smooth, client, file, OneChunkInv
    <3>2. CASE InChunk
      <4>1. received = size
        BY <3>1, <3>2 DEF InChunk
      <4>2. CASE received > 0
        BY <1>2, <3>2, <4>1, <4>2 DEF ClientEof, InChunk, client, file
      <4>3. CASE received = 0
        BY <1>2, <3>2, <4>1, <4>3 DEF ClientEof, InChunk, InBuffer, client, file
      <4>. QED BY <4>2, <4>3
    <3>3. CASE InBuffer
      BY <1>2, <3>3 DEF ClientEof, InBuffer, client, file
    <3>. QED BY <3>1, <3>2, <3>3 DEF OneChunkInv, OnDisk
  <2>. QED BY <2>1, <2>2 DEF OneChunkInv
<1>3. CASE RecvRetry
  <2>1. result' \in Nat
    BY <1>3 DEF RecvRetry, OneChunkInv
  <2>2. ASSUME Smooth' PROVE InChunk' \/ InBuffer'
    <3>1. Smooth /\ received = 0 /\ pc = "recv"
      BY <1>3, <2>2 DEF RecvRetry, Smooth, client, file
    <3>2. UNCHANGED <<pc, pending, disk, received, mem, next, size>>
      BY <1>3, <3>1 DEF RecvRetry, client, file
    <3>. QED BY <3>1, <3>2 DEF OneChunkInv, InChunk, InBuffer, OnDisk
  <2>. QED BY <2>1, <2>2 DEF OneChunkInv
<1>4. CASE RecvFails \/ FwriteFails
  <2>1. ~(result' >= 0) /\ pc' = "join"
    BY <1>4 DEF RecvFails, FwriteFails, SocketError, WriteError
  <2>. QED BY <2>1 DEF OneChunkInv, Smooth
<1>5. CASE Fwrite
  <2>1. pc = "write" /\ result' = received /\ received' = 0 /\ Stream
    BY <1>5 DEF Fwrite
  <2>2. ASSUME Smooth' PROVE InBuffer'
    <3>1. Smooth
      BY <1>5, <2>2 DEF Fwrite, Smooth, client, OneChunkInv
    <3>2. InChunk /\ received = size
      BY <2>1, <3>1 DEF OneChunkInv, InChunk, InBuffer, OnDisk
    <3>3. Fits
      BY <3>2 DEF Fits, Room, InChunk
    <3>4. mem' = Moved(mem, 0, 0, size) /\ pending' = size /\ disk' = <<>>
      BY <2>1, <3>2, <3>3 DEF Stream, Filled, InChunk
    <3>5. \A k \in 1 .. size : k \in Index /\ k - 0 + 0 = k
      BY <3>1 DEF Index, Smooth
    <3>6. \A k \in 1 .. size : mem'[k] = k
      BY <3>2, <3>4, <3>5 DEF Moved, InChunk
    <3>. QED BY <1>5, <3>2, <3>4, <3>6 DEF Fwrite, InChunk, InBuffer, client
  <2>. QED BY <2>1, <2>2 DEF OneChunkInv
<1>6. CASE Fclose
  <2>1. ASSUME Smooth' PROVE OnDisk'
    <3>1. Smooth
      BY <1>6, <2>1 DEF Fclose, Smooth, client
    <3>2. InBuffer
      BY <1>6, <3>1 DEF Fclose, OneChunkInv, InChunk, OnDisk
    <3>3. mem \in Seq(0 .. MaxSize) /\ Len(mem) = Buf
      BY ArrayIsSequence
    <3>4. disk' = <<>> \o SubSeq(mem, 1, size)
      BY <1>6, <3>2 DEF Fclose, InBuffer
    <3>5. SubSeq(mem, 1, size) = [k \in 1 .. size |-> k]
      BY <3>1, <3>2, <3>3 DEF InBuffer, Smooth
    <3>6. SubSeq(mem, 1, size) \in Seq(0 .. MaxSize)
      BY <3>1, <3>3, SubSeqProperties DEF Smooth
    <3>7. disk' = [k \in 1 .. size |-> k]
      BY <3>4, <3>5, <3>6, ConcatEmptySeq
    <3>. QED BY <1>6, <3>7 DEF Fclose, OnDisk, client
  <2>2. pc' = "closed"
    BY <1>6 DEF Fclose
  <2>. QED BY <2>1, <2>2 DEF OneChunkInv
<1>7. CASE FcloseFails
  BY <1>7 DEF FcloseFails, OneChunkInv, Smooth
<1>8. CASE UploadDone \/ UNCHANGED uploadVars
  <2>1. UNCHANGED uploadVars
    BY <1>8 DEF UploadDone
  <2>. QED BY <2>1 DEF uploadVars, OneChunkInv, Smooth, InChunk, InBuffer, OnDisk
<1>. QED BY <1>1, <1>2, <1>3, <1>4, <1>5, <1>6, <1>7, <1>8 DEF UploadNext, Thread, Close

\* OneChunkIntact: a file of at most one chunk is stored as it was sent.
THEOREM SmallUploadsAreIntact == UploadSpec => []OneChunkIntact
<1>1. UploadInit => UploadTypeInv /\ OneChunkInv
  <2>1. UploadInit => OneChunkInv
    BY DEF UploadInit, OneChunkInv, InChunk
  <2>. QED BY <2>1, InitType
<1>2. UploadTypeInv /\ OneChunkInv /\ [UploadNext]_uploadVars => (UploadTypeInv /\ OneChunkInv)'
  BY UploadStepType, OneChunkStep
<1>3. OneChunkInv => OneChunkIntact
  BY DEF OneChunkInv, OneChunkIntact, Smooth, InChunk, InBuffer, OnDisk
<1>. QED BY <1>1, <1>2, <1>3, PTL DEF UploadSpec

=============================================================================
