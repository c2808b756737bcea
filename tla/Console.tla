------------------------------ MODULE Console ------------------------------
(***************************************************************************)
(* display() of main.c, which the event loop and every transfer thread     *)
(* call: it appends a line to consoleArrayTv and consoleArrayDrc, whose    *)
(* first lines it frees, and draws both screens.  displayLock, a plain     *)
(* bool, is all there is between the callers.                              *)
(***************************************************************************)
EXTENDS Integers, FiniteSets

CONSTANTS
  Thread,      \* the callers
  Line,        \* memory for lines
  TvLines,     \* MAX_CONSOLE_LINES_TV
  DrcLines,    \* MAX_CONSOLE_LINES_DRC
  Null

VARIABLES
  displayLock,
  consoleArrayTv, consoleArrayDrc,
  pc, i, tmp,    \* of each call of display
  heap,          \* lines that are allocated
  stale          \* history: lines freed, copied or drawn when they were not

vars == <<displayLock, consoleArrayTv, consoleArrayDrc, pc, i, tmp, heap, stale>>

Goto(t, from, to) == pc[t] = from /\ pc' = [pc EXCEPT ![t] = to]
Used(lines) == stale' = stale \cup (lines \ (heap \cup {Null}))

\* while (displayLock) usleep(100);
Test(t) ==
  /\ ~displayLock /\ Goto(t, "test", "set")
  /\ UNCHANGED <<displayLock, consoleArrayTv, consoleArrayDrc, i, tmp, heap, stale>>

Set(t) ==
  /\ Goto(t, "set", "format") /\ displayLock' = TRUE
  /\ UNCHANGED <<consoleArrayTv, consoleArrayDrc, i, tmp, heap, stale>>

\* vasprintf; without memory the screens are only drawn again.
Format(t) ==
  /\ \/ \E l \in Line \ heap :
          Goto(t, "format", "freeTv") /\ heap' = heap \cup {l} /\ tmp' = [tmp EXCEPT ![t] = l]
     \/ Goto(t, "format", "draw") /\ UNCHANGED <<heap, tmp>>
  /\ UNCHANGED <<displayLock, consoleArrayTv, consoleArrayDrc, i, stale>>

Free(t, first, from, to) ==
  /\ Goto(t, from, to) /\ i' = [i EXCEPT ![t] = 1]
  /\ Used({first}) /\ heap' = heap \ {first}
  /\ UNCHANGED <<displayLock, consoleArrayTv, consoleArrayDrc, tmp>>

\* One iteration of a loop that moves the lines up.
Shift(t, lines, last, from, to) ==
  IF i[t] < last
  THEN /\ lines' = [lines EXCEPT ![i[t]] = lines[i[t] + 1]]
       /\ i' = [i EXCEPT ![t] = @ + 1] /\ Goto(t, from, from)
  ELSE i' = [i EXCEPT ![t] = 1] /\ Goto(t, from, to) /\ UNCHANGED lines

ShiftTv(t) ==
  /\ Shift(t, consoleArrayTv, TvLines, "shiftTv", "shiftDrc")
  /\ UNCHANGED <<displayLock, consoleArrayDrc, tmp, heap, stale>>
ShiftDrc(t) ==
  /\ Shift(t, consoleArrayDrc, DrcLines, "shiftDrc", "putTv")
  /\ UNCHANGED <<displayLock, consoleArrayTv, tmp, heap, stale>>

\* The TV has a copy of the line, unless malloc fails.
PutTv(t) ==
  /\ Goto(t, "putTv", "putDrc") /\ Used({tmp[t]})
  /\ \E l \in (Line \ heap) \cup {Null} :
       /\ consoleArrayTv' = [consoleArrayTv EXCEPT ![TvLines] = l]
       /\ heap' = heap \cup ({l} \ {Null})
  /\ UNCHANGED <<displayLock, consoleArrayDrc, i, tmp>>

PutDrc(t) ==
  /\ Goto(t, "putDrc", "draw")
  /\ consoleArrayDrc' = [consoleArrayDrc EXCEPT ![DrcLines] = tmp[t]]
  /\ tmp' = [tmp EXCEPT ![t] = Null]
  /\ UNCHANGED <<displayLock, consoleArrayTv, i, heap, stale>>

Draw(t) ==
  /\ Goto(t, "draw", "unset")
  /\ Used({consoleArrayTv[n] : n \in 1 .. TvLines} \cup {consoleArrayDrc[n] : n \in 1 .. DrcLines})
  /\ UNCHANGED <<displayLock, consoleArrayTv, consoleArrayDrc, i, tmp, heap>>

Unset(t) ==
  /\ Goto(t, "unset", "test") /\ displayLock' = FALSE
  /\ UNCHANGED <<consoleArrayTv, consoleArrayDrc, i, tmp, heap, stale>>

Init ==
  /\ displayLock = FALSE
  /\ consoleArrayTv = [n \in 1 .. TvLines |-> Null]
  /\ consoleArrayDrc = [n \in 1 .. DrcLines |-> Null]
  /\ pc = [t \in Thread |-> "test"] /\ i = [t \in Thread |-> 1]
  /\ tmp = [t \in Thread |-> Null]
  /\ heap = {} /\ stale = {}

display(t) ==
  \/ Test(t) \/ Set(t) \/ Format(t)
  \/ Free(t, consoleArrayTv[1], "freeTv", "freeDrc")
  \/ Free(t, consoleArrayDrc[1], "freeDrc", "shiftTv")
  \/ ShiftTv(t) \/ ShiftDrc(t) \/ PutTv(t) \/ PutDrc(t) \/ Draw(t) \/ Unset(t)

Next == \E t \in Thread : display(t)

Spec == Init /\ [][Next]_vars

\* main.c:56 calls display thread safe: whoever calls it meanwhile, it frees,
\* copies and draws lines that are allocated only.
LinesAlive == stale = {}
=============================================================================
