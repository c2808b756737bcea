------------------------------ MODULE FatDisc ------------------------------
(***************************************************************************)
(* What the sector cache of libfat promises its callers: an array of       *)
(* sectors that is read and written at once, behind which a disc lags by   *)
(* some of the writes.  A call that fails may put one page in doubt: it    *)
(* then reads as anything, until it reads as the disc again or is written. *)
(* FatCache implements it.                                                 *)
(***************************************************************************)

CONSTANTS
  Sector,
  Value,
  Pages      \* the sets of sectors that are moved together

VARIABLES
  content,   \* what a read returns
  stable,    \* what is on the disc
  doubt,     \* the sectors that a failed call left with an unknown content
  ok,        \* result of the last call
  got        \* what the last successful read returned

vars == <<content, stable, doubt, ok, got>>

\* Any sectors may reach the disc on the way, with the value they have.
SomeSaved ==
  /\ stable' \in [Sector -> Value]
  /\ \A s \in Sector : stable'[s] \in {stable[s], content[s]}

\* The contents become c, but those in doubt may turn back to the disc's.
Becomes(c) ==
  /\ doubt' \subseteq doubt
  /\ content' \in [Sector -> Value]
  /\ \A s \in Sector : content'[s] = c[s] \/ (s \in doubt /\ content'[s] = stable[s])

Read(s) ==
  /\ ok' = TRUE /\ got' = content'[s]
  /\ SomeSaved /\ Becomes(content)

Write(s, v) ==
  /\ ok' = TRUE /\ UNCHANGED got /\ content'[s] = v
  /\ SomeSaved /\ Becomes([content EXCEPT ![s] = v])

Flush ==
  /\ ok' = TRUE /\ SomeSaved
  /\ \A s \in Sector \ doubt : stable'[s] = content[s]
  /\ UNCHANGED <<content, doubt, got>>

\* A call that fails puts at most one page in doubt.  The disc keeps what it has
\* of it, until a write to that page lets SomeSaved bring the page to the disc.
Fail ==
  /\ ok' = FALSE /\ UNCHANGED got /\ SomeSaved
  /\ content' \in [Sector -> Value]
  /\ \/ content' = content /\ doubt' = doubt
     \/ \E P \in Pages :
          /\ \A s \in Sector \ P : content'[s] = content[s]
          /\ doubt' = doubt \cup P

\* The cache is given up, and the disc is what remains.
Leave == SomeSaved /\ content' = stable' /\ doubt' = {} /\ UNCHANGED <<ok, got>>

Init ==
  /\ stable \in [Sector -> Value] /\ content = stable
  /\ doubt = {} /\ ok = TRUE /\ got \in Value

Next ==
  \/ \E s \in Sector : Read(s)
  \/ \E s \in Sector, v \in Value : Write(s, v)
  \/ Flush \/ Fail \/ Leave

Spec == Init /\ [][Next]_vars
=============================================================================
