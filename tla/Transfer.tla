------------------------------ MODULE Transfer ------------------------------
(***************************************************************************)
(* What the thread of a transfer has in either direction (net.c, and the   *)
(* fields of connection_t it writes): SendFile and RecvFile add the rest.  *)
(***************************************************************************)
EXTENDS Integers, Sequences

CONSTANT Retries   \* retriesNumber

ASSUME RetriesAssumption == Retries \in Nat

VARIABLES
  pc,           \* where the thread is
  retryNumber,
  offset,       \* dataTransferOffset
  result        \* what the function last called has returned

SocketError == -1      \* any negative code of the socket library
=============================================================================
