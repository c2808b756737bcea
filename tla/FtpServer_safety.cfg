\* Two slots, both of which can hold a passive transfer; uint32_t is modulo 4.
SPECIFICATION Spec
CONSTANTS
  NB = 1
  Fd = {f1, f2, f3, f4}
  NoFd = NoFd
  Client = {c1, c2}
  NoClient = NoClient
  Command = {"REIN", "PASV", "PORT", "LIST", "RETR", "STOR"}
  W = 4
SYMMETRY Symmetry
INVARIANTS
  SlotsWithinCount
  ThreadHoldsTransfer
  DescriptorOwnership
  NoDescriptorLeak
  CrashCause
