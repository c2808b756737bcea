\* Passive downloads of one client over two slots, under fairness.
SPECIFICATION FairSpec
CONSTANTS
  NB = 1
  Fd = {f1, f2, f3}
  NoFd = NoFd
  Client = {c1}
  NoClient = NoClient
  Command = {"PASV", "RETR"}
  W = 3
PROPERTIES
  LoopTurns
  DataConnectionResolves
