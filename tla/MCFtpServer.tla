---------------------------- MODULE MCFtpServer ----------------------------
EXTENDS FtpServer, TLC
Symmetry == Permutations(Fd) \cup Permutations(Client)
=============================================================================
