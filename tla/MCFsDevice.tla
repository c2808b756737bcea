----------------------------- MODULE MCFsDevice -----------------------------
EXTENDS FsDevice, TLC

\* Threads, devices, and handles of both sides, only differ by what was done.
Symmetry == Permutations(Thread) \cup Permutations(Device)
            \cup Permutations(Handle) \cup Permutations(Fd)
=============================================================================
