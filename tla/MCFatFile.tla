------------------------------ MODULE MCFatFile ------------------------------
EXTENDS FatFile, TLC

\* Handles, and names, only differ by what was done with them.
Symmetry == Permutations(Handle) \cup Permutations(Name)

\* No property says anything of a disc after a conflict: the run stops there.
NoConflict == ~conflict
=============================================================================
