--------------------------- MODULE MCStdAllocator ---------------------------
(* Two blocks whose searches begin in one slot, and one in the next.       *)
EXTENDS StdAllocator, TLC

CONSTANTS t1, t2

MCThreads == {t1, t2}
MCAddress == {2, 3, 6}
Symmetry == Permutations(MCThreads)
=============================================================================
