---------------------------- MODULE MCDynamicArray ----------------------------
EXTENDS DynamicArray, TLC
CONSTANTS a1, a2
MCArrays == {a1, a2}
Symmetry == Permutations(MCArrays)
=============================================================================
