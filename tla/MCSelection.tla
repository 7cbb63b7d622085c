---------------------------- MODULE MCSelection ----------------------------
EXTENDS Selection, TLC
MCSymmetry == Permutations(Caller)
=============================================================================
