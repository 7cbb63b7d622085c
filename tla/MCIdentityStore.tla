-------------------------- MODULE MCIdentityStore --------------------------
EXTENDS IdentityStore, TLC
MCSymmetry == Permutations(Device)
=============================================================================
