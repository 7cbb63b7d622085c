--------------------------- MODULE MCEndpointCache ---------------------------
EXTENDS EndpointCache, TLC
MCSymmetry == Permutations(Command) \cup Permutations(Address)
=============================================================================
