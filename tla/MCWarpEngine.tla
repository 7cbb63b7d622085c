--------------------------- MODULE MCWarpEngine ---------------------------
EXTENDS WarpEngine
=============================================================================
