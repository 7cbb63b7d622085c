----------------------------- MODULE MCWarpPing -----------------------------
EXTENDS WarpPing
=============================================================================
