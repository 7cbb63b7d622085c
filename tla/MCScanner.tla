----------------------------- MODULE MCScanner -----------------------------
EXTENDS Scanner
\* One prefix of each family, with two addresses each.
MCPrefixes == {[addr |-> 2, bits |-> 3, v6 |-> FALSE], [addr |-> 4, bits |-> 3, v6 |-> TRUE]}
=============================================================================
