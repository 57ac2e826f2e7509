---------------------------- MODULE MCPriceServer ----------------------------
\* PriceServer for TLC: the request goroutines are interchangeable.
EXTENDS PriceServer, TLC

CONSTANTS r1, r2

Interchangeable == Permutations(Requests)
=============================================================================
