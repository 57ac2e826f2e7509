---------------------------- MODULE MCPriceSource -----------------------------
\* PriceSource for TLC: every source of the repository.
EXTENDS PriceSource
=============================================================================
