--------------------------- MODULE MCSourceStream ----------------------------
\* SourceStream for TLC: both sources that have a websocket mode.
EXTENDS SourceStream
=============================================================================
