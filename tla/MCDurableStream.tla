--------------------------- MODULE MCDurableStream ---------------------------
EXTENDS DurableStream
=============================================================================
