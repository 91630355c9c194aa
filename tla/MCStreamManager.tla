--------------------------- MODULE MCStreamManager ---------------------------
(* TLC instance of StreamManager: a buffer that the output overruns.         *)
EXTENDS StreamManager
=============================================================================
