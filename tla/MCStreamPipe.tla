------------------------------ MODULE MCStreamPipe ------------------------------
(* TLC instance of StreamPipe: a window smaller than the output, and one     *)
(* repeated delivery.                                                        *)
EXTENDS StreamPipe
=============================================================================
