---------------------------- MODULE MCReorderQueue ----------------------------
(* TLC instance of ReorderQueue: two sessions, and more items than fit.      *)
EXTENDS ReorderQueue
=============================================================================
