----------------------------- MODULE MCBlockStore -----------------------------
(* TLC instance of BlockStore: a caller and the flusher, parts of two bytes, *)
(* and circular files of two parts.                                          *)
EXTENDS BlockStore
=============================================================================
