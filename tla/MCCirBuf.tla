------------------------------ MODULE MCCirBuf ------------------------------
(* TLC instance of CirBuf: a ring of four slots, written past its end twice.  *)
EXTENDS CirBuf
=============================================================================
