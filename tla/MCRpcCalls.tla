------------------------------ MODULE MCRpcCalls ------------------------------
(* TLC instance of RpcCalls: any kind of call beside a command, and channels *)
(* that hold one message each.                                              *)
EXTENDS RpcCalls, TLC

CONSTANTS c1, c2

MCKindsOf == (c1 :> {"stream", "single", "command"}) @@ (c2 :> {"command"})
=============================================================================
