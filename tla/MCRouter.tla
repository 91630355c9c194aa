------------------------------- MODULE MCRouter -------------------------------
(* TLC instance of Router: two leaves and an upstream router, and clients    *)
(* that hold one message.                                                   *)
EXTENDS Router, TLC

CONSTANTS a, b, up

MCRouteOf == (a :> "route a") @@ (b :> "route b") @@ (up :> "none")

MCMaxData == <<1, 0>>
=============================================================================
