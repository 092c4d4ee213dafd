---------------------------- MODULE MCMcpEvents ----------------------------
(***************************************************************************)
(* An instance of McpEvents: a session with two streams, one of its calls  *)
(* and one of the courier, which has no session.                           *)
(***************************************************************************)
EXTENDS McpEvents, TLC

CONSTANTS a1, a2, c1, c2, A

OneSession == a1 :> A @@ a2 :> A
AndCourier == c1 :> A @@ c2 :> NoSession
=============================================================================
