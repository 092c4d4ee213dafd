----------------------- MODULE MCCourierSubscription -----------------------
(***************************************************************************)
(* Instances of CourierSubscription: the watcher and one MCP client.       *)
(***************************************************************************)
EXTENDS CourierSubscription

=============================================================================
