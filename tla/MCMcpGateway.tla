---------------------------- MODULE MCMcpGateway ----------------------------
(***************************************************************************)
(* An instance of McpGateway: a coding CLI behind its proxy and a remote   *)
(* client behind a frontend, which may open a stream.                      *)
(***************************************************************************)
EXTENDS McpGateway, TLC

CONSTANTS cli, web

Ask(kind) == [kind |-> kind, tool |-> "", task |-> "", key |-> None, targets |-> {}, scoped |-> FALSE]
CallOf(tool, key) == [Ask("call") EXCEPT !.tool = tool, !.key = key]
Create(task, key, targets) ==
  [CallOf("agent_create_task", key) EXCEPT !.task = task, !.targets = targets, !.scoped = TRUE]

SomePeers == cli :> "direct" @@ web :> "frontend"
SomeAsks ==
  cli :> {Ask("initialize"), Create("t1", None, {"me", "it"})}
  @@ web :> {Ask("initialize"), Ask("initialized"), Ask("list"),
             Create("t2", "default", {}), CallOf("memory_recall", None), CallOf("agent_task_list", None)}
=============================================================================
