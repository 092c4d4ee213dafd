--------------------------- MODULE MCPluginSetup ---------------------------
(***************************************************************************)
(* An instance of PluginSetup: a project directory and the home directory, *)
(* setups that change the scope, the selection, the bind address or the    *)
(* port, and a host with all the CLIs or none.                             *)
(***************************************************************************)
EXTENDS PluginSetup, TLC

CONSTANTS a, b, user

Keys == "proj" :> "k1" @@ "home" :> None
AllOrNone == {Platforms, {}}

Setup(scope, platforms, dir, bind, port) ==
  [kind |-> "setup", scope |-> scope, platforms |-> platforms, dir |-> dir,
   bind |-> bind, port |-> port, key |-> None, swarm |-> None, noSwarm |-> FALSE,
   autostart |-> TRUE]

SomeJobs ==
  {Setup("project", {}, "proj", None, None),
   Setup("user", {"claude", "gemini"}, "proj", None, 9000),
   Setup("project", {}, "home", "any", None),
   [Setup("project", {"claude"}, "proj", "lan", None) EXCEPT !.autostart = FALSE],
   [Setup("user", {}, "home", None, None) EXCEPT !.key = "k2", !.swarm = "s1"],
   [Setup("project", {"codex"}, "proj", None, None) EXCEPT !.noSwarm = TRUE]}
SomeFiles == {<<"claude", "user">>}
Symmetry == Permutations(Agents)
=============================================================================
