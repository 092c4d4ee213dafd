----------------------------- MODULE MCTaskRun -----------------------------
(***************************************************************************)
(* An instance of TaskRun: a budget of two calls, two runs of one task, an *)
(* API, CLIs with and without a price, and replies that give no plan.      *)
(***************************************************************************)
EXTENDS TaskRun, TLC

Api == [model |-> "claude", backend |-> "api", bin |-> None, cli |-> None,
        price |-> "priced", secret |-> TRUE, workspace |-> None]
Cli == [Api EXCEPT !.backend = "local_cli", !.price = None, !.secret = FALSE]

SomeReplies ==
  {Api, [Api EXCEPT !.model = None], [Api EXCEPT !.secret = FALSE],
   [Api EXCEPT !.price = "malformed"],
   [Cli EXCEPT !.model = "local_cli"],                \* the first CLI on the path
   [Cli EXCEPT !.model = "own", !.bin = "given"],     \* with a price of the agent's
   [Cli EXCEPT !.cli = "local-cli/gemini", !.workspace = "gone"],
   Cli, [Cli EXCEPT !.bin = "blank"]}                 \* no such CLI
SomePrefixes ==
  "claude" :> "claude-" @@ "local_cli" :> "" @@ "own" :> "openai/"
SomeNames == "local-cli/gemini" :> "gemini"
=============================================================================
