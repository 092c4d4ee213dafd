---------------------------- MODULE MCTaskStatus ----------------------------
(***************************************************************************)
(* An instance of TaskStatus: one status call beside one run.              *)
(***************************************************************************)
EXTENDS TaskStatus, TLC

Api == [model |-> "claude", backend |-> "api", bin |-> None, cli |-> None,
        price |-> "priced", secret |-> TRUE, workspace |-> None]
Cli == [Api EXCEPT !.backend = "local_cli", !.price = None, !.secret = FALSE]

SomeReplies == {Api, [Cli EXCEPT !.cli = "codex"], Cli}
SomePrefixes == "claude" :> "claude-"
SomeNames == "local-cli/gemini" :> "gemini"
=============================================================================
