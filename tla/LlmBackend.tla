------------------------------ MODULE LlmBackend ------------------------------
(***************************************************************************)
(* The backend that executes a task: the plan memory selects for it, the   *)
(* price and the provider that go with the plan, and what a call of the    *)
(* provider returns.                                                       *)
(*                                                                         *)
(* A reply of memory is a record of the fields the agent reads; a reply    *)
(* without a model stands for one without a payload and for a call that    *)
(* failed.  Names are in lower case.                                       *)
(***************************************************************************)

CONSTANTS
  Replies,        \* what memory may answer when it is asked for a plan
  Prefix,         \* the models, each with the prefix that routes it
  Unprefixed,     \* the names that begin with local-cli/, each with the rest of it
  Catalog,        \* the models the agent's own price list holds
  OnPath,         \* the coding CLIs on PATH
  EnvCli,         \* GOSH_LOCAL_CLI_BACKEND, or None
  TaskWorkspace   \* the workspace the task names: "there", "gone" or None

None == "none"
Unavailable == "unavailable"
NoPlan == [model |-> None, cli |-> None, workspace |-> None, price |-> None, secret |-> FALSE]

\* An answer is clean when sanitising it a second time accepts it again.
Answers == {"clean", "unclean"}
Response == [text : Answers \cup {"thought", None}, tools : BOOLEAN]
Malformed == [text |-> "malformed", tools |-> FALSE]
Error == [text |-> "error", tools |-> FALSE]

-----------------------------------------------------------------------------
(* Which CLI.                                                              *)

NormalizedProvider(name) ==
  IF name \in {None, "local-cli", "local_cli"} THEN None
  ELSE IF name \in DOMAIN Unprefixed THEN Unprefixed[name] ELSE name

CommandFor(name) ==
  CASE name \in {"claude", "claude-code", "claude_code"} -> "claude"
    [] name \in {"codex", "codex-cli", "codex_cli"} -> "codex"
    [] name \in {"gemini", "gemini-cli", "gemini_cli"} -> "gemini"
    [] OTHER -> Unavailable

FirstOnPath ==
  CASE "claude" \in OnPath -> "claude"
    [] "claude" \notin OnPath /\ "codex" \in OnPath -> "codex"
    [] OnPath = {"gemini"} -> "gemini"
    [] OTHER -> Unavailable

\* The CLI that is asked for, or the host's choice, or the first there is.
ResolveLocalCli(name) ==
  CASE NormalizedProvider(name) # None -> CommandFor(NormalizedProvider(name))
    [] NormalizedProvider(name) = None /\ EnvCli # None -> CommandFor(EnvCli)
    [] OTHER -> FirstOnPath

\* With no CLI named, the model's name is taken for one.
Requested(r) == IF r.cli # None THEN r.cli ELSE r.model

LocalCli(r) ==
  CASE r.backend # "local_cli" -> None
    [] r.backend = "local_cli" /\ r.bin = "blank" -> Unavailable
    [] r.backend = "local_cli" /\ r.bin = "given" -> "custom"
    [] OTHER -> ResolveLocalCli(Requested(r))

Workspace(r) == IF r.workspace # None THEN r.workspace ELSE TaskWorkspace

-----------------------------------------------------------------------------
(* The plan.                                                               *)

\* A price that is not complete, or negative, counts as none.
PlanPrice(r) == IF r.price = "malformed" THEN None ELSE r.price

ExecutionPlan(r) ==
  IF r.model = None \/ LocalCli(r) = Unavailable THEN NoPlan
  ELSE [model |-> r.model, cli |-> LocalCli(r), workspace |-> Workspace(r),
        price |-> PlanPrice(r), secret |-> r.secret]

\* The answer of memory_plan_inference, or else that of the recall.
Selected(plan, recall) ==
  IF ExecutionPlan(plan) # NoPlan THEN ExecutionPlan(plan) ELSE ExecutionPlan(recall)
Plans == {Selected(p, r) : p, r \in Replies}

\* The agent's own price goes before memory's; a CLI without either is free.
Price(p) ==
  CASE p.model \in Catalog -> "priced"
    [] p.model \notin Catalog /\ p.price # None -> p.price
    [] p.model \notin Catalog /\ p.price = None /\ p.cli # None -> "free"
    [] OTHER -> None

Route(model) ==
  CASE Prefix[model] \in {"anthropic/", "claude-"} -> "anthropic"
    [] Prefix[model] = "inception/" -> "inception"
    [] Prefix[model] \in {"qwen/", "groq/", "meta-llama/", "moonshotai/", "canopylabs/"} -> "groq"
    [] OTHER -> "openai"

\* resolve_llm: the one secret of the plan is the key of the model's route.
SecretName(model) == Route(model)
Keys(p) == IF p.secret THEN {SecretName(p.model)} ELSE {}

Usable(p) == p # NoPlan /\ Price(p) # None /\ (p.cli # None \/ p.secret)

-----------------------------------------------------------------------------
(* What a call returns.  A body is a response, or not of the API's shape.  *)

Bodies == Response \cup {Malformed}

AnthropicChat(body) == IF body = Malformed THEN [text |-> None, tools |-> FALSE] ELSE body
OpenAiChat(body) == IF body = Malformed THEN Error ELSE body

ApiChat(p, body) ==
  CASE Route(p.model) \notin Keys(p) -> Error
    [] Route(p.model) \in Keys(p) /\ Route(p.model) = "anthropic" -> AnthropicChat(body)
    [] OTHER -> OpenAiChat(body)

\* resolve_workspace_dir; without one the CLI runs where the daemon does.
HasWorkspace(p) == p.workspace # "gone"

\* What the process prints, if it ends well; that it closes its input early is no
\* error, that it fails is one.
RunLocalCli(p, exit, stdout) == IF HasWorkspace(p) /\ exit = "success" THEN stdout ELSE "error"

\* A CLI reports neither tools nor usage.
CliChat(p) ==
  {[text |-> RunLocalCli(p, exit, r.text), tools |-> FALSE] :
     exit \in {"success", "failure"}, r \in Response}

Chat(p) == IF p.cli # None THEN CliChat(p) ELSE {ApiChat(p, body) : body \in Bodies}
Responses(p) == Chat(p) \ {Error}
=============================================================================
