------------------------------- MODULE TaskRun -------------------------------
(***************************************************************************)
(* One task as the agent executes it (Agent::run_with_progress): bootstrap, *)
(* the execution loop with its tool turns, budget and iteration limit,     *)
(* sanitising and validating the answer, review and retries, and storing   *)
(* the outcome in memory fact by fact, each write verified by a query.     *)
(*                                                                         *)
(* Memory replaces a fact that has the same id; a write can fail before or *)
(* after it took effect, or time out and take effect later.  SHELL amounts *)
(* are small integers.  After a crash, or once a run has ended, the task   *)
(* may be run again over what memory holds.                                *)
(***************************************************************************)
EXTENDS Integers, Sequences, LlmBackend

CONSTANTS
  Budget,           \* SHELL granted to the run
  Reserve,          \* the part of it kept for review
  Estimates,        \* preflight estimates of an LLM call
  Costs,            \* what an LLM call may turn out to cost
  MaxIterations,    \* MAX_EXECUTION_ITERATIONS
  MaxRetries,       \* AgentConfig.max_retries
  PersistAttempts,  \* PERSIST_VISIBILITY_ATTEMPTS
  MaxRuns,          \* bound on the runs of the task
  Faults            \* the faults the environment may inject

FaultKinds == {"bootstrap",  \* a bootstrap step fails or times out
               "llm",        \* an LLM call fails or times out
               "memory",     \* a memory call fails, or a write is not visible
               "late",       \* a write that timed out takes effect later
               "disk",       \* the local failure artifact cannot be written
               "crash"}      \* the daemon is killed

RecoveryAttempts == 1   \* EMPTY_POST_TOOL_RECOVERY_ATTEMPTS
Terminal == {"done", "failed", "partial_budget_overdraw"}

ASSUME RunAssumption ==
  /\ Budget \in Nat /\ Reserve \in 0..Budget
  /\ Estimates \subseteq Nat /\ Estimates # {}
  /\ Costs \subseteq Nat /\ Costs # {}
  /\ MaxIterations \in Nat /\ MaxRetries \in Nat
  /\ PersistAttempts \in Nat \ {0} /\ MaxRuns \in Nat \ {0}
  /\ Faults \subseteq FaultKinds

VARIABLES
  at,         \* the point the run has reached
  status,     \* TaskState.status
  result,     \* TaskState.result: see Answers
  plan,       \* the plan that is executed, or NoPlan
  wants,      \* whether the task asks for a terminal deliverable
  iteration,  \* TaskState.iteration: over all attempts
  attempt,    \* attempts begun
  retries,    \* retries used
  spent,      \* BudgetController.spent
  usedTools,  \* execution_loop: a tool was called in this attempt
  recovered,  \* execution_loop: empty answers after tools already recovered
  verdict,    \* how the current attempt ended
  todo,       \* canonical facts persist_results has still to store
  tries,      \* verification attempts for the first of them
  pass,       \* which call of persist_results this is
  persisted,  \* whether the outcome was stored without error
  artifact,   \* the local failure artifact: none, written or refused
  progress,   \* the last progress number emitted
  closed,     \* how many terminal events were emitted
  runs,       \* runs begun
  memory,     \* the task's facts in memory
  legacy,     \* the legacy facts result_<id> and session_<id> in memory
  inflight,   \* writes that timed out and may yet take effect
  overtaken   \* history: one of them took effect since this run began

budgetVars == <<iteration, attempt, retries, spent>>
loopVars == <<usedTools, recovered, verdict>>
persistVars == <<todo, tries, pass, persisted, artifact>>
eventVars == <<progress, closed>>
taskVars == <<plan, wants, runs, overtaken>>
storeVars == <<memory, legacy, inflight>>
vars == <<at, status, result, taskVars, budgetVars, loopVars, persistVars,
          eventVars, storeVars>>

Points == {"resolve", "recall", "plan", "prepare", "call", "validate",
           "record", "review", "repair", "record_review", "sanitise", "write", "verify",
           "remedy", "returned", "aborted"}

Kinds == {"task_result", "task_session", "task_deliverable"}
Facts == Kinds \X (Terminal \cup {"running", "agent_result", "external_cli"})

\* backend_current is local_cli.
OnCli == plan.cli # None

Init ==
  /\ at = "resolve" /\ status = "running" /\ result = None
  /\ plan = NoPlan /\ wants \in BOOLEAN
  /\ iteration = 0 /\ attempt = 0 /\ retries = 0 /\ spent = 0
  /\ usedTools = FALSE /\ recovered = 0 /\ verdict = None
  /\ todo = <<>> /\ tries = 0 /\ pass = None
  /\ persisted = FALSE /\ artifact = None
  /\ progress = 1 /\ closed = 0 /\ runs = 1
  /\ memory = [k \in Kinds |-> None]
  /\ legacy = [k \in {"task_result", "task_session"} |-> None]
  /\ inflight = {} /\ overtaken = FALSE

Emit(n) == progress' = n /\ UNCHANGED closed

-----------------------------------------------------------------------------
(* Budget.                                                                 *)

\* BudgetController::can_afford, per phase.
Affords(available, e) == available >= e

ExecutionBudget == Budget - Reserve - spent
ReviewBudget == Budget - spent

\* What a call is estimated to cost before it is made, and what it is charged: a
\* free backend costs nothing, and a CLI reports no usage.
Estimated == IF Price(plan) = "free" THEN {0} ELSE Estimates
Cost == IF OnCli \/ Price(plan) = "free" THEN {0} ELSE Costs
Charge == \E cost \in Cost : spent' = spent + cost

-----------------------------------------------------------------------------
(* Persistence: what persist_results stores, and in which order.           *)

Anchor == <<"task_session", "running">>
Deliverable == IF wants THEN <<<<"task_deliverable", "agent_result">>>> ELSE <<>>

\* Mutants of Outcome: the result before its deliverable, the final session
\* before the result.
OutcomeResultFirst(answer, s) ==
  IF answer = None
  THEN <<<<"task_result", s>>, <<"task_session", s>>>>
  ELSE <<Anchor, <<"task_result", s>>>> \o Deliverable \o <<<<"task_session", s>>>>
OutcomeSessionFirst(answer, s) ==
  (IF answer = None THEN <<>> ELSE <<Anchor>> \o Deliverable)
  \o <<<<"task_session", s>>, <<"task_result", s>>>>

\* The facts persist_results stores, in this order.
Outcome(answer, s) ==
  (IF answer = None THEN <<>> ELSE <<Anchor>> \o Deliverable)
  \o <<<<"task_result", s>>, <<"task_session", s>>>>

\* persist_results is called for the p-th time.
BeginPersist(p, answer, s) ==
  /\ at' = "sanitise"
  /\ todo' = Outcome(answer, s)
  /\ tries' = 0
  /\ pass' = p

Store(k, v) == memory' = [memory EXCEPT ![k] = v]

\* write_local_failure_artifact
WriteArtifact ==
  artifact' \in IF "disk" \in Faults THEN {"written", "refused"} ELSE {"written"}

\* finish_failed_task_result: a local artifact, then the memory facts.
FailEarly ==
  /\ status' = "failed"
  /\ WriteArtifact
  /\ BeginPersist("early", None, "failed")
  /\ UNCHANGED <<result, taskVars, budgetVars, loopVars, persisted, storeVars>>

-----------------------------------------------------------------------------
(* Bootstrap.                                                              *)

Step(from, to) ==
  /\ at = from
  /\ at' = to
  /\ UNCHANGED <<status, result, taskVars, budgetVars, loopVars, persistVars,
                 storeVars>>

Resolve == Step("resolve", "recall") /\ Emit(2)

\* A failed recall is ignored and leaves no event; only its timeout is fatal.
Recall ==
  /\ Step("recall", "plan")
  /\ \/ Emit(3)
     \/ "bootstrap" \in Faults /\ UNCHANGED eventVars

Plan == Step("plan", "prepare") /\ Emit(4)

\* A provider is made for the plan, and the first attempt begins.
Prepare ==
  /\ at = "prepare"
  /\ at' = "call"
  /\ \E p \in Plans : Usable(p) /\ plan' = p
  /\ attempt' = 1
  /\ Emit(6)
  /\ UNCHANGED <<status, result, wants, runs, overtaken, iteration, retries, spent, loopVars,
                 persistVars, storeVars>>

BootstrapFailure ==
  /\ at \in {"resolve", "recall", "plan"}
  /\ "bootstrap" \in Faults
  /\ FailEarly
  /\ UNCHANGED eventVars

\* No plan, no price or no secret, or one that cannot be resolved, or a task
\* without a text.
PrepareFails ==
  /\ at = "prepare"
  /\ \E p \in Plans :
       /\ ~Usable(p) \/ "bootstrap" \in Faults
       /\ progress' = IF p = NoPlan THEN progress ELSE 5
  /\ FailEarly
  /\ UNCHANGED closed

-----------------------------------------------------------------------------
(* Execution.                                                              *)

\* The attempt ended; its artifact is recorded next.
EndAttempt(v) == at' = "record" /\ verdict' = v

Iterate == iteration' = iteration + 1

IterationLimit ==
  /\ at = "call" /\ iteration + 1 > MaxIterations
  /\ Iterate
  /\ EndAttempt("error")
  /\ UNCHANGED <<status, result, taskVars, attempt, retries, spent, usedTools,
                 recovered, persistVars, eventVars, storeVars>>

\* The answer is what the tools have returned so far.
BudgetExhausted ==
  /\ at = "call" /\ iteration + 1 <= MaxIterations
  /\ \E e \in Estimated : ~Affords(ExecutionBudget, e)
  /\ Iterate
  /\ status' = "partial_budget_overdraw"
  /\ at' = "validate" /\ verdict' = "clean"
  /\ UNCHANGED <<result, taskVars, attempt, retries, spent, usedTools, recovered,
                 persistVars, eventVars, storeVars>>

\* Mutant of CallAllowed: the iteration limit is not tested.
CallUnlimited ==
  at = "call" /\ \E e \in Estimated : Affords(ExecutionBudget, e)

CallAllowed ==
  /\ at = "call" /\ iteration + 1 <= MaxIterations
  /\ \E e \in Estimated : Affords(ExecutionBudget, e)

CallFails ==
  /\ CallAllowed
  /\ "llm" \in Faults \/ Responses(plan) = {}
  /\ Iterate
  /\ EndAttempt("error")
  /\ UNCHANGED <<status, result, taskVars, attempt, retries, spent, usedTools,
                 recovered, persistVars, eventVars, storeVars>>

\* Whether the backend may say this, in answer to a call without tool calls.
Says(text) == \E resp \in Responses(plan) : ~resp.tools /\ resp.text = text

\* A tool turn.
CallTools ==
  /\ CallAllowed /\ \E resp \in Responses(plan) : resp.tools
  /\ Iterate /\ Charge
  /\ usedTools' = TRUE
  /\ UNCHANGED <<at, status, result, taskVars, attempt, retries, recovered,
                 verdict, persistVars, eventVars, storeVars>>

\* Nothing said after tools were used: asked again, a bounded number of times.
CallRecovers ==
  /\ CallAllowed /\ Says(None)
  /\ usedTools /\ recovered < RecoveryAttempts
  /\ Iterate /\ Charge
  /\ recovered' = recovered + 1
  /\ UNCHANGED <<at, status, result, taskVars, attempt, retries, usedTools,
                 verdict, persistVars, eventVars, storeVars>>

\* An empty answer, or one that sanitize_task_result rejects as reasoning.
CallInvalid ==
  /\ CallAllowed
  /\ \/ Says("thought")
     \/ Says(None) /\ ~(usedTools /\ recovered < RecoveryAttempts)
  /\ Iterate /\ Charge
  /\ EndAttempt("invalid")
  /\ UNCHANGED <<status, result, taskVars, attempt, retries, usedTools,
                 recovered, persistVars, eventVars, storeVars>>

\* An answer; a local CLI may have stored the deliverable meanwhile.
CallAnswers ==
  /\ CallAllowed
  /\ Iterate /\ Charge
  /\ at' = "validate"
  /\ \E text \in Answers : Says(text) /\ verdict' = text
  /\ \/ UNCHANGED memory
     \/ OnCli /\ wants /\ Store("task_deliverable", "external_cli")
  /\ UNCHANGED <<status, result, taskVars, attempt, retries, usedTools, recovered,
                 persistVars, eventVars, legacy, inflight>>

\* A CLI must have stored the deliverable itself.
Undelivered ==
  OnCli /\ wants /\ memory["task_deliverable"] # "external_cli"

\* validate_terminal_deliverable; a failing query ends the run.
Validate ==
  /\ at = "validate"
  /\ \/ at' = "record" /\ verdict' = IF Undelivered THEN "missing" ELSE verdict
     \/ "memory" \in Faults /\ OnCli /\ wants /\ at' = "aborted" /\ UNCHANGED verdict
  /\ UNCHANGED <<status, result, taskVars, budgetVars, usedTools, recovered,
                 persistVars, eventVars, storeVars>>

\* Every path below stores an artifact first, and its error ends the run.
RecordFails ==
  /\ "memory" \in Faults
  /\ at \in {"record", "record_review"}
  /\ at' = "aborted"
  /\ UNCHANGED <<status, result, taskVars, budgetVars, loopVars, persistVars,
                 eventVars, storeVars>>

\* The local variables of execution_loop end with it.
LoopEnds == usedTools' = FALSE /\ recovered' = 0

\* The run has decided: the outcome is stored.
Decide(s, answer) ==
  /\ status' = s
  /\ result' = answer
  /\ BeginPersist("first", answer, s)
  /\ progress' = 8
  /\ LoopEnds
  /\ UNCHANGED <<attempt, retries, closed>>

Accept ==
  /\ at = "record" /\ verdict \in Answers
  /\ result' = verdict
  /\ at' = "review"
  /\ Emit(7)
  /\ UNCHANGED <<status, taskVars, budgetVars, loopVars, persistVars,
                 storeVars>>

\* review_retry_action, and its copies for invalid and undelivered results.
TryAgain(answer) ==
  \/ retries + 1 > MaxRetries /\ Decide("failed", answer)
  \/ /\ retries + 1 <= MaxRetries /\ ExecutionBudget <= 0
     /\ Decide("partial_budget_overdraw", answer)
  \/ /\ retries + 1 <= MaxRetries /\ ExecutionBudget > 0
     /\ retries' = retries + 1
     /\ attempt' = attempt + 1
     /\ at' = "call"
     /\ result' = answer
     /\ LoopEnds
     /\ UNCHANGED <<status, todo, tries, pass, eventVars>>

Retry ==
  /\ at = "record" /\ verdict \in {"invalid", "missing"}
  /\ TryAgain(None)
  /\ verdict' = None
  /\ UNCHANGED <<taskVars, iteration, spent, persisted, artifact, storeVars>>

\* The error of an attempt ends the task, with the result of an earlier one.
Fail ==
  /\ at = "record" /\ verdict = "error"
  /\ Decide("failed", result)
  /\ verdict' = None
  /\ UNCHANGED <<taskVars, iteration, spent, persisted, artifact, storeVars>>

-----------------------------------------------------------------------------
(* Review.                                                                 *)

EndReview(v) == at' = "record_review" /\ verdict' = v

\* No budget for a review: the result is accepted as it is.
ReviewSkipped ==
  /\ at = "review"
  /\ \E e \in Estimated : ~Affords(ReviewBudget, e)
  /\ EndReview("ok")
  /\ UNCHANGED <<status, result, taskVars, budgetVars, usedTools, recovered,
                 persistVars, eventVars, storeVars>>

\* The reviewer is called only about an answer that sanitises again, and then
\* perhaps once more, without looking at the budget, to repair its verdict.
ReviewCall ==
  \/ /\ at = "review" /\ result = "clean"
     /\ \E e \in Estimated : Affords(ReviewBudget, e)
  \/ at = "repair"

ReviewRejects ==
  /\ at = "review" /\ result = "unclean"
  /\ \E e \in Estimated : Affords(ReviewBudget, e)
  /\ EndReview("retry")
  /\ UNCHANGED <<status, result, taskVars, budgetVars, usedTools, recovered,
                 persistVars, eventVars, storeVars>>

ReviewAnswers ==
  /\ ReviewCall /\ Responses(plan) # {}
  /\ Charge
  /\ \/ EndReview("ok")
     \/ EndReview("retry")
     \/ at = "repair" /\ EndReview("error")
     \/ at = "review" /\ at' = "repair" /\ UNCHANGED verdict
  /\ UNCHANGED <<status, result, taskVars, iteration, attempt, retries,
                 usedTools, recovered, persistVars, eventVars, storeVars>>

ReviewFails ==
  /\ ReviewCall
  /\ "llm" \in Faults \/ Responses(plan) = {}
  /\ EndReview("error")
  /\ UNCHANGED <<status, result, taskVars, budgetVars, usedTools, recovered,
                 persistVars, eventVars, storeVars>>

\* A passing review makes the task done, a partial answer included.
Reviewed ==
  /\ at = "record_review"
  /\ \/ verdict = "ok" /\ Decide("done", result)
     \/ verdict = "retry" /\ TryAgain(result)
     \/ verdict = "error" /\ Decide("failed", result)
  /\ verdict' = None
  /\ UNCHANGED <<taskVars, iteration, spent, persisted, artifact, storeVars>>

-----------------------------------------------------------------------------
(* Storing the outcome.                                                    *)

\* The terminal event and the return of run_with_progress.
Return(ok) ==
  /\ at' = "returned"
  /\ persisted' = ok
  /\ progress' = 9 /\ closed' = closed + 1

\* A verified fact is followed, as best can be, by its legacy form.
HasLegacy(f) ==
  \/ f[1] = "task_session" /\ f[2] # "running"
  \/ f[1] = "task_result" /\ result # None

StoreLegacy(f) ==
  IF ~HasLegacy(f)
  THEN UNCHANGED legacy
  ELSE \E ok \in IF "memory" \in Faults THEN BOOLEAN ELSE {TRUE} :
         legacy' = IF ok THEN [legacy EXCEPT ![f[1]] = f[2]] ELSE legacy

\* The first fact is stored: the next one, or the end of persist_results.
NextFact ==
  /\ todo' = Tail(todo) /\ tries' = 0
  /\ \/ Len(todo) > 1 /\ at' = "write" /\ UNCHANGED <<persisted, eventVars>>
     \/ Len(todo) = 1 /\ Return(TRUE)

\* persist_results returns an error; only the first one is looked into.
PersistError ==
  /\ todo' = <<>> /\ tries' = 0
  /\ \/ pass = "first" /\ at' = "remedy" /\ UNCHANGED <<persisted, eventVars>>
     \/ pass # "first" /\ Return(FALSE)

\* An answer that no longer sanitises is refused before anything is stored.
Sanitise ==
  /\ at = "sanitise"
  /\ \/ /\ result # "unclean" /\ at' = "write"
        /\ UNCHANGED <<todo, tries, persisted, eventVars>>
     \/ result = "unclean" /\ PersistError
  /\ UNCHANGED <<status, result, taskVars, budgetVars, loopVars, pass,
                 artifact, storeVars>>

\* Mutant of Remedy: the status stays done.
RemedyStaysDone ==
  /\ at = "remedy"
  /\ WriteArtifact
  /\ Return(FALSE) /\ UNCHANGED <<status, todo, tries, pass>>
  /\ UNCHANGED <<result, taskVars, budgetVars, loopVars, storeVars>>

\* A result that was to be done is now a failure, stored in its turn, once.
Remedy ==
  /\ at = "remedy"
  /\ WriteArtifact
  /\ \/ /\ status = "done"
        /\ status' = "failed"
        /\ BeginPersist("remedy", result, "failed")
        /\ UNCHANGED <<persisted, eventVars>>
     \/ /\ status # "done"
        /\ Return(FALSE)
        /\ UNCHANGED <<status, todo, tries, pass>>
  /\ UNCHANGED <<result, taskVars, budgetVars, loopVars, storeVars>>

\* resolve_or_persist_terminal_deliverable finds one, or refuses to go on.
HasDeliverable ==
  /\ at = "write" /\ Head(todo)[1] = "task_deliverable" /\ tries = 0
  /\ memory["task_deliverable"] # None
  /\ NextFact
  /\ UNCHANGED <<status, result, taskVars, budgetVars, loopVars, pass,
                 artifact, storeVars>>

LacksDeliverable ==
  /\ at = "write" /\ Head(todo)[1] = "task_deliverable" /\ tries = 0
  /\ \/ memory["task_deliverable"] = None /\ OnCli
     \/ "memory" \in Faults
  /\ PersistError
  /\ UNCHANGED <<status, result, taskVars, budgetVars, loopVars, pass,
                 artifact, storeVars>>

Writable ==
  /\ at = "write"
  /\ \/ Head(todo)[1] # "task_deliverable"
     \/ tries > 0
     \/ memory["task_deliverable"] = None /\ ~OnCli

\* Memory may acknowledge a write that nobody ever sees.
WriteFact ==
  /\ Writable
  /\ \/ Store(Head(todo)[1], Head(todo)[2])
     \/ "memory" \in Faults /\ UNCHANGED memory
  /\ at' = "verify"
  /\ UNCHANGED <<status, result, taskVars, budgetVars, loopVars, persistVars,
                 eventVars, legacy, inflight>>

\* An error before or after memory took the write, or a timeout.
WriteFails ==
  /\ Writable
  /\ \/ "memory" \in Faults /\ UNCHANGED storeVars
     \/ "memory" \in Faults /\ Store(Head(todo)[1], Head(todo)[2]) /\ UNCHANGED inflight
     \/ "late" \in Faults /\ inflight' = inflight \cup {Head(todo)} /\ UNCHANGED memory
  /\ PersistError
  /\ UNCHANGED <<status, result, taskVars, budgetVars, loopVars, pass, artifact,
                 legacy>>

\* Mutant of Visible: any fact of the kind will do.
VisibleAny == at = "verify" /\ memory[Head(todo)[1]] # None

\* canonical_fact_visible: any deliverable, but this status of the others.
Visible ==
  /\ at = "verify"
  /\ \/ Head(todo)[1] = "task_deliverable" /\ memory["task_deliverable"] # None
     \/ memory[Head(todo)[1]] = Head(todo)[2]

VerifySucceeds ==
  /\ Visible
  /\ NextFact
  /\ StoreLegacy(Head(todo))
  /\ UNCHANGED <<status, result, taskVars, budgetVars, loopVars, pass,
                 artifact, memory, inflight>>

\* Mutant of VerifyFails: attempts that do not count.
VerifyForever ==
  /\ at = "verify"
  /\ ~Visible \/ "memory" \in Faults
  /\ at' = "write"
  /\ UNCHANGED <<todo, tries, persisted, eventVars, status, result, taskVars,
                 budgetVars, loopVars, pass, artifact, storeVars>>

\* Not visible, or the query failed: written again, a bounded number of times.
VerifyFails ==
  /\ at = "verify"
  /\ ~Visible \/ "memory" \in Faults
  /\ \/ /\ tries + 1 < PersistAttempts
        /\ tries' = tries + 1
        /\ at' = "write"
        /\ UNCHANGED <<todo, persisted, eventVars>>
     \/ /\ tries + 1 = PersistAttempts
        /\ PersistError
  /\ UNCHANGED <<status, result, taskVars, budgetVars, loopVars, pass,
                 artifact, storeVars>>

-----------------------------------------------------------------------------

\* A write that had timed out takes effect, or is lost.
LateWrite ==
  /\ \E f \in inflight :
       /\ inflight' = inflight \ {f}
       /\ \/ Store(f[1], f[2]) /\ overtaken' = TRUE
          \/ UNCHANGED <<memory, overtaken>>
  /\ UNCHANGED <<at, status, result, plan, wants, runs, budgetVars, loopVars,
                 persistVars, eventVars, legacy>>

\* The error of an aborted run: agent_start emits the terminal event itself.
ReportAbort ==
  /\ at = "aborted" /\ closed = 0
  /\ progress' = 9 /\ closed' = closed + 1
  /\ UNCHANGED <<at, status, result, taskVars, budgetVars, loopVars,
                 persistVars, storeVars>>

Ended == at = "returned" \/ (at = "aborted" /\ closed = 1)

\* The daemon dies in the middle of the run, or somebody starts the task again.
RunAgain ==
  /\ runs < MaxRuns
  /\ Ended \/ "crash" \in Faults
  /\ runs' = runs + 1
  /\ at' = "resolve" /\ status' = "running" /\ result' = None
  /\ plan' = NoPlan
  /\ iteration' = 0 /\ attempt' = 0 /\ retries' = 0 /\ spent' = 0
  /\ usedTools' = FALSE /\ recovered' = 0 /\ verdict' = None
  /\ todo' = <<>> /\ tries' = 0 /\ pass' = None
  /\ persisted' = FALSE /\ artifact' = None
  /\ progress' = 1 /\ closed' = 0
  /\ overtaken' = FALSE
  /\ UNCHANGED <<wants, storeVars>>

\* What a run does next.
RunStep ==
  \/ Resolve \/ Recall \/ Plan \/ Prepare \/ BootstrapFailure
  \/ PrepareFails
  \/ IterationLimit \/ BudgetExhausted \/ CallFails \/ CallTools
  \/ CallRecovers \/ CallInvalid \/ CallAnswers \/ Validate \/ RecordFails
  \/ Accept \/ Retry \/ Fail
  \/ ReviewSkipped \/ ReviewRejects \/ ReviewAnswers \/ ReviewFails \/ Reviewed
  \/ Sanitise \/ HasDeliverable \/ LacksDeliverable \/ WriteFact \/ WriteFails
  \/ VerifySucceeds \/ VerifyFails \/ Remedy \/ ReportAbort

Next == RunStep \/ LateWrite \/ RunAgain

Spec == Init /\ [][Next]_vars

\* The runtime polls a run whose call has ended.  That each call ends is an
\* assumption about memory and the CLIs: only the bootstrap calls, the calls of
\* await_memory_control and those to an API have a timeout.  The calls that write
\* artifacts and query deliverables have none, nor has a local CLI.
FairSpec == Spec /\ WF_vars(RunStep)

-----------------------------------------------------------------------------
(* Properties.                                                             *)

TypeOK ==
  /\ at \in Points /\ status \in Terminal \cup {"running"}
  /\ result \in Answers \cup {None} /\ plan \in Plans \cup {NoPlan} /\ wants \in BOOLEAN
  /\ iteration \in Nat /\ attempt \in Nat /\ retries \in Nat /\ spent \in Nat
  /\ usedTools \in BOOLEAN /\ recovered \in 0..RecoveryAttempts
  /\ verdict \in Answers \cup {None, "error", "invalid", "missing", "ok", "retry"}
  /\ todo \in Seq(Facts) /\ tries \in 0..(PersistAttempts - 1)
  /\ pass \in {None, "early", "first", "remedy"}
  /\ persisted \in BOOLEAN /\ artifact \in {None, "written", "refused"}
  /\ progress \in 1..9 /\ closed \in 0..1 /\ runs \in 1..MaxRuns
  /\ memory \in [Kinds -> Terminal \cup {None, "running", "agent_result", "external_cli"}]
  /\ legacy \in [{"task_result", "task_session"} -> Terminal \cup {None}]
  /\ inflight \subseteq Facts /\ overtaken \in BOOLEAN

\* A run never exceeds its iterations and retries, however its attempts end:
\* one iteration limit serves all the attempts.  Its spending exceeds its budget
\* by at most what its last two calls cost, one the budget could afford and the
\* unchecked repair of a review.
LoopsBounded == iteration <= MaxIterations + 1 /\ attempt <= MaxRetries + 1
SpentBounded ==
  spent = 0 \/ \E e \in Estimates, c, d \in Costs : spent + e <= Budget + c + d

LimitsKept == LoopsBounded /\ SpentBounded

\* A run that reports done has stored its result, its session and, if one is
\* wanted, the deliverable, which a local CLI has written itself; only a write
\* that had been given up can still change them.
DoneIsStored ==
  at = "returned" /\ status = "done" /\ ~overtaken =>
    /\ memory["task_result"] = "done" /\ memory["task_session"] = "done"
    /\ wants => memory["task_deliverable"] # None
    /\ wants /\ OnCli => memory["task_deliverable"] = "external_cli"

\* No outcome is lost: it is in memory as the run reports it, or a local
\* artifact tells of it, if the disk takes one; only a write that had been given
\* up can still replace it.
OutcomeKept ==
  at = "returned" /\ ~overtaken =>
    \/ memory["task_result"] = status /\ memory["task_session"] = status
    \/ artifact # None

\* At no moment, crashes and late writes included, does memory hold a result
\* that is done and lacks the deliverable the task asks for.
DoneHasDeliverable ==
  wants /\ memory["task_result"] = "done" => memory["task_deliverable"] # None

\* A session becomes terminal only after the result it belongs to, unless a
\* write that had been given up comes between them.
SessionFollowsResult ==
  [][memory'["task_session"] # memory["task_session"]
       /\ memory'["task_session"] \in Terminal /\ ~overtaken'
     => memory["task_result"] = memory'["task_session"]]_vars

\* Whatever call fails, if every call ends then the loops and retries of a run do,
\* and its last event is sent.
RunEnds == []<>Ended
=============================================================================
