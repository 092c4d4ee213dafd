# gosh.agent: a TLA+ model, checked with TLC and proved with TLAPS

gosh.agent is a daemon that executes tasks with language models. Tasks and
results are facts on a *memory* server, which the daemon reaches over HTTP.
It is told of new tasks by the server's *courier* (a stream of events), finds
the ones it missed by polling, serves MCP clients on `/mcp`, streams progress
to them, guards the endpoint with OAuth, and comes with a set-up command and
with hooks that capture the prompts and answers of coding CLIs. This directory states what its parts
promise and shows how far they keep it. Paths below are relative to
`src/src/`.

Contents: [inventory](#inventory) · [modules](#modules) · [runs](#runs) ·
[fairness](#fairness) · [proofs](#proofs) · [where code and text
disagree](#where-code-and-text-disagree) · [abstractions](#abstractions) ·
[not modelled](#not-modelled) · [plan](#plan)

## Inventory

| Component | State it keeps | Operations | Interacts with | Hard because of | Correct when |
|---|---|---|---|---|---|
| Task dispatch (`server/state.rs`, `watcher.rs`, `server/handlers/mcp/start.rs`) | dispatch tracker (set and queue, bounded), `in_flight_tasks`, `in_flight_by_agent` | claim, poll, courier event, `agent_start` | memory (queries), task execution (a call), progress events | every table has its own lock; a call takes and gives back an entry and a slot in four lock scopes; a client's disconnect drops the call at any await | one run per task, exact accounts, no task forgotten |
| Courier subscription (`courier.rs`, `watcher.rs`, `courier_subscribe.rs`, `courier_unsubscribe.rs`) | `sub_id`, `cancel_tx`, one listener task per subscription, memory's subscriptions | subscribe, unsubscribe, read the stream, reconnect | memory, dispatch | a call in several steps under one mutex, memory's answer may be lost, streams break | the daemon's idea of the subscription and memory's agree; no listener is left over |
| Task execution (`agent/run.rs`, `task.rs`, `budget.rs`, `config.rs`) | `TaskState`, budget, local failure artifact, the task's facts in memory | bootstrap, execution loop, validation, review, retries, persistence | memory, LLM providers, progress events | a dozen failure paths; the outcome is several facts, each written, verified and rewritten by itself; crashes between them | loops and spending bounded; what is reported is what is stored; prefixes of the outcome make sense |
| `agent_status` (`server/handlers/mcp/status.rs`) | none | five queries, one derived status | memory, beside a running task | the queries see different moments | the answer fits some outcome the task had |
| Progress events (`server/mcp_events.rs`, `server/handlers/mcp/sse.rs`, `mod.rs`) | subscribers by session, sessions by task; a queue per run | subscribe, bind, emit, clean up | `agent_start`, `agent_create_task`, runs | two mutexes never held together; streams come and go | events in order, and the end of a run reaches who waits for it |
| OAuth registries (`oauth/clients.rs`, `oauth/tokens.rs`, their handlers) | clients and tokens in memory and in files | register, authenticate, mint, rotate, touch, revoke, cascade, sweep | authorisation sessions (a code allows a mint) | memory changes before the file; a save may fail; handlers release the lock between steps; restarts | saved removals are final, delivered tokens live on, pairs stay pairs |
| Authorisation sessions (`oauth/sessions.rs`, `authorize.rs`) | sessions with redirect URI, challenge, PIN, code and three deadlines | create, issue PIN, approve, deny, exchange, sweep | token endpoint | deadlines, repeated and late pages | a code is earned, in time, and exchanged once by whom it was minted for |
| Capture hooks (`plugin/capture.rs`, `buffer.rs`, `offset.rs`, `platform/`) | offsets file, buffer file | capture, enqueue, replay | memory, the CLI's transcript | processes that share files without locks, writes without answers | nothing captured is lost, nothing is skipped |
| Plugin set-up and autostart (`plugin/setup.rs`, `uninstall.rs`, `autostart.rs`, `config.rs`) | the CLIs' settings and MCP files and registries, the agent's configuration, its unit | setup, uninstall | the coding CLIs, the service manager, the user's own entries, other agents' set-ups | dozens of steps, each may fail or be the last; files read and written back without locks; half-done runs before this one | a run that returns without a failed step leaves exactly what it promises; what is others' stays |
| MCP gateway (`server/handlers/mcp/mod.rs`, `auth.rs`, `plugin/proxy.rs`, `create_task.rs`, `task_list.rs`) | session counter, the proxy's session id and queue of lines | initialise, list and call tools, forward to memory, create a task | memory, event hub, token registry, the CLI | a task is created in several calls, and can run before its creator is bound; session numbers start again after a restart | the answer names the caller's task, events go to who created it, every line is answered |
| LLM backend (`llm/`, plan selection in `agent/run.rs`, `pricing.rs`) | none | select a plan, price and provider, call it | memory, APIs, CLIs | fallbacks over half-filled answers | a plan is executed only with a price and a key or a CLI |
| Task resolution (`agent/resolve.rs`) | none | find a task by id | memory | | the id names the task |
| Memory client (`client/`), credentials and sandbox, logging and health, metadata pages, start-up (`main.rs`) | mostly none | | | | |

`PROJECT.json` lists every component with its status and, under `hazards`,
each place where the code can go wrong in a way a test hardly reaches.

## Modules

| Module | Models | Uses |
|---|---|---|
| `ExclusiveRuns` | what `agent_start` promises: a task has one run, an agent id at most `MaxParallel` | |
| `TaskDispatch` | discovery, claims, the handler and its accounts | implements `ExclusiveRuns` |
| `TaskDispatchProofs` | theorems about it | |
| `CourierSubscription`, `CourierSubscriptionProofs` | subscriptions and listener tasks, theorems | |
| `LlmBackend` | plan, price, provider and what a call returns: operators without state | |
| `TaskRun` | one task from bootstrap to its last event, over memory | extends `LlmBackend` |
| `TaskRunProofs` | theorems about it | |
| `TaskStatus` | `agent_status` beside that run | extends `TaskRun`; theorems in `TaskRunProofs` |
| `McpEvents`, `McpEventsProofs` | the event hub, its streams and the runs that feed it, theorems | |
| `McpGateway`, `McpGatewayProofs` | proxies, requests, forwarded tools, the creation of tasks and where their events go, theorems | |
| `OAuthTokens`, `OAuthTokensProofs` | clients and tokens in memory and on disk, theorems | |
| `OAuthSessions`, `OAuthSessionsProofs` | authorisation sessions, theorems | |
| `Capture` | capture hooks, buffer, replay | |
| `PluginSetup` | setup and uninstall, the files they change and the daemon they start | |
| `PluginProofs` | theorems about `Capture` and `PluginSetup`, which share no state | |
| `MC…` | instances for TLC | the module each is named after |

How state and actions correspond to the code, module by module (`map` in
`PROJECT.json` has the lines):

* **TaskDispatch.** `seen`/`order` are the tracker, `inFlight` and `slots` the
  two tables of `AppState`. A call is a courier event, a claim of the poll loop
  or an HTTP request; `pc` is the await or lock it stands at: `Admit`,
  `Reserve`, `BusyRelease`, `ReleaseTask` and `ReleaseSlot` are the lock scopes
  of `start.rs` in their order. `run_with_progress` is one step that leaves a
  result (`PersistResult`) or does not. `Disconnect` drops the handler's future;
  what it held is counted in the history variables `lostTasks`, `lostSlots`.
* **CourierSubscription.** `caller` is the await a call of the watcher or of a
  client stands at while it holds the mutex; `stage` and `sender` are a listener
  task and the sending half of its `watch` channel. A failed or dropped call
  drops the sender, which is what stops the listener (`GiveUp`, `Stop`).
  `first` is what the oneshot channel delivers: only the first connection id.
* **TaskRun.** `at` is the point of `run_with_progress`; a call of the loop, a
  review, an artifact, a fact and its verification are steps of their own.
  `todo` holds the canonical facts `persist_results` has still to write, in its
  order; `pass` says which of its calls is under way, since the first error is
  followed by one remedy. An answer is `clean` or `unclean` by whether
  `sanitize_task_result` accepts it a second time. Ending a run with an error,
  which only `agent_start` reports, is `aborted`. `plan` is the plan that is
  executed: `Prepare` takes one that `LlmBackend` can derive from what memory may
  answer, and the estimates, costs and responses of each call follow from it.
* **LlmBackend.** An answer of memory is a record of the fields the agent reads.
  `ExecutionPlan` derives a plan from it, with the CLI that `ResolveLocalCli`
  finds on this host; `Selected` falls back from the planner's answer to that of
  the recall, `Price` from the agent's list to memory's, `Route` from a model's
  prefix to a provider. `Chat` is what a call may return, ill-formed bodies, CLIs
  that fail and missing workspaces included.
* **TaskStatus.** One step per query, between any two steps of the run;
  `Effective` and `Incomplete` are the derivation.
* **McpEvents.** A lock scope of the hub is a step: `Begin` reads the bound
  sessions, `Send` the streams, `EndBindings` removes bindings after a terminal
  event; `Unsubscribe` and `Unbind` are the two halves of the cleanup that a
  dropped stream starts. Each run has a bounded number of progress events, a
  queue and a forwarder, and the handler itself emits the terminal event of an
  aborted or refused call. An event is `named` when it has a `task_fact_id`;
  `Begin` drops one that has none, such as the first event of a run and all
  events of a run that cannot resolve its task (`Unresolved`). What a stream was
  sent goes when its client leaves (`Drop`).
* **OAuthTokens.** Each store is a pair of a set in memory and a set on disk; a
  save copies the one to the other or fails. A token id stands for a refresh
  token and the access token minted with it. History variables remember what
  was delivered, dropped, saved as gone, and minted late.
* **OAuthSessions.** A deadline is the number of ticks left, so time needs no
  bound. `told` is the PIN the operator saw last, and `submitted` is history: the PIN
  that approved a session and the time it had left. A request names a redirect URI
  and a challenge; the exchange shows a verifier.
* **Capture.** A hook is a process with steps for reading the transcript,
  loading the offset, writing, enqueueing and saving; a replay is another.
* **PluginSetup.** A run of setup or uninstall is the list of its steps
  (`SetupSteps`, `UninstallSteps`), which `proc` works off. A step on a file is
  `Read` and then `Write`, with whatever others do in between; `must` says whether
  the code propagates the step's error. `disk` has the MCP entries and the
  matcher groups of hooks in each file, a group being the set of those who have a
  hook in it: `Updated` drops every group in which the agent has a hook, whole, and
  `Regroup` is the user who moves its hook into such a group or out of it.
  `registry` has the entries that `claude mcp add` and
  `codex mcp add` keep themselves, `daemon` the configuration with which the
  supervised process was started. `lost` and `swept` are history variables: the files whose
  content was overwritten by somebody who had not seen it, and those in which an
  agent's group was dropped with the user's hook in it.
* **McpGateway.** `call` is the point a client's request has reached:
  `Parse`, `Ingest`, `Resolve`, `Bind` and `EmitQueued` are the awaits of
  `agent_create_task`. `sid` is the session id a client keeps from the last
  response (the proxy repeats it in each request), `bound`, `stream` and `heard`
  the event hub, `ran` the tasks the agent has resolved and executed. A dropped
  stream is cleaned up in two lock scopes, `CloseStream` and `Unbind`, between which
  its session is in `cleaning`. `RunUnresolved` is a run whose last event does not
  name the task, `StartRefused` an `agent_start` answered `busy` or
  `already_running`, which is a terminal event for those who wait. A client that
  needs a token may lack a valid one at any request. `reused`, `early` and `cut` are
  history: sessions used after a restart of the daemon, bindings made after the
  task had run, and clients whose open stream lost bindings to the cleanup of an
  earlier one.

`OAuthTokens.ConsumeCode` is `OAuthSessions.Exchange` seen from the token
endpoint, `TaskDispatch.PersistResult`/`RunReturn` stand for a `TaskRun`, and
`McpEvents.Start`/`AlreadyRunning` for the two ends of `TaskDispatch.Admit`;
`TaskDispatch.CourierEvent` is what an open listener of `CourierSubscription`
delivers; `McpGateway.RunTask` is a whole run of a task, and its `Told` an
emission of `McpEvents`; `PluginSetup.InstallUnit` starts the daemon that the
others describe. The modules are checked apart because the product of their states is
out of reach and the interfaces are these single steps.

## Runs

One run is expected to find a violation; the section *Where code and text
disagree* explains it.

| Run | Question | Bounds and why they are enough |
|---|---|---|
| `dispatch_safety` | Do two calls ever run one task, do the in-flight table, the slot counts and the tracker stay exact, is `ExclusiveRuns` implemented? | two tasks, one call of each origin (courier, poll, HTTP), two slots, so that the limit alone does not keep runs apart, a tracker of one entry, every fault: the tracker forgets, a slot is refused when a dropped or a returning call still has one, and the daemon restarts, in any order |
| `dispatch_roomy` | Does every task get its result, executed once by courier and poll loop together? | slots for all calls, a tracker and a poll window that hold both tasks, no faults: what remains is scheduling |
| `dispatch_busy` | The same with one slot | violated, with no fault at all |
| `task_run` | Does a run end, within its limits? Is what it reports what memory holds, written in a safe order? | plans of every kind (API and CLI, priced, free, without price or key, a workspace that is gone), two runs of a task, two iterations over two attempts, calls that are free or dear, a budget for one dear call and a review, each fact written up to twice, failures of bootstrap, model, memory and the process, and writes that take effect late, into the second run too. A full disk, which only `OutcomeKept` would excuse, is left to the next run |
| `task_status` | Does the answer fit the task, while queries fail and the run goes on? | one run and one status call at every point of it, with writes that take effect late; loops are cut to one iteration, since a status call sees facts only |
| `progress_events` | Do events arrive in order, and does the end of a run arrive? | two streams of one session, a call of that session and one of the courier, three events per run, of which the first does not name the task, runs that cannot resolve their task, aborts, refusals, callers and streams that go away |
| `oauth_faults` | Are removals final, do delivered tokens survive, is every orphan explained? | one client, two calls, one administrator, three tokens: a rotation overlaps a revocation, with failing saves, dropped calls and restarts |
| `oauth_sessions` | Is a code earned, exchanged once, and every session evicted? | two sessions and clients, registered and other redirect URIs, right and wrong verifiers, two PINs, deadlines of two and three ticks, so that PIN and code can expire before the session or with it |
| `capture_hooks` | Is anything captured lost, skipped, confused or written twice? | five hooks, three lines, a buffer of three entries that overflows, a replay at any time |
| `courier_faults` | Are listener, daemon and memory in agreement, and does a listener without subscription stop? | three listeners and three connections, one client beside the watcher, every fault: overlap, reconnection, loss and restart |
| `plugin_setup` | Does a setup or uninstall leave exactly what it promises, whatever runs before it left half done? Do other entries survive? | two agents, whose runs may overlap or follow one another, six setups that differ in scope, selection, address, port and directory, of which one is the home directory, where project and user files coincide; commands and writes that fail, runs that are killed in the middle of a write, a user who leaves a file unreadable or moves its hook into an agent's matcher group; a host with all the CLIs and one with none |
| `mcp_gateway` | Does an answer name the caller's task, do events go to who created it and to their end, and is every line served? | a CLI behind its proxy and a remote client with a token and a stream, two requests each, a task for this agent and one for two agents, a stream that opens and closes at any time, starts that are refused and runs that cannot resolve their task, failures of memory, missing tokens, and one restart: enough for a session number to be given away a second time while the first holder still uses it |

`CHECK_DEADLOCK FALSE` is set where the bounded system may stop: all runs are
over, all ids used, or nobody calls any more.

`SYMMETRY` is used in `dispatch_safety` (task facts), `oauth_faults` (clients,
tokens, calls) and `plugin_setup` (agents). None of these sets is ordered by the modules, and the
one `PROPERTY` among them, `RunsAreExclusive`, has no liveness part.

Every property of a passing run has a *mutant*: a plausible bug in a mapped
definition with which TLC finds the property violated. The mutants stand next
to the definitions they change and are used by nothing else.

Several invariants name what the code gives up and demand everything else.
The exceptions are history variables, so that an exception is no wider than the
event that causes it: `lostTasks` and `lostSlots` (calls dropped while they hold
an entry), `given_up` (subscriptions whose call failed), `racing` (streams opened
while their session is being unbound), `overtaken` (a write that had timed out
took effect after all), `flushed`, `truncated` and `raced` (lines
and entries that hooks and replays pass over), `lost` (files overwritten unseen),
`swept` (the user's hook in an agent's matcher group),
`reused`, `early` and `cut` (sessions used over a restart, bindings that came too late, bindings
that a cleanup took from a newer stream), `late`, `uncascaded` and `failed`
(tokens of deleted clients).

## Fairness

Only liveness properties assume any.

* `TaskDispatch.Fairness`: the runtime polls every ready future and the poll loop
  has a timer. Nothing obliges a client to call or the courier to deliver. The
  poll query has no timeout in the code; that memory answers it, or its
  connection breaks, is assumed, and that a run ends is assumed as below.
* `CourierSubscription.FairSpec`: the same for the tasks of the courier.
  `tokio::sync::Mutex` is granted in order, so the watcher's steps are strongly
  fair, and so is `Stop`, because `select!` polls its branches in random order.
* `TaskRun.FairSpec`: the runtime polls a run whose call has ended. That every
  call ends is an *assumption*, which the code does not ensure. Timeouts guard
  the calls of the bootstrap (`bootstrap_memory_timeout`), the facts that
  `await_memory_control` writes and verifies, and calls to an API
  (`LLM_CALL_TIMEOUT`). Nothing guards the artifacts of attempts and reviews, the
  queries for deliverables and the memory calls of tools, whose transport has no
  timeout of its own, nor a local CLI (`llm_call_timeout` is `None` for it).
  `RunEnds` says that the loops and retries of a run come to an end if each of
  their calls does.
* `McpEvents.FairSpec`: while a call can start its run, a run can go on or an
  emission or forwarder can take a step, some such step is taken. Clients
  subscribe, leave and call as they please.
* `McpGateway.FairSpec`: for each client, while its proxy can take a line, the
  daemon can go on with its request or the answer can arrive, some such step is
  taken. That memory answers or its connection breaks is assumed; that the daemon
  runs is not: a request that cannot reach it is answered with an error.
* `OAuthSessions.FairSpec`: time passes and the sweeper's interval fires.

## Proofs

The theorems hold for every value of the constants that satisfies the named
assumption of the module (`DispatchAssumption`: calls of the three origins are
disjoint and finitely many, the limits are natural numbers, and so on;
`OAuthAssumption`, `SessionsAssumption`, `CourierAssumption`, `RunAssumption`,
`EventsAssumption`, `GatewayAssumption`, `SetupAssumption` and `CaptureAssumption`
likewise). TLC evaluates the assumptions in the runs.

`TaskDispatchProofs`

* `TypeCorrect`: `TypeOK` is inductive as it stands, because it includes that a
  call that is not idle has a task and that a poll loop that is not asleep has a
  batch.
* `InFlightAccounted`: `TypeOK /\ InFlightExact`. The account is exact *because*
  each entry has one owner: `InFlightExact` therefore carries that two holders
  have different tasks and that none of them is a lost entry. Without this a
  release could take away another call's entry.
* `RunsExclude`: one run per task, a consequence.
* `SlotsAccounted`: `TypeOK /\ SlotsExact`, with the cardinality of the slot
  holders before and after each step. It shows that the saturating subtraction
  of the release never saturates.
* `DispatchRunsOnce`: if `TrackerHasRoom`, the tracker holds every task, a
  dispatched call runs a task that none has run before in this process. The
  tracker then forgets nothing, so that two calls with a claim have different
  tasks, and one that has yet to run has a task that has not been run
  (`OneClaim`).
* `HandlerImplementsExclusiveRuns`: the refinement. A `Reserve` that succeeds
  maps to `Start`; its guard needs `InFlightExact` for the task and `SlotsExact`
  for the agent's count. Releases, drops and restarts map to `Finish` and
  `Crash`, every other step to a stutter.

`OAuthTokensProofs` proves one inductive invariant, `Inductive`: `TypeOK`,
`AccessHasRefresh`, the parts of `RemovalSticks` and `DeliveredSurvives`, and
what ties them: ids in any store have been issued, registered clients are
used ones, a token carried by a call that will deliver it survives already.
Without the last part a failing save between minting and delivering would
break `DeliveredSurvives`. `TypeCorrect`, `AccessFollowsRefresh`,
`RemovalsStick` and `DeliveredTokensSurvive` follow. `OrphansAreAccounted` needs
more: a client whose secret was returned and that is in memory is on disk
(`KnownAreSaved`), and a token on disk that is not in memory was dropped
(`RemovedAreDropped`), so that a restart brings back no token without its client.

`TaskRunProofs` proves everything `task_run` checks but the end of the run, for
any budget, limits and plans. A run's promises are about what memory holds at its
end, which no single step shows; the invariant therefore says, at every point,
which end of `Outcome` is still to be stored (`TodoInv`: one of the few in
`Rest`, matching the status and whether the task wants a deliverable) and so what
memory has already (`StoredInv`), unless a write that had timed out has overtaken
it. `LoopInv` and `MoneyInv` bound iterations, attempts and spending, `ControlInv`
ties a point to the status and the terminal event. `LimitsAreKept`,
`DoneStaysStored`, `OutcomesAreKept`, `DoneNeedsDeliverable` and the action
property `SessionsFollowResults` follow, the last from the order in which `todo`
is worked off.

`OAuthSessionsProofs`: `CodesExchangedOnce` needs that a session which may still
yield a code has not yielded one (`NotYetExchanged`), and that an id is not drawn
again; `CodesAreEarned` that the PIN in the store is the newest (`NewestPin`) and
is spent by the approval (`CodeApproved`), and that a spent PIN is the one that was
submitted, before its time was over (`PinSubmitted`).

`CourierSubscriptionProofs`: `ListenersAreOwned`, `SubscriptionIsReal` and
`RemoteIsAccounted` from an invariant that ties the three places which know of a
listener: the call that holds the mutex (`CallsHold`, `Exclusion`), `sub_id` and
`cancel_tx` (`FieldsAgree`), and the listener's sender (`Owned`).

`McpEventsProofs`: `EventsInOrder` and `EndsAreDelivered`. The events of a call
lie in its queue, with its forwarder or in what the streams were sent, in the
order of their numbers (`FlowInv`). A stream that waits for a call's end is
bound, and the end is in the queue or on its way to it (`WaitInv`); streams in the
gap of `unsubscribe` and calls that another one interferes with are excepted,
and so is a call whose run ended without a name for its task.
It needs that a stream which a call bound is older than the binding (`StreamInv`)
and that bindings are removed only when the call is no longer waiting
(`EndingInv`).

`McpGatewayProofs`: `EndsAreHeard` because a stream that was told of a task stays
bound to it until the task has run or a call to run it was refused, which it is
told (`QueuedBound`), unless it is in `cut`; and a binding of a task that has
run was late (`LateBindings`). `AnswersNameOwnTask`: the task just stored is
among those that the query for its id matches, so that the newest of them is it
or has the same id; that the set has a newest member is proved from its bound.
`EventsArePrivate`: a session that was never used after a restart has one holder
(`OneHolder`), from the answer to `initialize` that carries its number to the
stream that is opened with it, and who holds the session of a binding has created
the task (`BoundInv`). Numbers above the counter are held by nobody (`InRange`),
so the next one is new.

`PluginProofs`, set-up: `OthersAreKept`. A step changes the entries of its own
agent in what it has read (`UpdatedKeeps`), and what was read holds those of
others unless `lost` or, for the user's hook, `swept` says otherwise. Agents never
share a group (`Separate`), so that a step drops no other agent's hook. `DaemonIsRefreshed`: every list of steps of a
setup that refreshes the daemon ends with the refresh (`SetupEnds`), so a run has
done it, has counted a failure or still has it ahead (`RunInv`), and nothing but a
new run touches the configuration once it has returned (`LastInv`).
`SetupDoesInstall` and `UninstallDoesClean` speak of what a run has left when it
returns, in every file and registry at once. Their proof has three parts.

1. About the lists alone: among the steps for one *spot* (a kind of entry in one
   place) the last one decides (`Settles`). `SetupSettles` computes for every
   scope, directory, selection and address which spots a setup puts and which it
   clears, and `UninstallSettles` that an uninstall clears all: the removal of
   what an earlier run left in the other scope comes out as a property of the
   list, and so does the case of the home directory, where both scopes are one
   file.
2. About a step: if it succeeds, what it is for is achieved (`Achieved`), and
   nothing is disturbed that its own agent has achieved at other spots or that
   another agent has (`Effect`, `Others`). A file in `lost` is excepted.
3. The invariant `PlacesInv`: at every point of a run without a failed step, the
   steps done so far are a prefix of its list and what they settle holds
   (`Done`, `Holds`); when it has returned, the prefix is the list (`Finished`),
   and remains so while other agents run, fail or are killed.

A removal that reads a file without entries of the agent does not write it; that
it has then achieved what it is for is `ReadStep`.

These rest on the jobs being setups of scope `project` or `user` that are run in
one of `Dirs`, which is all that the command line accepts.

`PluginProofs`, hooks: `CapturesAreKept`, `NoLineIsSkipped`, `NoLineIsTwice` and
`IdsAreDifferent`, for any number of hooks, lines and buffered entries and with
or without failing writes. They share one invariant, `CaptureInv`. The CLI waits
for a hook, so those before the running one have ended (`HookOrder`) and its turn
follows from its number (`HookTurn`); hence an entry in memory or in the buffer
has exactly one hook that made it (`Owned`), which is what separates ids. A
response takes the lines from the offset on, except those flushed since
(`HookLines`), the offset passes a line only when an entry with it is in memory
(`OffsetInv`), and a replay has in hand or has delivered whatever it took from
the buffer (`QueueInv`).

`TaskRunProofs` also proves the two properties of `TaskStatus`, whose steps are
those of the run and of a status call. `DoneAnswersHaveResults`: an answer that
says `done` was derived from a fact that a query saw, at the time it was made;
such a fact never appears before what can be fetched of it (`Backed`), and what
can be fetched stays so (`SeenInv`). `SettledAnswersHold`: a call that began after
the run had returned, with none of its writes still under way, sees the outcome in
every query, because only another run changes it (`SettledInv`).

`TypeOK` of the modules with a `TypeCorrect` is a theorem, which holds for every
instance, and no run repeats it.

Only model-checked: every liveness property (`dispatch_roomy`, and the temporal
properties of the other runs), since liveness under fairness and `ENABLED` are out
of the provers' reach, and so is what a recursive definition computes for all
inputs (no module here has one). Every safety property that a passing run checks
is a theorem. TLC and TLAPS parse `UNION S \cup T` differently, so `McpSeen` has
parentheses there: both then speak of one definition.

## Where code and text disagree

TLC refutes what the text says in the run `dispatch_busy`, with the text quoted
in `findings`: a dispatched task that meets a busy agent keeps its claim and is
not executed before a restart. The counterexample needs no fault: a client's call
holds the only slot when the poll loop claims the second task.

Other behaviour that a reader may not expect is part of the models. No run
states the opposite; where a property touches it, the property excepts it.

* Polling asks for the newest 50 task facts, finished or not: an older task that
  the courier missed is not found. `TasksGetResults` is checked with a window
  that holds every task.
* `max_parallel_tasks` limits each agent id, not the daemon; `SlotsExact` and
  `ExclusiveRuns` say what the code does.
* The mandatory review is skipped when the budget is short (`ReviewSkipped`).
* `agent_status` may report a session missing that is written a moment later,
  and `failed` for a run that is about to succeed, when it overlaps the writing
  of the outcome. `SettledAnswer` speaks of calls that begin after it.
* The answers `already_running` and `busy` are terminal events of the task: they
  unbind the sessions of every other call about it, and a creator who is told so
  need not hear of the run (`EndIsHeard` accepts either). A stream that is opened
  while its session is being unbound misses what follows (`racing`, `cut`).
* `emit_task_progress` drops events without a `task_fact_id`. A run has none until
  its task is resolved, so a run that ends with `RESOLVE_FAILED` tells nobody, and
  the binding of a creator whose task failed so stays. `Delivered`,
  `TerminalArrives` and `EndIsHeard` speak of runs that have resolved their task.
  The event "resolving task from memory" of every run is dropped as well.
* A setup or an uninstall replaces every matcher group in which one of the agent's
  commands is found. A hook that the user has put into that group goes with it
  (`swept`).
* A code may be swept with its session before its own time is over.
* Lines that are flushed to the transcript while a response hook runs may be
  skipped; an entry enqueued while a replay is sending is dropped by it.
* Revoking a client again after a cascade that could not be saved does nothing:
  the client is gone, so the handler neither cascades nor saves. What is left
  over is what `OrphansAccounted` excepts.
* After a stream of the courier has broken and come back, the subscription still
  names the old connection. What a connection id means to memory is not in this
  repository; the models therefore let a listener deliver or not.
* A restart of the daemon makes it number sessions from the start. A proxy keeps
  its old number, and so can be given another's events (`EventsPrivate`).
* A task can be run by the courier before its creator's session is bound, who
  then hears that it is queued and never that it has ended (`EndIsHeard`).
* `resolve_task_fact_id` takes the newest task with the id, so two requests that
  use one id at the same time may be answered with each other's fact (`OwnTask`).
* Two set-ups at the same time can undo each other's entries in a file both
  change, and a settings file that is not valid JSON is taken for empty and
  replaced (`lost`).
* The result of `systemctl disable --now` is ignored: an uninstall may leave the
  daemon running without unit or configuration. `UninstallCleans` says nothing of it.
* A subscription whose answer was lost has no id in the daemon, so the cleanup
  before the watcher's retry cannot remove it.

## Abstractions

Ids (tokens, clients, sessions, facts) never repeat; the code draws them at
random. Texts, prompts, tool calls, prices and tokens are left out; amounts of
SHELL are small integers, and an estimate or a cost is any of a set. Time
appears only as deadlines in `OAuthSessions` and as timeouts that may happen
elsewhere. A mutex is a step, or a set of points that exclude each other. Files
of the OAuth stores and of the hooks are written whole or not at all, which is
how the code writes the former; a settings file or a configuration may be cut off
(`Torn`, `TornConfig`). An emission is one step in `McpGateway`, whose lock scopes
are those of `McpEvents`; so is the instant between the end of a stream and the
first lock scope of its cleanup. The hooks of an agent under several events of one
settings file are one. The queue between the CLI and its proxy has no framing.
The detached store of a task's description, codex's legacy hook file and a
settings file whose root is JSON but not an object are left out, and so is
`use_tool` of a plan. SHA-256 is injective in `S256`. In `LlmBackend` the model's
name is what is taken for the CLI when none is named, so the fallbacks to a
provider after it are never reached. External parts, modelled from how the code
uses them, are the memory server (it replaces a fact of the same id; a failed
call may have taken effect, a timed-out write may take effect later), axum
(it drops the future of a request whose connection closes), the coding CLI,
and the clock.

Named bounds: `MaxListeners`, `MaxConnections`, `MaxRuns`, `MaxQueries`,
`MaxPins`, `MaxLines`, `MaxInbox`, `MaxStarts`, `Steps` (the events of a run), in `McpGateway` one cleanup
of a session at a time and one request at a time of a client without proxy, and the finite sets of calls, streams, hooks and token
ids. Each limits how often the environment acts and none limits what the code
does in answer.

## Not modelled

The encoding of JSON-RPC over HTTP, credentials and the sandbox wrapper, the
metadata documents, access log and health check keep no state that two actors
share, and consist of input and output. The same holds for the parts of modelled
components that `PROJECT.json` names in their notes: the admin token, which is a
constant of a process; the framing of the proxy's messages; the reading of the
price list and of command-line options; the matching of ids and agents in
`agent/resolve.rs`, a pure function of what memory answers; the texts of prompts,
reviews and tool calls; hooks that are killed and transcripts without assistant
lines.

## Plan

Done: dispatch, tokens, task run, status, events, sessions, capture and courier,
because dispatch and execution are what the daemon is for; then set-up and the
gateway; then the theorems about sessions, courier, task run, events and gateway; last those
about status calls, capture hooks and what a set-up and an uninstall leave.

Worth doing next:

1. Abstract specifications, with a refinement to be proved: an outcome that memory reveals piece by piece, which
   `TaskRun` implements; a token that is live until it is removed, which
   `OAuthTokens` implements; a queue that is neither lost nor reordered for
   `McpEvents`.
2. Compositions: `OAuthSessions` with `OAuthTokens` from the page to the pair;
   `CourierSubscription` with the tracker of `TaskDispatch`.
3. Extensions: hooks that are killed and Gemini's hooks in `Capture`, restarts
   in `McpEvents`.
