---------------------------- MODULE TaskDispatch ----------------------------
(***************************************************************************)
(* How a gosh-agent daemon comes to run a task: the watcher's poll loop    *)
(* and the courier listener discover task facts, claim them in the         *)
(* dispatch tracker and call the agent_start handler; MCP clients call the *)
(* same handler over HTTP.  The handler resolves the task, enters it in    *)
(* in_flight_tasks, takes one of the agent's slots in in_flight_by_agent,  *)
(* runs the task inline and gives both back.  Each of those tables has a   *)
(* mutex of its own, so every lock scope is a step here.                   *)
(*                                                                         *)
(* A call is an activation of the handler.  An HTTP call is a future owned *)
(* by the connection and is dropped, at whatever await it stands, when the *)
(* client goes away; a dispatched call is a spawned task and only dies     *)
(* with the process.                                                       *)
(***************************************************************************)
EXTENDS Integers, Sequences, FiniteSets

CONSTANTS
  Tasks,            \* task facts, named by their task_fact_id
  Agents,           \* values the agent_id argument takes
  WatchAgent,       \* the agent the watcher and the courier dispatch for
  HttpCalls,        \* concurrent agent_start calls made by MCP clients
  CourierCalls,     \* concurrent tasks spawned for courier events
  PollCalls,        \* concurrent tasks spawned by the poll loop
  MaxParallel,      \* AgentConfig.max_parallel_tasks
  TrackerCapacity,  \* DISPATCH_TRACKER_CAPACITY
  PollLimit,        \* the limit of the poll query
  Faults,           \* the faults the environment may inject
  NoTask

DispatchCalls == CourierCalls \cup PollCalls
Calls == HttpCalls \cup DispatchCalls

FaultKinds == {"disconnect",       \* an HTTP client goes away during its call
               "restart",          \* the daemon is killed and started again
               "unresolved",       \* arguments or task reference are refused
               "resolve_timeout",  \* resolution exceeds its timeout
               "no_result",        \* a run ends and no result reaches memory
               "query_error"}      \* the poll's result query fails

ASSUME DispatchAssumption ==
  /\ WatchAgent \in Agents
  /\ NoTask \notin Tasks
  /\ IsFiniteSet(Calls)
  /\ HttpCalls \cap DispatchCalls = {}
  /\ CourierCalls \cap PollCalls = {}
  /\ MaxParallel \in Nat \ {0}
  /\ TrackerCapacity \in Nat \ {0}
  /\ PollLimit \in Nat \ {0}
  /\ Faults \subseteq FaultKinds

VARIABLES
  stored,     \* memory: the task facts, oldest first
  results,    \* memory: the tasks that have a canonical task_result
  seen,       \* DispatchedTracker.seen
  order,      \* DispatchedTracker.order
  inFlight,   \* AppState.in_flight_tasks
  slots,      \* AppState.in_flight_by_agent, an absent key being 0
  pc,         \* where each call stands
  task,       \* the task of each call
  agent,      \* the agent_id of each call
  pollPc,     \* where the poll loop stands
  batch,      \* facts of the current poll still to be looked at
  lostTasks,  \* history: in-flight entries whose call was dropped
  lostSlots,  \* history: slots whose call was dropped
  ran         \* history: tasks a dispatched call has run in this process

memoryVars == <<stored, results>>
trackerVars == <<seen, order>>
callVars == <<pc, task, agent>>
pollVars == <<pollPc, batch>>
lostVars == <<lostTasks, lostSlots>>
vars == <<memoryVars, trackerVars, inFlight, slots, callVars, pollVars,
          lostVars, ran>>

CallPc == {"idle", "claiming", "resolving", "admit", "reserve", "busy",
           "running", "persisted", "release", "decrement"}

Stored == {stored[i] : i \in 1..Len(stored)}

\* The calls that own an entry of in_flight_tasks, and those that own a slot.
HoldsTask(c) == pc[c] \in {"reserve", "busy", "running", "persisted", "release"}
HoldsSlot(c) == pc[c] \in {"running", "persisted", "release", "decrement"}
Running(c) == pc[c] \in {"running", "persisted"}

TaskHolders == {c \in Calls : HoldsTask(c)}
SlotHolders(a) == {c \in Calls : agent[c] = a /\ HoldsSlot(c)}

Init ==
  /\ stored = <<>> /\ results = {}
  /\ seen = {} /\ order = <<>>
  /\ inFlight = {} /\ slots = [a \in Agents |-> 0]
  /\ pc = [c \in Calls |-> "idle"]
  /\ task = [c \in Calls |-> NoTask]
  /\ agent = [c \in Calls |-> WatchAgent]
  /\ pollPc = "sleep" /\ batch = <<>>
  /\ lostTasks = {} /\ lostSlots = [a \in Agents |-> 0]
  /\ ran = {}

-----------------------------------------------------------------------------
(* Bookkeeping of a call.                                                  *)

Begin(c, t, a, at) ==
  /\ pc[c] = "idle"
  /\ pc' = [pc EXCEPT ![c] = at]
  /\ task' = [task EXCEPT ![c] = t]
  /\ agent' = [agent EXCEPT ![c] = a]

Goto(c, from, to) ==
  /\ pc[c] = from
  /\ pc' = [pc EXCEPT ![c] = to]
  /\ UNCHANGED <<task, agent>>

End(c) ==
  /\ pc' = [pc EXCEPT ![c] = "idle"]
  /\ task' = [task EXCEPT ![c] = NoTask]
  /\ agent' = [agent EXCEPT ![c] = WatchAgent]

-----------------------------------------------------------------------------
(* Discovery: memory stores facts, the courier and the poll loop see them. *)

\* Anyone who can write to memory stores a task fact.
StoreTask(t) ==
  /\ t \notin Stored
  /\ stored' = Append(stored, t)
  /\ UNCHANGED <<results, trackerVars, inFlight, slots, callVars, pollVars,
                 lostVars, ran>>

\* Mutant of Claim: a seen task is claimed.
ClaimUnchecked(t) ==
  /\ order' = Append(IF Len(order) >= TrackerCapacity THEN Tail(order)
                     ELSE order, t)
  /\ seen' = seen \cup {t}

\* claim: a task seen before is refused; a full tracker forgets its oldest.
Claim(t) ==
  LET full == Len(order) >= TrackerCapacity
  IN /\ t \notin seen
     /\ order' = Append(IF full THEN Tail(order) ELSE order, t)
     /\ seen' = (IF full THEN seen \ {Head(order)} ELSE seen) \cup {t}

\* The courier stream delivers an event, possibly again, and a task is spawned.
CourierEvent(c, t) ==
  /\ t \in Stored
  /\ Begin(c, t, WatchAgent, "claiming")
  /\ UNCHANGED <<memoryVars, trackerVars, inFlight, slots, pollVars, lostVars,
                 ran>>

CourierClaim(c) ==
  /\ pc[c] = "claiming"
  /\ \/ /\ task[c] \in seen
        /\ End(c)
        /\ UNCHANGED trackerVars
     \/ /\ Claim(task[c])
        /\ Goto(c, "claiming", "resolving")
  /\ UNCHANGED <<memoryVars, inFlight, slots, pollVars, lostVars, ran>>

\* The poll query: the newest PollLimit task facts, newest first.
PollQuery ==
  LET n == IF Len(stored) < PollLimit THEN Len(stored) ELSE PollLimit
  IN /\ pollPc = "sleep" /\ n > 0
     /\ batch' = [i \in 1..n |-> stored[Len(stored) + 1 - i]]
     /\ pollPc' = "check"
     /\ UNCHANGED <<memoryVars, trackerVars, inFlight, slots, callVars,
                    lostVars, ran>>

PollNext ==
  /\ batch' = Tail(batch)
  /\ pollPc' = IF Len(batch) = 1 THEN "sleep" ELSE "check"

\* check_has_result: a failed query counts as no result.
PollCheck ==
  /\ pollPc = "check"
  /\ \/ /\ Head(batch) \in results
        /\ PollNext
     \/ /\ Head(batch) \notin results \/ "query_error" \in Faults
        /\ pollPc' = "claim"
        /\ UNCHANGED batch
  /\ UNCHANGED <<memoryVars, trackerVars, inFlight, slots, callVars, lostVars,
                 ran>>

PollSkip ==
  /\ pollPc = "claim"
  /\ Head(batch) \in seen
  /\ PollNext
  /\ UNCHANGED <<memoryVars, trackerVars, inFlight, slots, callVars, lostVars,
                 ran>>

PollClaim(c) ==
  /\ pollPc = "claim"
  /\ Claim(Head(batch))
  /\ Begin(c, Head(batch), WatchAgent, "resolving")
  /\ PollNext
  /\ UNCHANGED <<memoryVars, inFlight, slots, lostVars, ran>>

-----------------------------------------------------------------------------
(* The agent_start handler.                                                *)

HttpStart(c, t, a) ==
  /\ t \in Stored
  /\ Begin(c, t, a, "resolving")
  /\ UNCHANGED <<memoryVars, trackerVars, inFlight, slots, pollVars, lostVars,
                 ran>>

\* Every return before the task is bound: a missing task_id, a budget below 1,
\* a disabled agent, a reference that does not resolve or is not for this agent.
EarlyReturn(c) ==
  /\ "unresolved" \in Faults
  /\ pc[c] = "resolving"
  /\ End(c)
  /\ UNCHANGED <<memoryVars, trackerVars, inFlight, slots, pollVars, lostVars,
                 ran>>

\* A resolution timeout stores a failed result, if memory answers by then.
ResolveTimeout(c) ==
  /\ "resolve_timeout" \in Faults
  /\ pc[c] = "resolving"
  /\ \/ results' = results \cup {task[c]}
     \/ "no_result" \in Faults /\ UNCHANGED results
  /\ End(c)
  /\ UNCHANGED <<stored, trackerVars, inFlight, slots, pollVars, lostVars, ran>>

Resolve(c) ==
  /\ Goto(c, "resolving", "admit")
  /\ UNCHANGED <<memoryVars, trackerVars, inFlight, slots, pollVars, lostVars,
                 ran>>

\* Mutant: the refused call cleans up the entry it found.
AdmitCleansUp(c) ==
  /\ pc[c] = "admit"
  /\ \/ /\ task[c] \in inFlight
        /\ End(c)
        /\ inFlight' = inFlight \ {task[c]}
     \/ /\ task[c] \notin inFlight
        /\ inFlight' = inFlight \cup {task[c]}
        /\ Goto(c, "admit", "reserve")
  /\ UNCHANGED <<memoryVars, trackerVars, slots, pollVars, lostVars, ran>>

\* One lock scope: already running, or entered as running.
Admit(c) ==
  /\ pc[c] = "admit"
  /\ \/ /\ task[c] \in inFlight
        /\ End(c)
        /\ UNCHANGED inFlight
     \/ /\ task[c] \notin inFlight
        /\ inFlight' = inFlight \cup {task[c]}
        /\ Goto(c, "admit", "reserve")
  /\ UNCHANGED <<memoryVars, trackerVars, slots, pollVars, lostVars, ran>>

\* Mutants of Reserve: the last slot is never given; the limit is not tested.
ReserveAllButOne(c) ==
  LET a == agent[c]
  IN /\ \/ /\ slots[a] + 1 >= MaxParallel
           /\ Goto(c, "reserve", "busy")
           /\ UNCHANGED <<slots, ran>>
        \/ /\ slots[a] + 1 < MaxParallel
           /\ slots' = [slots EXCEPT ![a] = @ + 1]
           /\ Goto(c, "reserve", "running")
           /\ ran' = IF c \in DispatchCalls THEN ran \cup {task[c]} ELSE ran
     /\ UNCHANGED <<memoryVars, trackerVars, inFlight, pollVars, lostVars>>

ReserveUnlimited(c) ==
  /\ slots' = [slots EXCEPT ![agent[c]] = @ + 1]
  /\ Goto(c, "reserve", "running")
  /\ UNCHANGED <<memoryVars, trackerVars, inFlight, pollVars, lostVars, ran>>

\* One lock scope: the agent is at its limit, or one of its slots is taken.
Reserve(c) ==
  LET a == agent[c]
  IN /\ \/ /\ slots[a] >= MaxParallel
           /\ Goto(c, "reserve", "busy")
           /\ UNCHANGED <<slots, ran>>
        \/ /\ slots[a] < MaxParallel
           /\ slots' = [slots EXCEPT ![a] = @ + 1]
           /\ Goto(c, "reserve", "running")
           /\ ran' = IF c \in DispatchCalls THEN ran \cup {task[c]} ELSE ran
     /\ UNCHANGED <<memoryVars, trackerVars, inFlight, pollVars, lostVars>>

\* Mutant of BusyRelease: the entry stays.
BusyKeepsEntry(c) ==
  /\ pc[c] = "busy"
  /\ End(c)
  /\ UNCHANGED <<memoryVars, trackerVars, inFlight, slots, pollVars, lostVars,
                 ran>>

BusyRelease(c) ==
  /\ pc[c] = "busy"
  /\ inFlight' = inFlight \ {task[c]}
  /\ End(c)
  /\ UNCHANGED <<memoryVars, trackerVars, slots, pollVars, lostVars, ran>>

\* run_with_progress writes the task_result to memory ...
PersistResult(c) ==
  /\ results' = results \cup {task[c]}
  /\ Goto(c, "running", "persisted")
  /\ UNCHANGED <<stored, trackerVars, inFlight, slots, pollVars, lostVars, ran>>

\* ... and returns; a memory error can end it before any result is written.
RunReturn(c) ==
  /\ \/ Goto(c, "persisted", "release")
     \/ "no_result" \in Faults /\ Goto(c, "running", "release")
  /\ UNCHANGED <<memoryVars, trackerVars, inFlight, slots, pollVars, lostVars,
                 ran>>

ReleaseTask(c) ==
  /\ inFlight' = inFlight \ {task[c]}
  /\ Goto(c, "release", "decrement")
  /\ UNCHANGED <<memoryVars, trackerVars, slots, pollVars, lostVars, ran>>

\* A subtraction that saturates at 0, and an entry removed when it gets there.
ReleaseSlot(c) ==
  /\ pc[c] = "decrement"
  /\ slots' = [slots EXCEPT ![agent[c]] = IF @ = 0 THEN 0 ELSE @ - 1]
  /\ End(c)
  /\ UNCHANGED <<memoryVars, trackerVars, inFlight, pollVars, lostVars, ran>>

-----------------------------------------------------------------------------
(* Faults.                                                                 *)

\* The connection's future is dropped: none of the code after its await runs.
Disconnect(c) ==
  /\ "disconnect" \in Faults
  /\ c \in HttpCalls /\ pc[c] # "idle"
  /\ lostTasks' = IF HoldsTask(c) THEN lostTasks \cup {task[c]} ELSE lostTasks
  /\ lostSlots' = IF HoldsSlot(c)
                  THEN [lostSlots EXCEPT ![agent[c]] = @ + 1] ELSE lostSlots
  /\ End(c)
  /\ UNCHANGED <<memoryVars, trackerVars, inFlight, slots, pollVars, ran>>

\* Everything but memory is lost.
Restart ==
  /\ "restart" \in Faults
  /\ seen' = {} /\ order' = <<>>
  /\ inFlight' = {} /\ slots' = [a \in Agents |-> 0]
  /\ pc' = [c \in Calls |-> "idle"]
  /\ task' = [c \in Calls |-> NoTask]
  /\ agent' = [c \in Calls |-> WatchAgent]
  /\ pollPc' = "sleep" /\ batch' = <<>>
  /\ lostTasks' = {} /\ lostSlots' = [a \in Agents |-> 0]
  /\ ran' = {}
  /\ UNCHANGED memoryVars

-----------------------------------------------------------------------------

CallStep(c) ==
  \/ Resolve(c) \/ Admit(c) \/ Reserve(c) \/ BusyRelease(c)
  \/ PersistResult(c) \/ RunReturn(c) \/ ReleaseTask(c) \/ ReleaseSlot(c)

Next ==
  \/ \E t \in Tasks : StoreTask(t)
  \/ \E c \in CourierCalls : \E t \in Tasks : CourierEvent(c, t)
  \/ \E c \in CourierCalls : CourierClaim(c)
  \/ PollQuery \/ PollCheck \/ PollSkip
  \/ \E c \in PollCalls : PollClaim(c)
  \/ \E c \in HttpCalls : \E t \in Tasks : \E a \in Agents : HttpStart(c, t, a)
  \/ \E c \in Calls : EarlyReturn(c) \/ ResolveTimeout(c) \/ CallStep(c)
  \/ \E c \in Calls : Disconnect(c)
  \/ Restart

Spec == Init /\ [][Next]_vars

\* The runtime polls every ready future and the poll loop has a timer.  That the
\* poll query and every call of a run end is assumed: not all have a timeout.
\* Nothing obliges a client to call, or the courier to deliver.
Fairness ==
  /\ WF_vars(PollQuery) /\ WF_vars(PollCheck) /\ WF_vars(PollSkip)
  /\ WF_vars(\E c \in PollCalls : PollClaim(c))
  /\ \A c \in CourierCalls : WF_vars(CourierClaim(c))
  /\ \A c \in Calls : WF_vars(CallStep(c))

FairSpec == Spec /\ Fairness

-----------------------------------------------------------------------------
(* Properties.                                                             *)

TypeOK ==
  /\ stored \in Seq(Tasks) /\ results \subseteq Tasks
  /\ seen \subseteq Tasks /\ order \in Seq(Tasks)
  /\ inFlight \subseteq Tasks /\ slots \in [Agents -> Nat]
  /\ pc \in [Calls -> CallPc]
  /\ task \in [Calls -> Tasks \cup {NoTask}]
  /\ agent \in [Calls -> Agents]
  /\ \A c \in Calls : pc[c] # "idle" => task[c] \in Tasks
  /\ pollPc \in {"sleep", "check", "claim"} /\ batch \in Seq(Tasks)
  /\ pollPc # "sleep" => batch # <<>>
  /\ lostTasks \subseteq Tasks /\ lostSlots \in [Agents -> Nat]
  /\ ran \subseteq Tasks

\* Two calls never run the same task at the same time, however the courier,
\* the poll loop and the clients' calls interleave (start.rs, in_flight_tasks).
OneRunPerTask ==
  \A c, d \in Calls :
    Running(c) /\ Running(d) /\ task[c] = task[d] => c = d

\* No agent id ever has more than max_parallel_tasks runs, and its count never
\* drifts: it is the calls that hold a slot plus the slots of dropped calls.
SlotsExact ==
  \A a \in Agents :
    /\ slots[a] = Cardinality(SlotHolders(a)) + lostSlots[a]
    /\ slots[a] <= MaxParallel

\* in_flight_tasks holds exactly the tasks of the calls between Admit and
\* release, each owned by one call, plus the entries of dropped calls: a busy
\* or refused call removes no entry but its own, and none is left behind.
InFlightExact ==
  /\ inFlight = {task[c] : c \in TaskHolders} \cup lostTasks
  /\ \A c, d \in TaskHolders : task[c] = task[d] => c = d
  /\ \A c \in TaskHolders : task[c] \notin lostTasks

\* While the tracker has room for every task, a dispatched call does not run a
\* task that a dispatched call of this process has run before: the courier and
\* the poll loop cannot both execute it (claim_dispatch).
DispatchedRunsOnce ==
  [][\A c \in DispatchCalls :
       pc[c] = "reserve" /\ pc'[c] = "running" => task[c] \notin ran]_vars

\* The handler implements ExclusiveRuns: its runs are the calls that are inside
\* run_with_progress.
ActiveRuns == {<<c, task[c], agent[c]>> : c \in {d \in Calls : Running(d)}}

Runs == INSTANCE ExclusiveRuns WITH Callers <- Calls, runs <- ActiveRuns

RunsAreExclusive == Runs!Spec

\* Every stored task is executed and its result reaches memory.
TasksGetResults == \A t \in Tasks : t \in Stored ~> t \in results
=============================================================================
