----------------------------- MODULE McpGateway -----------------------------
(***************************************************************************)
(* The way of an MCP request: from a coding CLI through its stdio proxy,   *)
(* or from a remote client through a TLS frontend, past the authentication *)
(* of /mcp to the daemon's handler, from there to memory, and back.        *)
(*                                                                         *)
(* A proxy takes the lines of its CLI one at a time.  The daemon serves    *)
(* requests of different clients at the same time.  agent_create_task is a *)
(* sequence of calls to memory, after which the task is bound to the       *)
(* session of the caller; a courier may run the task at any point of it.   *)
(*                                                                         *)
(* The calls agent_start, agent_status and agent_courier_* are those of    *)
(* TaskDispatch, TaskStatus and CourierSubscription; an emission of        *)
(* McpEvents is one step here.  Of agent_start this module has what it     *)
(* does to the streams of others: it runs a task, fails to, or is refused. *)
(***************************************************************************)
EXTENDS Integers, Sequences, FiniteSetsExt

CONSTANTS
  Clients,
  Proxied,     \* those that are coding CLIs behind a stdio proxy
  Peer,        \* how each client reaches the daemon: direct, frontend or lan
  Asks,        \* the requests that each client makes
  Agent,       \* the agent this daemon runs
  DefaultKey,  \* GlobalConfig.key
  WatchKey,    \* the key under which the courier looks for tasks
  MemoryTools, \* the tools that memory offers
  None,
  NoSession,   \* "none", the session of those that have none
  MaxLines,    \* bound on the requests of a client
  MaxInbox,    \* bound on the lines that wait for a proxy
  MaxStarts,   \* bound on the starts of the daemon
  Faults       \* the faults the environment may inject

FaultKinds == {"memory", "crash", "token"}

Kinds == {"initialize", "initialized", "list", "call", "other", "garbage"}
Request == [kind : Kinds, tool : STRING, task : STRING, key : STRING \cup {None},
            targets : SUBSET STRING, scoped : BOOLEAN]

ASSUME GatewayAssumption ==
  /\ Proxied \subseteq Clients /\ None \notin Clients
  /\ (Clients \cup {None, NoSession}) \cap Nat = {}  \* sessions are numbers
  /\ Peer \in [Clients -> {"direct", "frontend", "lan"}]
  /\ \A c \in Clients : \A req \in Asks[c] : req \in Request
  /\ MaxLines \in Nat /\ MaxInbox \in Nat /\ MaxStarts \in Nat
  /\ Faults \subseteq FaultKinds

VARIABLES
  lines,     \* how many lines each CLI has written
  inbox,     \* the lines that its proxy has not taken yet
  call,      \* the request of each client that is under way
  sid,       \* the Mcp-Session-Id that each client keeps
  starts,    \* how often the daemon has been started
  up,        \* whether it runs
  counter,   \* session_counter
  bound,     \* sessions_by_task of the McpEventHub
  stream,    \* the session of each client's SSE stream, or None
  heard,     \* what has been sent to the stream
  cleaning,  \* the sessions that the cleanup of a closed stream has still to unbind
  tasks,     \* the task facts in memory, in the order of their creation, with who sent them
  ran,       \* those that the agent has resolved and executed
  forwarded, \* the memory tools that were called for a client, with their key
  issued,    \* history: the start of the daemon in which a client got its session
  reused,    \* history: the sessions that were used in a later start
  early,     \* history: bindings of tasks that had run already
  cut        \* history: clients whose open stream lost bindings to a cleanup

clientVars == <<lines, inbox, sid, issued>>
daemonVars == <<starts, up, counter>>
eventVars == <<bound, stream, heard, cleaning, reused, early, cut>>
memoryVars == <<tasks, ran, forwarded>>
vars == <<clientVars, call, daemonVars, eventVars, memoryVars>>

Idle == [at |-> "idle"]
Or(x, y) == IF x # None THEN x ELSE y

Init ==
  /\ lines = [c \in Clients |-> 0] /\ inbox = [c \in Clients |-> <<>>]
  /\ call = [c \in Clients |-> Idle]
  /\ sid = [c \in Clients |-> None] /\ issued = [c \in Clients |-> 0]
  /\ starts = 1 /\ up = TRUE /\ counter = 0
  /\ bound = {} /\ stream = [c \in Clients |-> None] /\ heard = [c \in Clients |-> {}]
  /\ tasks = <<>> /\ ran = {} /\ forwarded = {}
  /\ cleaning = {}
  /\ reused = {} /\ early = {} /\ cut = {}

-----------------------------------------------------------------------------
(* The client's side.                                                      *)

\* The CLI writes a line; it need not wait for the answer to the one before.  A
\* client without a proxy has no queue: it makes one request at a time.
WriteLine(c) ==
  /\ lines[c] < MaxLines /\ Len(inbox[c]) < MaxInbox
  /\ c \in Proxied \/ call[c] = Idle
  /\ lines' = [lines EXCEPT ![c] = @ + 1]
  /\ \E req \in Asks[c] : inbox' = [inbox EXCEPT ![c] = Append(@, req)]
  /\ UNCHANGED <<call, sid, issued, daemonVars, eventVars, memoryVars>>

\* The proxy takes a line; one that is not JSON it answers itself.
TakeLine(c) ==
  /\ call[c] = Idle /\ inbox[c] # <<>>
  /\ inbox' = [inbox EXCEPT ![c] = Tail(@)]
  /\ call' = IF Head(inbox[c]).kind = "garbage" THEN call
             ELSE [call EXCEPT ![c] = [at |-> "sent", req |-> Head(inbox[c])]]
  /\ UNCHANGED <<lines, sid, issued, daemonVars, eventVars, memoryVars>>

\* What a client learns from the response: the session in its header, if it has
\* one, and the task that it names.
Receive(c) ==
  /\ call[c].at = "reply"
  /\ call' = [call EXCEPT ![c] = Idle]
  /\ sid' = [sid EXCEPT ![c] = Or(call[c].header, @)]
  /\ issued' = [issued EXCEPT ![c] = Or(call[c].start, @)]
  /\ UNCHANGED <<lines, inbox, daemonVars, eventVars, memoryVars>>

-----------------------------------------------------------------------------
(* The answers.                                                            *)

Response(header, start, own, fact) ==
  [at |-> "reply", header |-> header, start |-> start, own |-> own, fact |-> fact]

Respond(c, response) == call' = [call EXCEPT ![c] = response]

\* An answer of the proxy itself, and one of the daemon that ends a request
\* without a task: it repeats the session of the request, or says "none".
NoResponse == Response(None, None, None, None)
Plain(c) == Response(Or(sid[c], NoSession), None, None, None)

\* A request needs a valid access token, unless it is_direct_loopback: over loopback
\* and without the headers of a frontend.  Tokens expire, are revoked and renewed.
MayLackToken(c) == Peer[c] # "direct" /\ "token" \in Faults

\* Mutant: nobody tells the CLI that the daemon does not run.
RefuseUnauthorized(c) ==
  /\ call[c].at = "sent" /\ up /\ MayLackToken(c)
  /\ Respond(c, NoResponse)
  /\ UNCHANGED <<clientVars, daemonVars, eventVars, memoryVars>>

\* The daemon does not run, or answers 401.
Refuse(c) ==
  /\ call[c].at = "sent" /\ (up => MayLackToken(c))
  /\ Respond(c, NoResponse)
  /\ UNCHANGED <<clientVars, daemonVars, eventVars, memoryVars>>

Serving(c, kinds) ==
  call[c].at = "sent" /\ up /\ call[c].req.kind \in kinds
Calling(c) == Serving(c, {"call"})

-----------------------------------------------------------------------------
(* The handler.                                                            *)

Initialize(c) ==
  /\ Serving(c, {"initialize"})
  /\ counter' = counter + 1
  /\ Respond(c, Response(counter + 1, starts, None, None))
  /\ UNCHANGED <<clientVars, starts, up, eventVars, memoryVars>>

\* Neither a notification nor a method that is not known gets a body or a header.
NoBody(c) ==
  /\ Serving(c, {"initialized", "other"})
  /\ Respond(c, NoResponse)
  /\ UNCHANGED <<clientVars, daemonVars, eventVars, memoryVars>>

\* grounded_memory_tool_allowed
Grounded == {"memory_recall", "memory_list", "memory_get", "memory_query", "memory_write",
             "memory_write_status", "memory_ingest_asserted_facts"}

\* tools/list asks memory for its tools, and goes without when that fails.
ListTools(c) ==
  /\ Serving(c, {"list"})
  /\ Respond(c, Plain(c))
  /\ UNCHANGED <<clientVars, daemonVars, eventVars, memoryVars>>

\* forward_memory_tool: the default key goes where the caller gives none.
ForwardTool(c) ==
  /\ Calling(c) /\ call[c].req.tool \in MemoryTools
  /\ \/ /\ call[c].req.tool \in Grounded
        /\ forwarded' = forwarded \cup {<<call[c].req.tool, Or(call[c].req.key, DefaultKey)>>}
     \/ /\ call[c].req.tool \notin Grounded \/ "memory" \in Faults
        /\ UNCHANGED forwarded
  /\ Respond(c, Plain(c))
  /\ UNCHANGED <<clientVars, daemonVars, eventVars, tasks, ran>>

\* agent_task_list, whose answer changes nothing, and tools that do not exist.
OtherTool(c) ==
  /\ Calling(c) /\ call[c].req.tool \notin MemoryTools \cup {"agent_create_task"}
  /\ Respond(c, Plain(c))
  /\ UNCHANGED <<clientVars, daemonVars, eventVars, memoryVars>>

-----------------------------------------------------------------------------
(* agent_create_task.                                                      *)

Creating(c, at) == call[c].at = at /\ up
Goto(c, at) == call' = [call EXCEPT ![c].at = at]

\* parse_request
Parse(c) ==
  /\ Calling(c) /\ call[c].req.tool = "agent_create_task"
  /\ IF call[c].req.scoped THEN Goto(c, "ingest") ELSE Respond(c, Plain(c))
  /\ UNCHANGED <<clientVars, daemonVars, eventVars, memoryVars>>

\* build_authoritative_task_fact; without a target the task is this agent's, and
\* without a key it goes to "default".
WorkKey(req) == Or(req.key, "default")
Targets(req) == IF req.targets = {} THEN {Agent} ELSE req.targets
Fact(c, req) == [task |-> req.task, key |-> WorkKey(req), targets |-> Targets(req),
              by |-> c]

\* The task is in memory, whether or not memory's answer arrives.
Ingest(c) ==
  /\ Creating(c, "ingest")
  /\ tasks' = Append(tasks, Fact(c, call[c].req))
  /\ \/ call' = [call EXCEPT ![c] =
          [at |-> "resolve", req |-> call[c].req, own |-> Len(tasks) + 1]]
     \/ "memory" \in Faults /\ Respond(c, Plain(c))
  /\ UNCHANGED <<clientVars, daemonVars, eventVars, ran, forwarded>>

\* Mutant: the newest task, whatever its name.
NewestTask(req) == {i \in DOMAIN tasks : tasks[i].key = WorkKey(req)}

\* The facts that resolve_task_fact_id asks for: a filter on the target only when
\* there is one.
Matching(req) ==
  {i \in DOMAIN tasks :
     /\ tasks[i].task = req.task /\ tasks[i].key = WorkKey(req)
     /\ Cardinality(Targets(req)) = 1 => Targets(req) \subseteq tasks[i].targets}

\* The newest of them is taken for the task just stored.
Resolve(c) ==
  /\ Creating(c, "resolve")
  /\ call' = [call EXCEPT ![c] =
       [at |-> "bind", own |-> call[c].own, fact |-> Max(Matching(call[c].req))]]
  /\ UNCHANGED <<clientVars, daemonVars, eventVars, memoryVars>>

\* A call to memory before anything is stored, or after, fails.
CreateFails(c) ==
  /\ "memory" \in Faults
  /\ Creating(c, "ingest") \/ Creating(c, "resolve")
  /\ Respond(c, Plain(c))
  /\ UNCHANGED <<clientVars, daemonVars, eventVars, memoryVars>>

\* request_session_id: "none" is no session.
Session(c) == IF sid[c] \in {None, NoSession} THEN None ELSE sid[c]
Created(c) == Response(Or(sid[c], NoSession), None, call[c].own, call[c].fact)

Reused(c) == IF issued[c] \in {0, starts} THEN reused ELSE reused \cup {sid[c]}

\* bind_task_session
Bind(c) ==
  /\ Creating(c, "bind")
  /\ IF Session(c) = None
     THEN Respond(c, Created(c)) /\ UNCHANGED eventVars
     ELSE /\ Goto(c, "emit")
          /\ bound' = bound \cup {<<call[c].fact, sid[c]>>}
          /\ early' = IF call[c].fact \in ran THEN early \cup {call[c].fact} ELSE early
          /\ reused' = Reused(c)
          /\ UNCHANGED <<stream, heard, cleaning, cut>>
  /\ UNCHANGED <<clientVars, daemonVars, memoryVars>>

\* Mutant: to all streams.
ToldAll(fact, what) ==
  [c \in Clients |-> IF stream[c] # None THEN heard[c] \cup {<<fact, what>>} ELSE heard[c]]

\* An event of a task, to the streams of the sessions that are bound to it.
Told(fact, what) ==
  [c \in Clients |-> IF stream[c] # None /\ <<fact, stream[c]>> \in bound
                     THEN heard[c] \cup {<<fact, what>>} ELSE heard[c]]

\* The event that the task is queued; the store of its description, which is
\* detached and which nothing here reads, is left out.
EmitQueued(c) ==
  /\ Creating(c, "emit")
  /\ heard' = Told(call[c].fact, "queued")
  /\ Respond(c, Created(c))
  /\ UNCHANGED <<clientVars, daemonVars, bound, stream, cleaning,
                 reused, early, cut, memoryVars>>

-----------------------------------------------------------------------------
(* The rest of the daemon.                                                 *)

Due(i) ==
  /\ up /\ i \in DOMAIN tasks \ ran
  /\ tasks[i].key = WatchKey /\ Agent \in tasks[i].targets

\* Mutant: the bindings are removed first.
RunQuietly(i) ==
  /\ Due(i)
  /\ ran' = ran \cup {i}
  /\ bound' = {b \in bound : b[1] # i}
  /\ UNCHANGED <<clientVars, call, daemonVars, stream, heard, cleaning, reused, early, cut,
                 tasks, forwarded>>

\* The courier finds the task, and the agent runs it to its end.
RunTask(i) ==
  /\ Due(i)
  /\ ran' = ran \cup {i}
  /\ heard' = Told(i, "ended")
  /\ bound' = {b \in bound : b[1] # i}
  /\ UNCHANGED <<clientVars, call, daemonVars, stream, cleaning, reused, early, cut,
                 tasks, forwarded>>

\* The run cannot resolve its task (RESOLVE_FAILED): its last event does not name
\* the task, so the hub drops it and keeps the bindings.  Unless the failure was stored, the
\* task is run again.
RunUnresolved(i) ==
  /\ "memory" \in Faults /\ Due(i)
  /\ UNCHANGED vars

\* An agent_start of the task, the courier's or a client's, is answered busy or
\* already_running, which is a terminal event of the task.  A client that asks
\* would be bound and told too; that is left out with its call, and so are starts
\* of a task that has been run.
StartRefused(i) ==
  /\ up /\ i \in DOMAIN tasks \ ran /\ Agent \in tasks[i].targets
  /\ heard' = Told(i, "refused")
  /\ bound' = {b \in bound : b[1] # i}
  /\ UNCHANGED <<clientVars, call, daemonVars, stream, cleaning, reused, early, cut,
                 memoryVars>>

\* GET /mcp: without a session in the request the stream gets one of its own.
\* Proxies only post.
OpenStream(c) ==
  /\ up /\ c \notin Proxied /\ stream[c] = None
  /\ stream' = [stream EXCEPT ![c] = Or(sid[c], c)]
  /\ reused' = Reused(c)
  /\ UNCHANGED <<clientVars, call, daemonVars, bound, heard, cleaning, early, cut,
                 memoryVars>>

\* The stream is dropped, and its cleanup finds out whether the session has others.
\* Bound: a session has one cleanup at a time.
CloseStream(c) ==
  /\ stream[c] \notin {None} \cup cleaning
  /\ stream' = [stream EXCEPT ![c] = None]
  /\ heard' = [heard EXCEPT ![c] = {}] /\ cut' = cut \ {c}
  /\ cleaning' = IF \E d \in Clients \ {c} : stream[d] = stream[c] THEN cleaning
                 ELSE cleaning \cup {stream[c]}
  /\ UNCHANGED <<clientVars, call, daemonVars, bound, reused, early, memoryVars>>

\* The second lock scope of the cleanup: whoever subscribed in between loses the
\* bindings too.
Unbind(s) ==
  /\ s \in cleaning
  /\ cleaning' = cleaning \ {s}
  /\ bound' = {b \in bound : b[2] # s}
  /\ cut' = IF bound' = bound THEN cut ELSE cut \cup {c \in Clients : stream[c] = s}
  /\ UNCHANGED <<clientVars, call, daemonVars, stream, heard, reused, early, memoryVars>>

\* All requests that have reached the daemon and all its streams end.
Crash ==
  /\ "crash" \in Faults /\ up
  /\ up' = FALSE /\ counter' = 0
  /\ bound' = {} /\ stream' = [c \in Clients |-> None] /\ heard' = [c \in Clients |-> {}]
  /\ cleaning' = {} /\ cut' = {}
  /\ call' = [c \in Clients |->
       IF call[c].at \in {"idle", "sent"} THEN call[c] ELSE NoResponse]
  /\ UNCHANGED <<clientVars, starts, reused, early, memoryVars>>

Start ==
  /\ ~up /\ starts < MaxStarts
  /\ up' = TRUE /\ starts' = starts + 1
  /\ UNCHANGED <<clientVars, call, counter, eventVars, memoryVars>>

-----------------------------------------------------------------------------

Handle(c) ==
  \/ Refuse(c) \/ Initialize(c) \/ NoBody(c) \/ ListTools(c) \/ ForwardTool(c) \/ OtherTool(c)
  \/ Parse(c) \/ Ingest(c) \/ Resolve(c) \/ CreateFails(c) \/ Bind(c) \/ EmitQueued(c)

Next ==
  \/ \E c \in Clients :
       \/ WriteLine(c) \/ TakeLine(c) \/ Handle(c) \/ Receive(c)
       \/ OpenStream(c) \/ CloseStream(c)
  \/ \E i \in DOMAIN tasks : RunTask(i) \/ RunUnresolved(i) \/ StartRefused(i)
  \/ \E s \in cleaning : Unbind(s)
  \/ Crash \/ Start

Spec == Init /\ [][Next]_vars

\* The proxies and the handlers go on, and memory answers or its connection
\* breaks.  Nobody need write, open a stream, run a task or start the daemon.
FairSpec == Spec /\ \A c \in Clients : WF_vars(TakeLine(c) \/ Handle(c) \/ Receive(c))

-----------------------------------------------------------------------------
(* Properties.                                                             *)

\* Another task has the same id under the same key.
Ambiguous(i) ==
  \E j \in DOMAIN tasks \ {i} : tasks[j].task = tasks[i].task /\ tasks[j].key = tasks[i].key

\* The task that an answer names is the one that this very request stored, however
\* the requests of others and the runs of the agent interleave with it, unless its
\* id was used twice.
OwnTask ==
  \A c \in Clients :
    call[c].at = "reply" /\ call[c].fact # None =>
      call[c].fact = call[c].own \/ Ambiguous(call[c].fact)

\* A client whose stream is told of a task has stored it, or the task's id was
\* used twice; only a session that is still in use after the daemon was started
\* again, and whose number is then given away again, may carry another's.
EventsPrivate ==
  \A c \in Clients : stream[c] \notin reused =>
    \A e \in heard[c] : tasks[e[1]].by = c \/ Ambiguous(e[1])

\* A stream that was told that a task is queued is told how the run of the task
\* ended, or before that how a call to run it was refused, whatever streams come and
\* go.  Not so for a run that cannot resolve the task, which is not among ran; for a
\* task that was run before its creator's session was bound; and if the cleanup of an
\* earlier stream of the session ended only after this one was opened and took its
\* bindings.
EndIsHeard ==
  \A c \in Clients \ cut : \A i \in ran \ early :
    <<i, "queued">> \in heard[c] => <<i, "ended">> \in heard[c] \/ <<i, "refused">> \in heard[c]

\* Every line that a CLI has written is taken and served: no crash of the daemon,
\* failure of memory or refusal leaves a proxy waiting for ever.
LinesServed == \A c \in Clients : []<>(inbox[c] = <<>> /\ call[c] = Idle)
=============================================================================
