------------------------------ MODULE McpEvents ------------------------------
(***************************************************************************)
(* Progress events of one task on their way to MCP clients (McpEventHub):  *)
(* SSE streams subscribe under a session, calls bind their session to the  *)
(* task, and a run emits its progress through a queue and a forwarder.     *)
(*                                                                         *)
(* The hub has two mutexes, never held together.  An emission takes them   *)
(* in turn: the sessions bound to the task, then the streams to send to,   *)
(* and after a terminal event the bindings again, to remove them.  The     *)
(* cleanup of a stream takes the streams, then the bindings.               *)
(*                                                                         *)
(* An event names the fact of its task once the run has resolved it.  The  *)
(* hub drops an event that names none: the first one of every run, and the *)
(* end of a run that could not resolve its task.                           *)
(***************************************************************************)
EXTENDS Integers, Sequences, FiniteSets

CONSTANTS
  Streams,      \* SSE streams, each opened at most once
  SessionOf,    \* the Mcp-Session-Id of each stream
  Calls,        \* MCP calls about the task
  Caller,       \* the session of each call, or NoSession
  NoSession,    \* the courier's calls have none
  Steps,        \* events of a run that resolves its task; the last one is terminal
  RunsMayAbort, \* whether run_with_progress may return an error
  CallersLeave  \* whether the client of a call may hang up

Sessions == {SessionOf[s] : s \in Streams}

ASSUME EventsAssumption ==
  /\ Caller \in [Calls -> Sessions \cup {NoSession}] /\ NoSession \notin Sessions
  /\ Steps \in Nat \ {0, 1}
  /\ RunsMayAbort \in BOOLEAN /\ CallersLeave \in BOOLEAN

VARIABLES
  stream,   \* each stream: new, open, left, pruned, cleaning or gone
  sent,     \* the events sent to each stream
  bound,    \* sessions_by_task, for this task
  call,     \* the point each call has reached
  queue,    \* the progress channel of each call's run
  emitted,  \* how many events the run has put into it
  emit,     \* the emissions under way
  owed,     \* history: the calls that bound a stream's session while it was open
  racing    \* history: streams opened while their session was being unbound

vars == <<stream, sent, bound, call, queue, emitted, emit, owed, racing>>

Registered == {s \in Streams : stream[s] \in {"open", "left"}}

\* Each run has a forwarder task beside the call itself.
Emitters == Calls \X {"handler", "forwarder"}
Events == [call : Calls, n : 0..Steps, terminal : BOOLEAN, named : BOOLEAN]
Idle == [at |-> "idle"]
Emissions == {Idle, [at |-> "unbind"]}
             \cup [at : {"send"}, event : Events, to : SUBSET Sessions]

Init ==
  /\ stream = [s \in Streams |-> "new"] /\ sent = [s \in Streams |-> <<>>]
  /\ bound = {}
  /\ call = [c \in Calls |-> "new"]
  /\ queue = [c \in Calls |-> <<>>] /\ emitted = [c \in Calls |-> 0]
  /\ emit = [e \in Emitters |-> Idle]
  /\ owed = [s \in Streams |-> {}] /\ racing = {}

-----------------------------------------------------------------------------
(* Streams.                                                                *)

Subscribe(s) ==
  /\ stream[s] = "new"
  /\ stream' = [stream EXCEPT ![s] = "open"]
  /\ racing' = IF \E t \in Streams : SessionOf[t] = SessionOf[s] /\ stream[t] = "cleaning"
               THEN racing \cup {s} ELSE racing
  /\ UNCHANGED <<sent, bound, call, queue, emitted, emit, owed>>

\* The client closes the stream, and what it was sent goes with it; the cleanup is
\* spawned.
Drop(s) ==
  /\ stream[s] = "open"
  /\ stream' = [stream EXCEPT ![s] = "left"]
  /\ sent' = [sent EXCEPT ![s] = <<>>] /\ owed' = [owed EXCEPT ![s] = {}]
  /\ UNCHANGED <<bound, call, queue, emitted, emit, racing>>

\* Mutant of Unsubscribe: other streams of the session are not looked for.
UnsubscribeAlways(s) ==
  /\ stream[s] \in {"left", "pruned"}
  /\ stream' = [stream EXCEPT ![s] = "cleaning"]
  /\ UNCHANGED <<sent, bound, call, queue, emitted, emit, owed, racing>>

\* Whether the session has other streams decides about its bindings.
Unsubscribe(s) ==
  /\ stream[s] \in {"left", "pruned"}
  /\ stream' = [stream EXCEPT ![s] =
       IF \E t \in Registered \ {s} : SessionOf[t] = SessionOf[s]
       THEN "gone" ELSE "cleaning"]
  /\ UNCHANGED <<sent, bound, call, queue, emitted, emit, owed, racing>>

Unbind(s) ==
  /\ stream[s] = "cleaning"
  /\ stream' = [stream EXCEPT ![s] = "gone"]
  /\ bound' = bound \ {SessionOf[s]}
  /\ UNCHANGED <<sent, call, queue, emitted, emit, owed, racing>>

-----------------------------------------------------------------------------
(* Emissions.                                                              *)

\* emit_task_progress reads the bindings of the task that the event names; without
\* a name or any binding it returns.
Begin(e, ev) ==
  /\ emit[e] = Idle
  /\ emit' = [emit EXCEPT ![e] =
       IF bound = {} \/ ~ev.named THEN Idle ELSE [at |-> "send", event |-> ev, to |-> bound]]

\* send_to_sessions also forgets the streams whose receiver is gone.
Send(e) ==
  /\ emit[e].at = "send"
  /\ sent' = [s \in Streams |->
       IF stream[s] = "open" /\ SessionOf[s] \in emit[e].to
       THEN Append(sent[s], emit[e].event) ELSE sent[s]]
  /\ stream' = [s \in Streams |->
       IF stream[s] = "left" /\ SessionOf[s] \in emit[e].to
       THEN "pruned" ELSE stream[s]]
  /\ emit' = [emit EXCEPT ![e] =
       IF emit[e].event.terminal THEN [at |-> "unbind"] ELSE Idle]
  /\ UNCHANGED <<bound, call, queue, emitted, owed, racing>>

EndBindings(e) ==
  /\ emit[e].at = "unbind"
  /\ bound' = {}
  /\ emit' = [emit EXCEPT ![e] = Idle]
  /\ UNCHANGED <<stream, sent, call, queue, emitted, owed, racing>>

-----------------------------------------------------------------------------
(* Calls.                                                                  *)

\* The handler has resolved the task, so its own events name it.
Said(c, n, terminal) == [call |-> c, n |-> n, terminal |-> terminal, named |-> TRUE]

\* A call that is dropped while it runs leaves its task marked in flight.
InFlight == \E c \in Calls : call[c] \in {"running", "lost"}

\* The task is resolved, or has been created and stored: the session is bound.
\* The courier may have started a created task by then.
Bind(c) ==
  /\ call[c] = "new"
  /\ call' = [call EXCEPT ![c] = "bound"]
  /\ bound' = bound \cup ({Caller[c]} \ {NoSession})
  /\ owed' = [s \in Streams |->
       IF stream[s] = "open" /\ SessionOf[s] = Caller[c]
       THEN owed[s] \cup {c} ELSE owed[s]]
  /\ UNCHANGED <<stream, sent, queue, emitted, emit, racing>>

\* agent_create_task ends with an event that the task is queued.
Queued(c) ==
  /\ call[c] = "bound" /\ Caller[c] # NoSession
  /\ call' = [call EXCEPT ![c] = "created"]
  /\ Begin(<<c, "handler">>, Said(c, 0, FALSE))
  /\ UNCHANGED <<stream, sent, bound, queue, emitted, owed, racing>>

\* The answer already_running is a terminal event of the same task.
AlreadyRunning(c) ==
  /\ call[c] = "bound" /\ InFlight
  /\ call' = [call EXCEPT ![c] = "refused"]
  /\ Begin(<<c, "handler">>, Said(c, Steps, TRUE))
  /\ UNCHANGED <<stream, sent, bound, queue, emitted, owed, racing>>

\* So is the answer busy, when runs of other tasks use up the agent's slots.
Busy(c) ==
  /\ call[c] = "bound" /\ ~InFlight
  /\ call' = [call EXCEPT ![c] = "refused"]
  /\ Begin(<<c, "handler">>, Said(c, Steps, TRUE))
  /\ UNCHANGED <<stream, sent, bound, queue, emitted, owed, racing>>

Start(c) ==
  /\ call[c] = "bound" /\ ~InFlight
  /\ call' = [call EXCEPT ![c] = "running"]
  /\ UNCHANGED <<stream, sent, bound, queue, emitted, emit, owed, racing>>

\* A run emits that it resolves its task before it has.
Emitted(c, n, terminal) == [call |-> c, n |-> n, terminal |-> terminal, named |-> n > 1]

\* Mutant of Progress: the terminal event is not sent through the queue.
ProgressDirect(c) ==
  /\ call[c] = "running"
  /\ emitted' = [emitted EXCEPT ![c] = @ + 1]
  /\ IF emitted[c] + 1 = Steps
     THEN /\ call' = [call EXCEPT ![c] = "ended"]
          /\ Begin(<<c, "handler">>, Said(c, Steps, TRUE))
          /\ UNCHANGED queue
     ELSE /\ queue' = [queue EXCEPT ![c] =
               Append(@, Emitted(c, emitted[c] + 1, FALSE))]
          /\ UNCHANGED <<call, emit>>
  /\ UNCHANGED <<stream, sent, bound, owed, racing>>

\* emit_progress puts an event into the channel; the last one ends the run.
Progress(c) ==
  /\ call[c] = "running"
  /\ emitted' = [emitted EXCEPT ![c] = @ + 1]
  /\ queue' = [queue EXCEPT ![c] =
       Append(@, Emitted(c, emitted[c] + 1, emitted[c] + 1 = Steps))]
  /\ call' = IF emitted[c] + 1 = Steps THEN [call EXCEPT ![c] = "ended"] ELSE call
  /\ UNCHANGED <<stream, sent, bound, emit, owed, racing>>

\* The run's own attempt to resolve the task fails (RESOLVE_FAILED): it ends with a
\* terminal event that names no task.
Unresolved(c) ==
  /\ call[c] = "running" /\ emitted[c] = 1
  /\ call' = [call EXCEPT ![c] = "unresolved"]
  /\ emitted' = [emitted EXCEPT ![c] = 2]
  /\ queue' = [queue EXCEPT ![c] =
       Append(@, [call |-> c, n |-> 2, terminal |-> TRUE, named |-> FALSE])]
  /\ UNCHANGED <<stream, sent, bound, emit, owed, racing>>

\* The run returns an error: the call emits the terminal event itself.
Abort(c) ==
  /\ RunsMayAbort
  /\ call[c] = "running"
  /\ call' = [call EXCEPT ![c] = "ended"]
  /\ Begin(<<c, "handler">>, Said(c, Steps, TRUE))
  /\ UNCHANGED <<stream, sent, bound, queue, emitted, owed, racing>>

\* The handler is dropped where it stands; its forwarder goes on.
Disconnect(c) ==
  /\ CallersLeave /\ Caller[c] # NoSession
  /\ call[c] \in {"bound", "running"} \/ emit[<<c, "handler">>] # Idle
  /\ call' = [call EXCEPT ![c] = IF @ = "running" THEN "lost" ELSE "left"]
  /\ emit' = [emit EXCEPT ![<<c, "handler">>] = Idle]
  /\ UNCHANGED <<stream, sent, bound, queue, emitted, owed, racing>>

Forward(c) ==
  /\ queue[c] # <<>>
  /\ Begin(<<c, "forwarder">>, Head(queue[c]))
  /\ queue' = [queue EXCEPT ![c] = Tail(@)]
  /\ UNCHANGED <<stream, sent, bound, call, emitted, owed, racing>>

-----------------------------------------------------------------------------

CallStep(c) ==
  \/ Bind(c) \/ Queued(c) \/ AlreadyRunning(c) \/ Busy(c) \/ Start(c)
  \/ Progress(c) \/ Unresolved(c) \/ Abort(c) \/ Disconnect(c) \/ Forward(c)

Next ==
  \/ \E s \in Streams : Subscribe(s) \/ Drop(s) \/ Unsubscribe(s) \/ Unbind(s)
  \/ \E c \in Calls : CallStep(c)
  \/ \E e \in Emitters : Send(e) \/ EndBindings(e)

Spec == Init /\ [][Next]_vars

\* The runtime does not stand still while one of its tasks can go on.  Clients
\* subscribe, leave and call as they please.
SystemStep ==
  \/ \E c \in Calls : Start(c) \/ Progress(c) \/ Unresolved(c) \/ Forward(c)
  \/ \E e \in Emitters : Send(e) \/ EndBindings(e)

FairSpec == Spec /\ WF_vars(SystemStep)

-----------------------------------------------------------------------------
(* Properties.                                                             *)

TypeOK ==
  /\ stream \in [Streams -> {"new", "open", "left", "pruned", "cleaning", "gone"}]
  /\ sent \in [Streams -> Seq(Events)]
  /\ bound \subseteq Sessions
  /\ call \in [Calls -> {"new", "bound", "created", "running", "refused", "ended",
                     "unresolved", "left", "lost"}]
  /\ queue \in [Calls -> Seq(Events)] /\ emitted \in [Calls -> 0..Steps]
  /\ emit \in [Emitters -> Emissions]
  /\ owed \in [Streams -> SUBSET Calls] /\ racing \subseteq Streams

Informed(s, c) == \E i \in DOMAIN sent[s] : sent[s][i].call = c /\ sent[s][i].terminal

\* A client sees the progress of a run in order and nothing after its end,
\* although every event is sent by steps of its own; only the end of an aborted
\* run may overtake the progress that is still in the queue.
Ordered ==
  \A s \in Streams : \A i, j \in DOMAIN sent[s] :
    LET first == sent[s][i]
        then == sent[s][j] IN
    i < j /\ first.call = then.call =>
      \/ first.n < then.n /\ ~first.terminal
      \/ first.terminal /\ emitted[first.call] < Steps

\* The run has come to an end its events tell of, and they have left the hub.
Drained(c) ==
  /\ call[c] = "ended" /\ queue[c] = <<>>
  /\ \A k \in {"handler", "forwarder"} : emit[<<c, k>>] = Idle

\* No other agent_start of the task has got as far as an answer or a run.
Alone(c) == \A d \in Calls \ {c} : call[d] \in {"new", "bound", "created"}

\* A stream that was open when agent_start bound its session, and is still,
\* has been told how the run ended, whoever else listens or leaves; only a
\* stream opened within the cleanup of another may have lost its binding to it.
\* A run that cannot resolve its task is not among them: the hub drops its end.
Delivered ==
  \A s \in Streams \ racing, c \in Calls :
    stream[s] = "open" /\ c \in owed[s] /\ Drained(c) /\ Alone(c)
      => Informed(s, c)

\* A stream that is open, bound by a call that went on to run the task and has
\* not failed to resolve it, and neither the caller has hung up nor another
\* agent_start interfered.
Due(s, c) ==
  /\ s \notin racing /\ stream[s] = "open" /\ c \in owed[s]
  /\ call[c] \in {"running", "ended"} /\ Alone(c)

\* No stream waits for the end of a run for ever, except of one that could not
\* resolve its task.
TerminalArrives == []<>(\A s \in Streams, c \in Calls : Due(s, c) => Informed(s, c))
=============================================================================
