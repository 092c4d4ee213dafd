---------------------------- MODULE McpEventsProofs ----------------------------
(***************************************************************************)
(* Proofs about McpEvents, for all streams, sessions and calls and any     *)
(* number of events.  The events of a run are in its queue, with its       *)
(* forwarder or sent, and the number of those that the forwarder has taken *)
(* tells them apart: that keeps them in order.  The end of a run is still  *)
(* on its way, to the session that was bound, or has arrived.              *)
(***************************************************************************)
EXTENDS McpEvents, SequenceTheorems, TLAPS

Forwarder(c) == <<c, "forwarder">>
Handler(c) == <<c, "handler">>
Sending(e) == emit[e].at = "send"
Unbinding(e) == emit[e].at = "unbind"
Taken(c) == emitted[c] - Len(queue[c])
Waiting == {"new", "bound", "created"}
Gone == {"unresolved", "left", "lost"}
Is(ev, c, n, terminal) == ev.call = c /\ ev.n = n /\ (ev.terminal <=> terminal)

-----------------------------------------------------------------------------
(* The invariant: where the events of a call are.                          *)

\* How far a call has come, and what its run has emitted by then.
CountOk(c) ==
  /\ Len(queue[c]) <= emitted[c]
  /\ call[c] = "running" => emitted[c] < Steps
  /\ call[c] \in Waiting \cup {"refused"} => emitted[c] = 0

\* Only events with a name matter, and the last of a resolved run has one.
Item(ev, c, n) ==
  /\ ev.named => Is(ev, c, n, n = Steps)
  /\ n = Steps => ev.named \/ call[c] \in Gone

QueueOk(c) == \A i \in 1..Len(queue[c]) : Item(queue[c][i], c, Taken(c) + i)

ForwarderOk(c) ==
  Sending(Forwarder(c)) =>
    Taken(c) >= 1 /\ Is(emit[Forwarder(c)].event, c, Taken(c), Taken(c) = Steps)

NothingSent(c) == \A s \in Streams : \A i \in 1..Len(sent[s]) : sent[s][i].call # c

\* A handler sends that the task is queued, first of all, or that a call ended
\* without the end of its run.
HandlerOk(c) ==
  Sending(Handler(c)) =>
    \/ Is(emit[Handler(c)].event, c, 0, FALSE) /\ call[c] = "created" /\ NothingSent(c)
    \/ /\ Is(emit[Handler(c)].event, c, Steps, TRUE)
       /\ call[c] \in {"refused", "ended"} /\ emitted[c] < Steps

\* What has been sent came before what is with the forwarder, and that before
\* what is in the queue.
SentOk(ev) ==
  /\ call[ev.call] \notin {"new", "bound"}
  /\ ~ev.terminal =>
       /\ ev.n <= Taken(ev.call)
       /\ Sending(Forwarder(ev.call)) => ev.n < Taken(ev.call)
  /\ ev.terminal =>
       /\ call[ev.call] \notin Waiting \cup {"running"}
       /\ \/ emitted[ev.call] < Steps
          \/ Len(queue[ev.call]) = 0 /\ ~Sending(Forwarder(ev.call))
AllSentOk == \A s \in Streams : \A i \in 1..Len(sent[s]) : SentOk(sent[s][i])

CallOk(c) == CountOk(c) /\ QueueOk(c) /\ ForwarderOk(c) /\ HandlerOk(c)
FlowInv == (\A c \in Calls : CallOk(c)) /\ AllSentOk

-----------------------------------------------------------------------------
(* The invariant: who waits for the end of a call.                         *)

EndingInv ==
  \A c \in Calls : Unbinding(Handler(c)) \/ Unbinding(Forwarder(c)) => call[c] \notin Waiting

\* A stream that a call bound is older than the binding, and one that is open
\* while another of its session is being cleaned up was opened meanwhile.
StreamInv ==
  /\ \A s \in Streams : \A c \in owed[s] :
       SessionOf[s] = Caller[c] /\ stream[s] # "new" /\ call[c] # "new"
  /\ \A s, t \in Streams :
       stream[s] = "open" /\ stream[t] = "cleaning" /\ SessionOf[s] = SessionOf[t] => s \in racing

Watch(s, c) == s \notin racing /\ stream[s] = "open" /\ c \in owed[s] /\ Alone(c)
SendsEnd(e) == Sending(e) /\ emit[e].event.terminal

\* A stream that still waits for the end of a call is bound, and the end is in
\* the queue or on its way to it once the call has ended.
Expecting(s, c) ==
  /\ SessionOf[s] \in bound
  /\ ~Unbinding(Handler(c)) /\ ~Unbinding(Forwarder(c))
  /\ SendsEnd(Handler(c)) => SessionOf[s] \in emit[Handler(c)].to
  /\ SendsEnd(Forwarder(c)) => SessionOf[s] \in emit[Forwarder(c)].to
  /\ call[c] = "ended" =>
       \/ Len(queue[c]) > 0 /\ emitted[c] = Steps
       \/ SendsEnd(Handler(c)) \/ SendsEnd(Forwarder(c))
WaitInv == \A s \in Streams, c \in Calls : Watch(s, c) /\ ~Informed(s, c) => Expecting(s, c)

IInv == TypeOK /\ FlowInv /\ Ordered /\ EndingInv /\ StreamInv /\ WaitInv

-----------------------------------------------------------------------------
(* Emitters and sequences.                                                 *)

LEMMA EmitterFacts ==
  /\ \A c \in Calls : Handler(c) \in Emitters /\ Forwarder(c) \in Emitters
  /\ \A c, d : Handler(c) # Forwarder(d)
  /\ \A c, d : (Handler(c) = Handler(d) => c = d) /\ (Forwarder(c) = Forwarder(d) => c = d)
  /\ \A e \in Emitters : \E c \in Calls : e = Handler(c) \/ e = Forwarder(c)
BY DEF Handler, Forwarder, Emitters

LEMMA AppendFacts ==
  ASSUME NEW S, NEW q \in Seq(S), NEW x \in S
  PROVE  /\ Append(q, x) \in Seq(S) /\ Len(Append(q, x)) = Len(q) + 1
         /\ \A i \in 1..Len(q) : Append(q, x)[i] = q[i]
         /\ Append(q, x)[Len(q) + 1] = x
BY AppendProperties

LEMMA TailFacts ==
  ASSUME NEW S, NEW q \in Seq(S), q # <<>>
  PROVE  /\ Len(q) \in Nat \ {0} /\ Head(q) = q[1] /\ Head(q) \in S
         /\ Tail(q) \in Seq(S) /\ Len(Tail(q)) = Len(q) - 1
         /\ \A i \in 1..Len(Tail(q)) : Tail(q)[i] = q[i + 1]
BY EmptySeq, HeadTailProperties

LEMMA BeginIs ==
  ASSUME TypeOK, NEW e \in Emitters, NEW ev \in Events, Begin(e, ev)
  PROVE  /\ emit[e] = Idle /\ emit' \in [Emitters -> Emissions]
         /\ \A f \in Emitters \ {e} : emit'[f] = emit[f]
         /\ ~Unbinding(e)'
         /\ Sending(e)' => emit'[e].event = ev /\ emit'[e].to = bound /\ ev.named
         /\ bound # {} /\ ev.named => Sending(e)'
<1>1. PICK x : x = IF bound = {} \/ ~ev.named THEN Idle ELSE [at |-> "send", event |-> ev, to |-> bound]
  OBVIOUS
<1>2. x \in Emissions
  BY <1>1 DEF Emissions, TypeOK
<1>3. emit' = [emit EXCEPT ![e] = x] /\ emit[e] = Idle
  BY <1>1 DEF Begin
<1>4. emit'[e] = x
  BY <1>3 DEF TypeOK
<1>. QED
  BY <1>1, <1>2, <1>3, <1>4 DEF TypeOK, Idle, Unbinding, Sending

-----------------------------------------------------------------------------
(* Types.                                                                  *)

Stages == {"new", "open", "left", "pruned", "cleaning", "gone"}

LEMMA SentTyped ==
  ASSUME TypeOK
  PROVE  \A s \in Streams :
           /\ DOMAIN sent[s] = 1..Len(sent[s]) /\ Len(sent[s]) \in Nat
           /\ \A i \in 1..Len(sent[s]) : sent[s][i] \in Events
BY DEF TypeOK

LEMMA SendTypes ==
  ASSUME TypeOK, NEW e \in Emitters, Send(e)
  PROVE  /\ TypeOK' /\ emit[e].event \in Events /\ emit[e].to \subseteq Sessions
         /\ emit' \in [Emitters -> Emissions] /\ ~Sending(e)'
         /\ Unbinding(e)' => emit[e].event.terminal
         /\ \A f \in Emitters \ {e} : emit'[f] = emit[f]
<1>1. emit[e] \in [at : {"send"}, event : Events, to : SUBSET Sessions]
  BY DEF Send, TypeOK, Emissions, Idle
<1>2. emit[e].event \in Events /\ emit[e].to \subseteq Sessions
  BY <1>1
<1>3. sent' \in [Streams -> Seq(Events)]
  <2>1. \A s \in Streams : Append(sent[s], emit[e].event) \in Seq(Events)
    BY <1>2, AppendFacts DEF TypeOK
  <2>. QED
    BY <2>1 DEF Send, TypeOK
<1>4. PICK x : x = IF emit[e].event.terminal THEN [at |-> "unbind"] ELSE Idle
  OBVIOUS
<1>5. emit' = [emit EXCEPT ![e] = x] /\ x \in Emissions
  BY <1>4 DEF Send, Emissions
<1>6. emit' \in [Emitters -> Emissions] /\ emit'[e] = x
  BY <1>5 DEF TypeOK
<1>7. x.at # "send" /\ (x.at = "unbind" => emit[e].event.terminal)
  BY <1>4 DEF Idle
<1>8. \A f \in Emitters \ {e} : emit'[f] = emit[f]
  BY <1>5 DEF TypeOK
<1>9. stream' \in [Streams -> Stages]
  BY DEF Send, TypeOK, Stages
<1>10. TypeOK'
  BY <1>3, <1>6, <1>9 DEF Send, TypeOK, Stages
<1>. QED
  BY <1>2, <1>6, <1>7, <1>8, <1>10 DEF Sending, Unbinding

\* The events that are emitted outside the queue.
LEMMA EventTypes ==
  \A c \in Calls :
    /\ Said(c, 0, FALSE) \in Events /\ Is(Said(c, 0, FALSE), c, 0, FALSE)
    /\ Said(c, Steps, TRUE) \in Events /\ Is(Said(c, Steps, TRUE), c, Steps, TRUE)
    /\ Said(c, 0, FALSE).named /\ Said(c, Steps, TRUE).named /\ Said(c, Steps, TRUE).terminal
<1>1. 0 \in 0..Steps /\ Steps \in 0..Steps
  BY EventsAssumption
<1>. QED
  BY <1>1 DEF Events, Said, Is

\* A call with one emission of its handler and nothing else.
LEMMA HandlerTypes ==
  ASSUME TypeOK, NEW c \in Calls, NEW ev \in Events, Begin(Handler(c), ev),
         NEW x \in {"created", "refused", "ended"}, call' = [call EXCEPT ![c] = x],
         UNCHANGED <<stream, sent, bound, queue, emitted, owed, racing>>
  PROVE  TypeOK'
BY BeginIs, EmitterFacts DEF TypeOK

LEMMA ForwardTypes ==
  ASSUME TypeOK, NEW c \in Calls, Forward(c)
  PROVE  TypeOK' /\ Head(queue[c]) \in Events
<1>1. /\ Len(queue[c]) \in Nat \ {0} /\ Head(queue[c]) = queue[c][1]
      /\ Head(queue[c]) \in Events /\ Tail(queue[c]) \in Seq(Events)
  BY TailFacts DEF Forward, TypeOK
<1>2. emit' \in [Emitters -> Emissions]
  BY <1>1, BeginIs, EmitterFacts DEF Forward, Forwarder
<1>. QED
  BY <1>1, <1>2 DEF Forward, TypeOK

\* What a run emits, and what that leaves to its queue.
LEMMA RunEmits ==
  ASSUME TypeOK, FlowInv, NEW c \in Calls, Progress(c) \/ Unresolved(c)
  PROVE  \E ev \in Events :
           /\ queue' = [queue EXCEPT ![c] = Append(queue[c], ev)]
           /\ emitted' = [emitted EXCEPT ![c] = emitted[c] + 1] /\ emitted[c] + 1 \in 0..Steps
           /\ \/ /\ Is(ev, c, emitted[c] + 1, emitted[c] + 1 = Steps) 
                 /\ emitted[c] + 1 = Steps => ev.named
                 /\ Progress(c)
              \/ ~ev.named /\ call'[c] = "unresolved" /\ Unresolved(c)
<1>1. emitted[c] \in 0..Steps /\ emitted[c] + 1 \in 0..Steps /\ Steps \in Nat \ {0, 1}
  BY EventsAssumption DEF TypeOK, FlowInv, CallOk, CountOk, Progress, Unresolved
<1>2. CASE Progress(c)
  <2>1. PICK ev : ev = Emitted(c, emitted[c] + 1, emitted[c] + 1 = Steps)
    OBVIOUS
  <2>2. PICK t \in BOOLEAN : t <=> emitted[c] + 1 = Steps
    OBVIOUS
  <2>3. ev = [call |-> c, n |-> emitted[c] + 1, terminal |-> t, named |-> emitted[c] + 1 > 1]
    BY <2>1, <2>2 DEF Emitted
  <2>4. ev \in Events
    BY <1>1, <2>3 DEF Events
  <2>5. Is(ev, c, emitted[c] + 1, emitted[c] + 1 = Steps) /\ (emitted[c] + 1 = Steps => ev.named)
    BY <1>1, <2>2, <2>3 DEF Is
  <2>6. /\ queue' = [queue EXCEPT ![c] = Append(queue[c], ev)]
        /\ emitted' = [emitted EXCEPT ![c] = emitted[c] + 1]
    BY <1>2, <2>1 DEF Progress
  <2>. QED
    <3>. WITNESS ev \in Events
    <3>. QED
      BY <1>1, <1>2, <2>5, <2>6, Zenon
<1>3. CASE Unresolved(c)
  <2>1. PICK ev : ev = [call |-> c, n |-> 2, terminal |-> TRUE, named |-> FALSE]
    OBVIOUS
  <2>2. ev \in Events /\ ~ev.named
    BY <1>1, <2>1 DEF Events
  <2>3. /\ queue' = [queue EXCEPT ![c] = Append(queue[c], ev)]
        /\ emitted' = [emitted EXCEPT ![c] = emitted[c] + 1] /\ call'[c] = "unresolved"
    BY <1>3, <2>1 DEF Unresolved, TypeOK
  <2>. QED
    <3>. ev \in Events
      BY <2>2
    <3>. WITNESS ev \in Events
    <3>. QED
      BY <1>1, <1>3, <2>2, <2>3, Zenon
<1>. QED
  BY <1>2, <1>3

LEMMA ProgressTypes ==
  ASSUME TypeOK, FlowInv, NEW c \in Calls, Progress(c) \/ Unresolved(c)
  PROVE  TypeOK' /\ Len(queue'[c]) > 0
<1>1. PICK ev \in Events :
        /\ queue' = [queue EXCEPT ![c] = Append(queue[c], ev)]
        /\ emitted' = [emitted EXCEPT ![c] = emitted[c] + 1] /\ emitted[c] + 1 \in 0..Steps
  BY RunEmits
<1>2. /\ Append(queue[c], ev) \in Seq(Events) /\ Len(queue[c]) \in Nat
      /\ Len(Append(queue[c], ev)) = Len(queue[c]) + 1
  BY AppendFacts DEF TypeOK
<1>3. TypeOK'
  BY <1>1, <1>2 DEF Progress, Unresolved, TypeOK
<1>4. queue'[c] = Append(queue[c], ev)
  BY <1>1 DEF TypeOK
<1>. QED
  BY <1>2, <1>3, <1>4

LEMMA StepTypes ==
  ASSUME TypeOK, FlowInv, Next
  PROVE  TypeOK'
<1>1. ASSUME NEW s \in Streams, Subscribe(s) \/ Drop(s) \/ Unsubscribe(s) \/ Unbind(s)
      PROVE  TypeOK'
  <2>1. <<>> \in Seq(Events)
    BY EmptySeq
  <2>. QED
    BY <1>1, <2>1 DEF TypeOK, Subscribe, Drop, Unsubscribe, Unbind
<1>2. ASSUME NEW e \in Emitters, EndBindings(e)
      PROVE  TypeOK'
  BY <1>2 DEF TypeOK, EndBindings, Emissions
<1>3. ASSUME NEW c \in Calls, CallStep(c)
      PROVE  TypeOK'
  <2>1. CASE Bind(c)
    BY <2>1, EventsAssumption DEF TypeOK, Bind
  <2>2. CASE Queued(c) \/ AlreadyRunning(c) \/ Busy(c) \/ Abort(c)
    BY <2>2, EventTypes, HandlerTypes DEF Queued, AlreadyRunning, Busy, Abort, Handler
  <2>3. CASE Start(c)
    BY <2>3 DEF TypeOK, Start
  <2>4. CASE Disconnect(c)
    BY <2>4 DEF TypeOK, Disconnect, Emissions
  <2>. QED
    BY <1>3, <2>1, <2>2, <2>3, <2>4, ProgressTypes, ForwardTypes DEF CallStep
<1>. QED
  BY <1>1, <1>2, <1>3, SendTypes DEF Next

-----------------------------------------------------------------------------
(* Where the events are, step by step.                                     *)

LEMMA InitHolds == Init => IInv
<1> SUFFICES ASSUME Init PROVE IInv
  OBVIOUS
<1>1. TypeOK
  BY EventsAssumption DEF Init, TypeOK, Emissions
<1>2. \A c \in Calls : Len(queue[c]) = 0 /\ emitted[c] = 0 /\ call[c] = "new"
  BY DEF Init
<1>3. \A e \in Emitters : ~Sending(e) /\ ~Unbinding(e)
  BY DEF Init, Idle, Sending, Unbinding
<1>4. \A s \in Streams : Len(sent[s]) = 0 /\ owed[s] = {} /\ stream[s] = "new"
  BY DEF Init
<1>5. FlowInv
  <2>1. \A c \in Calls : CountOk(c) /\ QueueOk(c)
    BY <1>2 DEF CountOk, QueueOk
  <2>2. \A c \in Calls : ForwarderOk(c) /\ HandlerOk(c)
    BY <1>3, EmitterFacts DEF ForwarderOk, HandlerOk
  <2>3. AllSentOk
    BY <1>4 DEF AllSentOk
  <2>. QED
    BY <2>1, <2>2, <2>3 DEF FlowInv, CallOk
<1>6. Ordered
  BY <1>4 DEF Ordered, Init
<1>7. EndingInv /\ StreamInv /\ WaitInv
  BY <1>3, <1>4, EmitterFacts DEF EndingInv, StreamInv, WaitInv, Watch
<1>. QED
  BY <1>1, <1>5, <1>6, <1>7 DEF IInv

\* Nothing that the flow of events depends on has changed.
LEMMA FlowUnchanged ==
  ASSUME FlowInv, Ordered, UNCHANGED <<sent, call, queue, emitted, emit>>
  PROVE  FlowInv' /\ Ordered'
<1>1. \A c \in Calls : CountOk(c)' /\ QueueOk(c)'
  BY DEF FlowInv, CallOk, CountOk, QueueOk, Item, Taken
<1>2. \A c \in Calls : ForwarderOk(c)' /\ HandlerOk(c)'
  BY DEF FlowInv, CallOk, ForwarderOk, HandlerOk, NothingSent, Taken, Sending
<1>3. AllSentOk'
  BY DEF FlowInv, AllSentOk, SentOk, Taken, Sending
<1>4. Ordered'
  BY DEF Ordered
<1>. QED
  BY <1>1, <1>2, <1>3, <1>4 DEF FlowInv, CallOk

\* A stream that is dropped takes with it what it was sent.
LEMMA DropFlow ==
  ASSUME TypeOK, FlowInv, Ordered, NEW r \in Streams, Drop(r)
  PROVE  FlowInv' /\ Ordered'
<1>1. /\ UNCHANGED <<call, queue, emitted, emit>>
      /\ sent'[r] = <<>> /\ \A s \in Streams \ {r} : sent'[s] = sent[s]
  BY DEF Drop, TypeOK
<1>2. Len(sent'[r]) = 0 /\ DOMAIN sent'[r] = {}
  BY <1>1
<1>3. \A c \in Calls : CountOk(c)' /\ QueueOk(c)'
  BY <1>1 DEF FlowInv, CallOk, CountOk, QueueOk, Item, Taken
<1>4. \A c \in Calls : NothingSent(c) => NothingSent(c)'
  BY <1>1, <1>2 DEF NothingSent
<1>5. \A c \in Calls : ForwarderOk(c)' /\ HandlerOk(c)'
  BY <1>1, <1>4 DEF FlowInv, CallOk, ForwarderOk, HandlerOk, Taken, Sending
<1>6. AllSentOk'
  <2>1. \A s \in Streams \ {r} : \A i \in 1..Len(sent[s]) : SentOk(sent[s][i])
    BY DEF FlowInv, AllSentOk
  <2>2. \A ev \in Events : SentOk(ev) => SentOk(ev)'
    BY <1>1 DEF SentOk, Taken, Sending
  <2>3. ASSUME NEW s \in Streams, NEW i \in 1..Len(sent'[s])
        PROVE  SentOk(sent[s][i])'
    <3>1. s # r /\ sent'[s] = sent[s]
      BY <1>1, <1>2, <2>3
    <3>2. sent[s][i] \in Events /\ SentOk(sent[s][i])
      BY <2>1, <3>1, SentTyped
    <3>3. PICK x \in Events : x = sent[s][i] /\ x = sent'[s][i] /\ SentOk(x)
      BY <3>1, <3>2
    <3>. QED
      BY <2>2, <3>3 DEF SentOk
  <2>. QED
    BY <2>3 DEF AllSentOk
<1>7. Ordered'
  BY <1>1, <1>2 DEF Ordered
<1>. QED
  BY <1>3, <1>5, <1>6, <1>7 DEF FlowInv, CallOk

\* What an action of one call leaves alone.
OthersSame(c) ==
  /\ sent' = sent
  /\ \A d \in Calls \ {c} :
       /\ call'[d] = call[d] /\ queue'[d] = queue[d] /\ emitted'[d] = emitted[d]
       /\ emit'[Handler(d)] = emit[Handler(d)] /\ emit'[Forwarder(d)] = emit[Forwarder(d)]

LEMMA OthersFlow ==
  ASSUME TypeOK, FlowInv, NEW c \in Calls, OthersSame(c), CallOk(c)',
         \A ev \in Events : ev.call = c /\ SentOk(ev) => SentOk(ev)'
  PROVE  FlowInv'
<1>1. ASSUME NEW d \in Calls \ {c}
      PROVE  CallOk(d)'
  BY <1>1 DEF OthersSame, FlowInv, CallOk, CountOk, QueueOk, Item, ForwarderOk, HandlerOk, NothingSent,
              Sending, Taken
<1>2. ASSUME NEW ev \in Events, SentOk(ev)
      PROVE  SentOk(ev)'
  <2>1. ev.call \in Calls
    BY DEF Events
  <2>. QED
    BY <1>2, <2>1 DEF OthersSame, SentOk, Sending, Taken
<1>3. \A s \in Streams : \A i \in 1..Len(sent[s]) : sent[s][i] \in Events
  BY DEF TypeOK
<1>4. AllSentOk'
  BY <1>2, <1>3 DEF AllSentOk, FlowInv, OthersSame
<1>. QED
  BY <1>1, <1>4 DEF FlowInv

\* No event goes out, and no more are emitted.
LEMMA OrderedSame ==
  ASSUME Ordered, UNCHANGED <<sent, emitted>>
  PROVE  Ordered'
BY DEF Ordered

LEMMA BindFlow ==
  ASSUME TypeOK, FlowInv, Ordered, NEW c \in Calls, Bind(c) \/ Start(c)
  PROVE  FlowInv' /\ Ordered'
<1>1. OthersSame(c) /\ UNCHANGED <<sent, queue, emitted, emit>>
  BY DEF OthersSame, Bind, Start, TypeOK
<1>2. call[c] \in {"new", "bound"} /\ call'[c] \in {"bound", "running"}
  BY DEF Bind, Start, TypeOK
<1>3. CountOk(c) /\ QueueOk(c) /\ ForwarderOk(c) /\ HandlerOk(c)
  BY DEF FlowInv, CallOk
<1>4. CountOk(c)'
  BY <1>1, <1>2, <1>3, EventsAssumption DEF CountOk, Waiting
<1>5. QueueOk(c)' /\ ForwarderOk(c)'
  BY <1>1, <1>2, <1>3 DEF QueueOk, Item, Gone, ForwarderOk, Sending, Taken
<1>6. HandlerOk(c)'
  BY <1>1, <1>2, <1>3 DEF HandlerOk, Sending
<1>7. \A ev \in Events : ev.call = c /\ SentOk(ev) => SentOk(ev)'
  BY <1>2 DEF SentOk
<1>. QED
  BY <1>1, <1>4, <1>5, <1>6, <1>7, OthersFlow, OrderedSame DEF CallOk

\* The handler begins to send that the task is queued, or that the call is over.
LEMMA HandlerFlow ==
  ASSUME TypeOK, FlowInv, Ordered, NEW c \in Calls, NEW ev \in Events, Begin(Handler(c), ev),
         UNCHANGED <<sent, queue, emitted>>,
         NEW x, call' = [call EXCEPT ![c] = x],
         \/ call[c] = "bound" /\ x = "created" /\ Is(ev, c, 0, FALSE)
         \/ call[c] = "bound" /\ x = "refused" /\ Is(ev, c, Steps, TRUE)
         \/ call[c] = "running" /\ x = "ended" /\ Is(ev, c, Steps, TRUE)
  PROVE  FlowInv' /\ Ordered'
<1>1. /\ \A f \in Emitters \ {Handler(c)} : emit'[f] = emit[f]
      /\ Sending(Handler(c))' => emit'[Handler(c)].event = ev
  BY BeginIs, EmitterFacts
<1>2. OthersSame(c) /\ emit'[Forwarder(c)] = emit[Forwarder(c)] /\ call'[c] = x
  BY <1>1, EmitterFacts DEF OthersSame, TypeOK
<1>3. CountOk(c) /\ QueueOk(c) /\ ForwarderOk(c)
  BY DEF FlowInv, CallOk
<1>4. CountOk(c)'
  BY <1>2, <1>3 DEF CountOk, Waiting
<1>5. QueueOk(c)' /\ ForwarderOk(c)'
  BY <1>2, <1>3 DEF QueueOk, Item, Gone, ForwarderOk, Sending, Taken
<1>6. \A s \in Streams : \A i \in 1..Len(sent[s]) : sent[s][i] \in Events
  BY DEF TypeOK
<1>7. call[c] = "bound" => NothingSent(c)
  BY <1>6 DEF NothingSent, FlowInv, AllSentOk, SentOk
<1>8. emitted[c] < Steps
  <2>1. Steps \in Nat \ {0}
    BY EventsAssumption
  <2>2. call[c] \in {"bound", "running"}
    OBVIOUS
  <2>. QED
    BY <1>3, <2>1, <2>2 DEF CountOk, Waiting
<1>9. HandlerOk(c)'
  BY <1>1, <1>2, <1>7, <1>8 DEF HandlerOk, NothingSent, Is
<1>10. \A e \in Events : e.call = c /\ SentOk(e) => SentOk(e)'
  BY <1>2 DEF SentOk, Sending, Taken, Waiting
<1>. QED
  BY <1>2, <1>4, <1>5, <1>9, <1>10, OthersFlow, OrderedSame DEF CallOk

LEMMA DisconnectFlow ==
  ASSUME TypeOK, FlowInv, Ordered, NEW c \in Calls, Disconnect(c)
  PROVE  FlowInv' /\ Ordered'
<1>1. /\ OthersSame(c) /\ UNCHANGED <<sent, queue, emitted>>
      /\ emit'[Forwarder(c)] = emit[Forwarder(c)] /\ ~Sending(Handler(c))'
      /\ call'[c] \in {"left", "lost"}
  BY EmitterFacts DEF OthersSame, Disconnect, TypeOK, Handler, Sending, Idle
<1>2. CountOk(c) /\ QueueOk(c) /\ ForwarderOk(c)
  BY DEF FlowInv, CallOk
<1>3. CountOk(c)' /\ HandlerOk(c)'
  BY <1>1, <1>2 DEF CountOk, HandlerOk, Waiting
<1>4. QueueOk(c)' /\ ForwarderOk(c)'
  BY <1>1, <1>2 DEF QueueOk, Item, Gone, ForwarderOk, Sending, Taken
<1>5. \A ev \in Events : ev.call = c /\ SentOk(ev) => SentOk(ev)'
  BY <1>1 DEF SentOk, Sending, Taken, Waiting
<1>. QED
  BY <1>1, <1>3, <1>4, <1>5, OthersFlow, OrderedSame DEF CallOk

LEMMA ProgressFlow ==
  ASSUME TypeOK, FlowInv, Ordered, NEW c \in Calls, Progress(c) \/ Unresolved(c)
  PROVE  FlowInv' /\ Ordered'
<1>1. /\ emitted[c] \in Nat /\ emitted[c] < Steps /\ Steps \in Nat /\ Len(queue[c]) \in Nat
      /\ call[c] = "running"
  BY EventsAssumption DEF TypeOK, FlowInv, CallOk, CountOk, Progress, Unresolved
<1>2. PICK ev \in Events :
        /\ queue' = [queue EXCEPT ![c] = Append(queue[c], ev)]
        /\ emitted' = [emitted EXCEPT ![c] = emitted[c] + 1]
        /\ \/ /\ Is(ev, c, emitted[c] + 1, emitted[c] + 1 = Steps)
              /\ emitted[c] + 1 = Steps => ev.named
              /\ Progress(c)
           \/ ~ev.named /\ call'[c] = "unresolved" /\ Unresolved(c)
  BY RunEmits
<1>3. /\ queue'[c] = Append(queue[c], ev) /\ emitted'[c] = emitted[c] + 1
      /\ emit' = emit /\ OthersSame(c)
      /\ call'[c] \in {"running", "ended", "unresolved"}
      /\ call'[c] = "running" => emitted'[c] # Steps
  BY <1>2 DEF Progress, Unresolved, TypeOK, OthersSame
<1>4. Item(ev, c, emitted[c])'
  BY <1>2, <1>3 DEF Item, Gone
<1>5. /\ Len(queue'[c]) = Len(queue[c]) + 1
      /\ \A i \in 1..Len(queue[c]) : queue'[c][i] = queue[c][i]
      /\ queue'[c][Len(queue[c]) + 1] = ev
  BY <1>3, AppendFacts DEF TypeOK
<1>6. Taken(c)' = Taken(c)
  <2>1. Taken(c)' = emitted'[c] - Len(queue'[c]) /\ Taken(c) = emitted[c] - Len(queue[c])
    BY DEF Taken
  <2>2. emitted'[c] = emitted[c] + 1 /\ Len(queue'[c]) = Len(queue[c]) + 1
    BY <1>3, <1>5
  <2>. QED
    BY <1>1, <2>1, <2>2
<1>7. CountOk(c) /\ QueueOk(c) /\ ForwarderOk(c) /\ HandlerOk(c)
  BY DEF FlowInv, CallOk
<1>8. CountOk(c)'
  BY <1>1, <1>3, <1>5, <1>7 DEF CountOk, Waiting
<1>9. QueueOk(c)'
  <2> SUFFICES ASSUME NEW i \in 1..Len(queue'[c])
               PROVE  Item(queue[c][i], c, Taken(c) + i)'
    BY DEF QueueOk
  <2>1. CASE i \in 1..Len(queue[c])
    <3>1. Item(queue[c][i], c, Taken(c) + i) /\ queue'[c][i] = queue[c][i]
      BY <1>5, <1>7, <2>1 DEF QueueOk
    <3>. QED
      BY <1>1, <1>6, <3>1 DEF Item, Gone
  <2>2. CASE i = Len(queue[c]) + 1
    <3>1. queue'[c][i] = ev /\ Taken(c)' + i = emitted'[c]
      BY <1>1, <1>3, <1>5, <1>6, <2>2 DEF Taken
    <3>. QED
      BY <1>4, <3>1 DEF Item
  <2>. QED
    BY <1>1, <1>5, <2>1, <2>2
<1>10. ForwarderOk(c)'
  BY <1>3, <1>6, <1>7 DEF ForwarderOk, Sending
<1>11. HandlerOk(c)'
  BY <1>1, <1>3, <1>7 DEF HandlerOk, Sending
<1>12. \A e \in Events : e.call = c /\ SentOk(e) => ~e.terminal /\ SentOk(e)'
  BY <1>1, <1>3, <1>6 DEF SentOk, Sending
<1>13. Ordered'
  <2>1. \A s \in Streams : \A i \in DOMAIN sent[s] :
          sent[s][i] \in Events /\ (sent[s][i].call = c => ~sent[s][i].terminal)
    BY <1>12, SentTyped DEF FlowInv, AllSentOk
  <2>2. \A e \in Events : e.call # c => emitted'[e.call] = emitted[e.call]
    BY <1>3 DEF OthersSame, Events
  <2>. QED
    BY <1>3, <2>1, <2>2 DEF Ordered, OthersSame
<1>. QED
  BY <1>3, <1>8, <1>9, <1>10, <1>11, <1>12, <1>13, OthersFlow DEF CallOk

LEMMA ForwardFlow ==
  ASSUME TypeOK, FlowInv, Ordered, NEW c \in Calls, Forward(c)
  PROVE  FlowInv' /\ Ordered'
<1>1. /\ Len(queue[c]) \in Nat \ {0} /\ Head(queue[c]) = queue[c][1] /\ queue[c][1] \in Events
      /\ queue'[c] = Tail(queue[c]) /\ Len(queue'[c]) = Len(queue[c]) - 1
      /\ \A i \in 1..Len(queue'[c]) : queue'[c][i] = queue[c][i + 1]
  BY TailFacts DEF Forward, TypeOK
<1>2. /\ \A f \in Emitters \ {Forwarder(c)} : emit'[f] = emit[f]
      /\ emit[Forwarder(c)] = Idle
      /\ Sending(Forwarder(c))' =>
           emit'[Forwarder(c)].event = queue[c][1] /\ queue[c][1].named
  BY <1>1, BeginIs, EmitterFacts DEF Forward, Forwarder
<1>3. /\ OthersSame(c) /\ UNCHANGED <<sent, call, emitted>>
      /\ emit'[Handler(c)] = emit[Handler(c)] /\ ~Sending(Forwarder(c))
  BY <1>2, EmitterFacts DEF OthersSame, Forward, TypeOK, Sending, Idle
<1>4. CountOk(c) /\ QueueOk(c) /\ HandlerOk(c)
  BY DEF FlowInv, CallOk
<1>5. emitted[c] \in Nat /\ Steps \in Nat
  BY EventsAssumption DEF TypeOK
<1>6. Taken(c) \in Nat /\ Taken(c)' = Taken(c) + 1
  BY <1>1, <1>3, <1>4, <1>5 DEF Taken, CountOk
<1>7. CountOk(c)' /\ HandlerOk(c)'
  <2>1. CountOk(c)'
    BY <1>1, <1>3, <1>4, <1>5 DEF CountOk
  <2>2. HandlerOk(c)'
    BY <1>3, <1>4 DEF HandlerOk, NothingSent, Sending
  <2>. QED
    BY <2>1, <2>2
<1>8. QueueOk(c)'
  <2> SUFFICES ASSUME NEW i \in 1..Len(queue'[c])
               PROVE  Item(queue[c][i], c, Taken(c) + i)'
    BY DEF QueueOk
  <2>1. i + 1 \in 1..Len(queue[c])
    BY <1>1
  <2>2. Item(queue[c][i + 1], c, Taken(c) + (i + 1)) /\ Taken(c) + (i + 1) = Taken(c)' + i
    <3>1. Item(queue[c][i + 1], c, Taken(c) + (i + 1))
      BY <1>4, <2>1 DEF QueueOk
    <3>2. ASSUME NEW t \in Nat, NEW u, u = t + 1, NEW k \in Nat
          PROVE  t + (k + 1) = u + k
      BY <3>2
    <3>3. i \in Nat
      BY <1>1
    <3>. QED
      BY <1>6, <3>1, <3>2, <3>3
  <2>3. queue'[c][i] = queue[c][i + 1] /\ call' = call
    BY <1>1, <1>3
  <2>. QED
    BY <2>2, <2>3 DEF Item
<1>9. ForwarderOk(c)'
  <2>1. Item(queue[c][1], c, Taken(c) + 1)
    BY <1>1, <1>4 DEF QueueOk
  <2>. QED
    BY <1>2, <1>6, <2>1 DEF ForwarderOk, Item
<1>10. \A ev \in Events : ev.call = c /\ SentOk(ev) => SentOk(ev)'
  <2> SUFFICES ASSUME NEW ev \in Events, ev.call = c, SentOk(ev)
               PROVE  SentOk(ev)'
    OBVIOUS
  <2>1. ev.n \in Nat
    BY EventsAssumption DEF Events
  <2>. QED
    BY <1>1, <1>3, <1>6, <2>1 DEF SentOk
<1>. QED
  BY <1>3, <1>7, <1>8, <1>9, <1>10, OthersFlow, OrderedSame DEF CallOk

\* What a stream has been sent after an emission.
LEMMA SendAppends ==
  ASSUME TypeOK, NEW e \in Emitters, Send(e), NEW s \in Streams
  PROVE  /\ sent'[s] = sent[s] \/ sent'[s] = Append(sent[s], emit[e].event)
         /\ \A i \in 1..Len(sent'[s]) :
              \/ i \in 1..Len(sent[s]) /\ sent'[s][i] = sent[s][i]
              \/ i = Len(sent[s]) + 1 /\ sent'[s][i] = emit[e].event
         /\ \A i \in 1..Len(sent[s]) : i \in 1..Len(sent'[s]) /\ sent'[s][i] = sent[s][i]
<1>1. sent'[s] = sent[s] \/ sent'[s] = Append(sent[s], emit[e].event)
  BY DEF Send
<1>2. Len(sent[s]) \in Nat /\ sent[s] \in Seq(Events) /\ emit[e].event \in Events
  BY SentTyped, SendTypes DEF TypeOK
<1>. QED
  BY <1>1, <1>2, AppendFacts

LEMMA SendFlow ==
  ASSUME TypeOK, FlowInv, Ordered, NEW e \in Emitters, Send(e)
  PROVE  FlowInv' /\ Ordered'
<1>1. PICK c \in Calls : e = Handler(c) \/ e = Forwarder(c)
  BY EmitterFacts
<1>2. PICK ev \in Events : ev = emit[e].event
  BY SendTypes
<1>3. /\ UNCHANGED <<call, queue, emitted>> /\ Sending(e) /\ ~Sending(e)'
      /\ \A f \in Emitters \ {e} : emit'[f] = emit[f]
  BY SendTypes DEF Send, Sending
<1>4. CountOk(c) /\ ForwarderOk(c) /\ HandlerOk(c)
  BY DEF FlowInv, CallOk
<1>5. /\ emitted[c] \in 0..Steps /\ Len(queue[c]) \in Nat /\ Steps \in Nat \ {0}
      /\ ev.n \in Nat /\ Taken(c) \in Nat
  BY <1>4, EventsAssumption DEF TypeOK, Events, Taken, CountOk
<1>6. \A f \in Emitters : Sending(f)' => Sending(f) /\ emit'[f] = emit[f]
  BY <1>3 DEF Sending
<1>7. \A d \in Calls : CountOk(d)' /\ QueueOk(d)' /\ ForwarderOk(d)'
  <2>1. \A d \in Calls : CountOk(d)' /\ QueueOk(d)'
    BY <1>3 DEF FlowInv, CallOk, CountOk, QueueOk, Item, Taken
  <2>2. \A d \in Calls : ForwarderOk(d)'
    BY <1>3, <1>6, EmitterFacts DEF FlowInv, CallOk, ForwarderOk, Taken
  <2>. QED
    BY <2>1, <2>2
\* The forwarder is past what has been sent and behind the queue.
<1>8. ASSUME e = Forwarder(c)
      PROVE  /\ ev.call = c /\ ev.n = Taken(c) /\ Taken(c) >= 1
             /\ call[c] \notin Waiting \cup {"refused"}
             /\ ev.terminal => Len(queue[c]) = 0 /\ call[c] # "running"
  <2>1. Taken(c) >= 1 /\ ev.call = c /\ ev.n = Taken(c) /\ (ev.terminal <=> Taken(c) = Steps)
    BY <1>2, <1>3, <1>4, <1>8 DEF ForwarderOk, Is
  <2>2. call[c] \notin Waiting \cup {"refused"}
    BY <1>4, <1>5, <2>1 DEF CountOk, Taken
  <2>3. ev.terminal => Len(queue[c]) = 0 /\ call[c] # "running"
    BY <1>4, <1>5, <2>1 DEF CountOk, Taken
  <2>. QED
    BY <2>1, <2>2, <2>3
<1>9. ASSUME e = Handler(c)
      PROVE  /\ ev.call = c
             /\ \/ /\ ev.n = 0 /\ ~ev.terminal /\ Taken(c) = 0
                   /\ call[c] = "created" /\ NothingSent(c)
                \/ /\ ev.n = Steps /\ ev.terminal
                   /\ call[c] \in {"refused", "ended"} /\ emitted[c] < Steps
  <2>1. \/ Is(ev, c, 0, FALSE) /\ call[c] = "created" /\ NothingSent(c)
        \/ Is(ev, c, Steps, TRUE) /\ call[c] \in {"refused", "ended"} /\ emitted[c] < Steps
    BY <1>2, <1>3, <1>4, <1>9 DEF HandlerOk
  <2>2. call[c] = "created" => Taken(c) = 0
    BY <1>4, <1>5 DEF CountOk, Taken, Waiting
  <2>. QED
    BY <2>1, <2>2 DEF Is
<1>10. SentOk(ev)'
  <2>1. CASE e = Forwarder(c)
    <3>1. ~Sending(Forwarder(c))'
      BY <1>3, <2>1
    <3>. QED
      BY <1>3, <1>5, <1>8, <2>1, <3>1 DEF SentOk, Waiting, Taken
  <2>2. CASE e = Handler(c)
    <3>1. Sending(Forwarder(c))' => Taken(c) >= 1
      BY <1>4, <1>6, EmitterFacts DEF ForwarderOk
    <3>. QED
      BY <1>3, <1>5, <1>9, <2>2, <3>1 DEF SentOk, Waiting, Taken
  <2>. QED
    BY <1>1, <2>1, <2>2
<1>11. \A first \in Events : SentOk(first) => SentOk(first)'
  <2>1. \A first \in Events : Sending(Forwarder(first.call))' => Sending(Forwarder(first.call))
    BY <1>6, EmitterFacts DEF Events
  <2>. QED
    BY <1>3, <2>1 DEF SentOk, Taken
<1>12. AllSentOk'
  <2>1. ASSUME NEW s \in Streams, NEW i \in 1..Len(sent'[s])
        PROVE  SentOk(sent[s][i])'
    <3>1. PICK x : x = sent'[s][i]
      OBVIOUS
    <3>2. x = ev \/ (i \in 1..Len(sent[s]) /\ x = sent[s][i])
      BY <1>2, <3>1, SendAppends
    <3>3. i \in 1..Len(sent[s]) => sent[s][i] \in Events /\ SentOk(sent[s][i])
      BY SentTyped DEF FlowInv, AllSentOk
    <3>4. SentOk(x)'
      BY <1>10, <1>11, <3>2, <3>3
    <3>. QED
      BY <3>1, <3>4 DEF SentOk
  <2>. QED
    BY <2>1 DEF AllSentOk
<1>13. ASSUME NEW d \in Calls
       PROVE  HandlerOk(d)'
  <2>1. CASE d = c
    <3>1. CASE e = Handler(c)
      BY <1>3, <2>1, <3>1 DEF HandlerOk
    <3>2. CASE e = Forwarder(c)
      BY <1>3, <1>4, <1>6, <1>8, <2>1, <3>2, EmitterFacts DEF HandlerOk, Waiting
    <3>. QED
      BY <1>1, <3>1, <3>2
  <2>2. CASE d # c
    <3>1. NothingSent(d) => NothingSent(d)'
      BY <1>1, <1>2, <1>8, <1>9, <2>2, SendAppends DEF NothingSent
    <3>2. HandlerOk(d)
      BY DEF FlowInv, CallOk
    <3>. QED
      BY <1>3, <1>6, <3>1, <3>2, EmitterFacts DEF HandlerOk
  <2>. QED
    BY <2>1, <2>2
\* All events of the call that have been sent come before this one.
<1>14. ASSUME NEW s \in Streams, NEW i \in 1..Len(sent[s]), sent[s][i].call = c
       PROVE  \/ sent[s][i].n < ev.n /\ ~sent[s][i].terminal
              \/ sent[s][i].terminal /\ emitted[c] < Steps
  <2>1. sent[s][i] \in Events /\ SentOk(sent[s][i]) /\ sent[s][i].n \in Nat
    BY SentTyped, EventsAssumption DEF FlowInv, AllSentOk, Events
  <2>2. CASE e = Forwarder(c)
    BY <1>3, <1>5, <1>8, <1>14, <2>1, <2>2 DEF SentOk
  <2>3. CASE e = Handler(c)
    <3>1. ~NothingSent(c)
      BY <1>14 DEF NothingSent
    <3>2. sent[s][i].n <= Taken(c) \/ sent[s][i].terminal
      BY <1>14, <2>1 DEF SentOk
    <3>. QED
      BY <1>5, <1>9, <2>1, <2>3, <3>1, <3>2 DEF Taken
  <2>. QED
    BY <1>1, <2>2, <2>3
<1>15. Ordered'
  <2>1. \A s \in Streams : DOMAIN sent'[s] = 1..Len(sent'[s])
    BY SendTypes DEF TypeOK
  <2>2. ASSUME NEW s \in Streams, NEW i \in 1..Len(sent'[s]), NEW j \in 1..Len(sent'[s]),
               i < j, sent'[s][i].call = sent'[s][j].call
        PROVE  \/ sent'[s][i].n < sent'[s][j].n /\ ~sent'[s][i].terminal
               \/ sent'[s][i].terminal /\ emitted[sent'[s][i].call] < Steps
    <3>1. i \in 1..Len(sent[s]) /\ sent'[s][i] = sent[s][i]
      <4>1. j \in 1..Len(sent[s]) \/ j = Len(sent[s]) + 1
        BY SendAppends
      <4>2. i \in 1..Len(sent[s])
        BY <2>2, <4>1, SentTyped
      <4>. QED
        BY <4>2, SendAppends
    <3>2. CASE sent'[s][j] = ev
      <4>1. ev.call = c
        BY <1>1, <1>8, <1>9
      <4>2. sent[s][i].call = c
        BY <2>2, <3>1, <3>2, <4>1
      <4>. QED
        BY <1>14, <3>1, <3>2, <4>2
    <3>3. CASE j \in 1..Len(sent[s]) /\ sent'[s][j] = sent[s][j]
      BY <2>2, <3>1, <3>3, SentTyped DEF Ordered
    <3>. QED
      BY <1>2, <3>2, <3>3, SendAppends
  <2>3. emitted' = emitted
    BY <1>3
  <2>. QED
    BY <2>1, <2>2, <2>3 DEF Ordered
<1>. QED
  BY <1>7, <1>12, <1>13, <1>15 DEF FlowInv, CallOk

LEMMA EndFlow ==
  ASSUME TypeOK, FlowInv, Ordered, NEW e \in Emitters, EndBindings(e)
  PROVE  FlowInv' /\ Ordered'
<1>1. /\ UNCHANGED <<sent, call, queue, emitted>>
      /\ \A f \in Emitters : Sending(f)' => Sending(f) /\ emit'[f] = emit[f]
  BY DEF EndBindings, TypeOK, Sending, Idle
<1>2. \A c \in Calls : CountOk(c)' /\ QueueOk(c)'
  BY <1>1 DEF FlowInv, CallOk, CountOk, QueueOk, Item, Taken
<1>3. \A c \in Calls : ForwarderOk(c)' /\ HandlerOk(c)'
  BY <1>1, EmitterFacts DEF FlowInv, CallOk, ForwarderOk, HandlerOk, NothingSent, Taken
<1>4. \A ev \in Events : SentOk(ev) => SentOk(ev)'
  <2>1. \A ev \in Events : Sending(Forwarder(ev.call))' => Sending(Forwarder(ev.call))
    BY <1>1, EmitterFacts DEF Events
  <2>. QED
    BY <1>1, <2>1 DEF SentOk, Taken
<1>5. AllSentOk'
  BY <1>1, <1>4, SentTyped DEF FlowInv, AllSentOk
<1>. QED
  BY <1>1, <1>2, <1>3, <1>5, OrderedSame DEF FlowInv, CallOk

LEMMA StepFlow ==
  ASSUME TypeOK, FlowInv, Ordered, Next
  PROVE  FlowInv' /\ Ordered'
<1>1. ASSUME NEW s \in Streams, Subscribe(s) \/ Drop(s) \/ Unsubscribe(s) \/ Unbind(s)
      PROVE  FlowInv' /\ Ordered'
  BY <1>1, DropFlow, FlowUnchanged DEF Subscribe, Unsubscribe, Unbind
<1>2. ASSUME NEW e \in Emitters, EndBindings(e)
      PROVE  FlowInv' /\ Ordered'
  BY <1>2, EndFlow
<1>3. ASSUME NEW c \in Calls, CallStep(c)
      PROVE  FlowInv' /\ Ordered'
  <2>1. CASE Queued(c) \/ AlreadyRunning(c) \/ Busy(c) \/ Abort(c)
    BY <2>1, EventTypes, HandlerFlow
    DEF Queued, AlreadyRunning, Busy, Abort, Handler
  <2>. QED
    BY <1>3, <2>1, BindFlow, DisconnectFlow, ProgressFlow, ForwardFlow DEF CallStep
<1>. QED
  BY <1>1, <1>2, <1>3, SendFlow DEF Next

-----------------------------------------------------------------------------
(* Who waits, step by step.                                                *)

Waits == EndingInv /\ StreamInv /\ WaitInv

\* An emission is about its own call, and an end is sent of one that is over.
LEMMA SendsOwn ==
  ASSUME TypeOK, FlowInv, NEW c \in Calls, NEW e \in {Handler(c), Forwarder(c)}, Sending(e)
  PROVE  /\ emit[e].event.call = c
         /\ e = Forwarder(c) \/ emit[e].event.terminal => call[c] \notin Waiting
<1>1. CountOk(c) /\ ForwarderOk(c) /\ HandlerOk(c)
  BY DEF FlowInv, CallOk
<1>2. emitted[c] \in Nat /\ Len(queue[c]) \in Nat
  BY EventsAssumption DEF TypeOK
<1>3. CASE e = Forwarder(c)
  <2>1. Taken(c) >= 1 /\ emit[e].event.call = c
    BY <1>1, <1>3 DEF ForwarderOk, Is
  <2>. QED
    BY <1>1, <1>2, <2>1 DEF CountOk, Taken
<1>4. CASE e = Handler(c)
  <2>1. \/ Is(emit[e].event, c, 0, FALSE)
        \/ Is(emit[e].event, c, Steps, TRUE) /\ call[c] \in {"refused", "ended"}
    BY <1>1, <1>4 DEF HandlerOk
  <2>. QED
    BY <1>4, <2>1, EmitterFacts DEF Is, Waiting
<1>. QED
  BY <1>3, <1>4

\* Only streams act.
LEMMA StreamWaits ==
  ASSUME TypeOK, Waits, NEW r \in Streams,
         Subscribe(r) \/ Drop(r) \/ Unsubscribe(r) \/ Unbind(r)
  PROVE  Waits'
<1>1. /\ UNCHANGED <<call, queue, emitted, emit>> /\ racing \subseteq racing'
      /\ \A s \in Streams : owed'[s] \subseteq owed[s]
      /\ \A s \in Streams : stream'[s] = "open" => sent'[s] = sent[s] /\ owed'[s] = owed[s]
      /\ \A s \in Streams \ {r} : stream'[s] = stream[s]
      /\ stream' \in [Streams -> Stages] /\ stream'[r] # "new"
  BY DEF Subscribe, Drop, Unsubscribe, Unbind, TypeOK, Stages
<1>2. EndingInv'
  BY <1>1 DEF Waits, EndingInv, Unbinding
<1>3. StreamInv'
  <2>1. \A s \in Streams : \A c \in owed'[s] :
          SessionOf[s] = Caller[c] /\ stream'[s] # "new" /\ call'[c] # "new"
    BY <1>1 DEF Waits, StreamInv
  <2>2. ASSUME NEW s \in Streams, NEW t \in Streams,
               stream'[s] = "open", stream'[t] = "cleaning", SessionOf[s] = SessionOf[t]
        PROVE  s \in racing'
    <3>1. s # t
      BY <2>2
    <3>2. CASE Subscribe(r)
      BY <1>1, <2>2, <3>1, <3>2 DEF Subscribe, Waits, StreamInv, TypeOK
    <3>3. CASE Drop(r) \/ Unbind(r)
      BY <1>1, <2>2, <3>3 DEF Drop, Unbind, Waits, StreamInv, TypeOK
    <3>4. CASE Unsubscribe(r)
      BY <1>1, <2>2, <3>1, <3>4 DEF Unsubscribe, Waits, StreamInv, TypeOK, Registered
    <3>. QED
      BY <3>2, <3>3, <3>4
  <2>. QED
    BY <2>1, <2>2 DEF StreamInv
<1>4. WaitInv'
  <2> SUFFICES ASSUME NEW s \in Streams, NEW c \in Calls, Watch(s, c)', ~Informed(s, c)'
               PROVE  Expecting(s, c)'
    BY DEF WaitInv
  <2>1. ~Informed(s, c)
    BY <1>1 DEF Informed, Watch
  <2>2. stream[s] = "open" /\ s \notin racing
    BY <1>1 DEF Watch, Waits, StreamInv, Subscribe, Drop, Unsubscribe, Unbind, TypeOK
  <2>3. Watch(s, c)
    BY <1>1, <2>2 DEF Watch, Alone
  <2>4. Expecting(s, c)
    BY <2>1, <2>3 DEF Waits, WaitInv
  <2>5. SessionOf[s] \in bound'
    BY <2>2, <2>4 DEF Expecting, Waits, StreamInv, Subscribe, Drop, Unsubscribe, Unbind
  <2>. QED
    BY <1>1, <2>4, <2>5 DEF Expecting, SendsEnd, Sending, Unbinding
<1>. QED
  BY <1>2, <1>3, <1>4 DEF Waits

\* A call that goes on: nothing is new to the other calls but that it may no
\* longer let them be alone.
LEMMA OthersWait ==
  ASSUME TypeOK, Waits, NEW c \in Calls, OthersSame(c),
         UNCHANGED <<stream, bound, owed, racing>>,
         call[c] \notin Waiting => call'[c] \notin Waiting, call'[c] # "new",
         Unbinding(Handler(c))' \/ Unbinding(Forwarder(c))' => call'[c] \notin Waiting,
         \A s \in Streams : Expecting(s, c) => Expecting(s, c)'
  PROVE  Waits'
<1>1. EndingInv'
  BY DEF Waits, EndingInv, OthersSame, Unbinding
<1>2. StreamInv'
  <2>1. \A d \in Calls : call[d] # "new" => call'[d] # "new"
    BY DEF OthersSame
  <2>. QED
    BY <2>1 DEF Waits, StreamInv, TypeOK
<1>3. WaitInv'
  <2> SUFFICES ASSUME NEW s \in Streams, NEW d \in Calls, Watch(s, d)', ~Informed(s, d)'
               PROVE  Expecting(s, d)'
    BY DEF WaitInv
  <2>1. ~Informed(s, d)
    BY DEF Informed, OthersSame
  <2>2. Alone(d)
    BY DEF Watch, Alone, OthersSame, Waiting
  <2>3. Expecting(s, d)
    BY <2>1, <2>2 DEF Waits, WaitInv, Watch
  <2>4. CASE d # c
    BY <2>3, <2>4 DEF Expecting, SendsEnd, Sending, Unbinding, OthersSame
  <2>. QED
    BY <2>3, <2>4
<1>. QED
  BY <1>1, <1>2, <1>3 DEF Waits

LEMMA BindWaits ==
  ASSUME TypeOK, FlowInv, Waits, NEW c \in Calls, Bind(c)
  PROVE  Waits'
<1>1. /\ UNCHANGED <<stream, sent, queue, emitted, emit, racing>> /\ bound \subseteq bound'
      /\ call[c] = "new" /\ call'[c] = "bound" /\ \A d \in Calls \ {c} : call'[d] = call[d]
      /\ \A s \in Streams : \A d \in owed'[s] :
           d \in owed[s] \/ (d = c /\ stream[s] = "open" /\ SessionOf[s] = Caller[c])
  BY DEF Bind, TypeOK
<1>2. ~Unbinding(Handler(c)) /\ ~Unbinding(Forwarder(c))
  BY <1>1 DEF Waits, EndingInv, Waiting
<1>3. ~SendsEnd(Handler(c)) /\ ~SendsEnd(Forwarder(c))
  BY <1>1, SendsOwn DEF SendsEnd, Waiting
<1>4. EndingInv'
  BY <1>1, <1>2 DEF Waits, EndingInv, Unbinding
<1>5. StreamInv'
  BY <1>1 DEF Waits, StreamInv, TypeOK
<1>6. WaitInv'
  <2> SUFFICES ASSUME NEW s \in Streams, NEW d \in Calls, Watch(s, d)', ~Informed(s, d)'
               PROVE  Expecting(s, d)'
    BY DEF WaitInv
  <2>1. CASE d # c
    <3>1. Watch(s, d) /\ ~Informed(s, d)
      BY <1>1, <2>1 DEF Watch, Alone, Informed
    <3>2. Expecting(s, d)
      BY <3>1 DEF Waits, WaitInv
    <3>. QED
      BY <1>1, <2>1, <3>2 DEF Expecting, SendsEnd, Sending, Unbinding
  <2>2. CASE d = c
    <3>1. SessionOf[s] = Caller[c]
      BY <1>1, <2>2 DEF Watch, Waits, StreamInv
    <3>2. SessionOf[s] \in bound'
      BY <3>1, EventsAssumption DEF Bind, Sessions
    <3>. QED
      BY <1>1, <1>2, <1>3, <2>2, <3>2 DEF Expecting, SendsEnd, Sending, Unbinding
  <2>. QED
    BY <2>1, <2>2
<1>. QED
  BY <1>4, <1>5, <1>6 DEF Waits

LEMMA HandlerWaits ==
  ASSUME TypeOK, Waits, NEW c \in Calls, NEW ev \in Events, Begin(Handler(c), ev),
         UNCHANGED <<stream, sent, bound, queue, emitted, owed, racing>>,
         NEW x, call' = [call EXCEPT ![c] = x],
         x \in {"created", "refused", "ended"}, call[c] \in {"bound", "running"},
         call[c] = "running" => x = "ended", x = "ended" => ev.terminal, ev.named
  PROVE  Waits'
<1>1. /\ \A f \in Emitters \ {Handler(c)} : emit'[f] = emit[f]
      /\ ~Unbinding(Handler(c))'
      /\ Sending(Handler(c))' => emit'[Handler(c)].event = ev /\ emit'[Handler(c)].to = bound
      /\ bound # {} => Sending(Handler(c))'
  BY BeginIs, EmitterFacts
<1>2. OthersSame(c) /\ emit'[Forwarder(c)] = emit[Forwarder(c)] /\ call'[c] = x
  BY <1>1, EmitterFacts DEF OthersSame, TypeOK
<1>3. call[c] \notin Waiting => call'[c] \notin Waiting
  BY <1>2 DEF Waiting
<1>4. Unbinding(Handler(c))' \/ Unbinding(Forwarder(c))' => call'[c] \notin Waiting
  <2>1. Unbinding(Forwarder(c))' => Unbinding(Forwarder(c))
    BY <1>2 DEF Unbinding
  <2>. QED
    BY <1>1, <1>3, <2>1 DEF Waits, EndingInv
<1>5. ASSUME NEW s \in Streams, Expecting(s, c)
      PROVE  Expecting(s, c)'
  <2>1. SessionOf[s] \in bound /\ bound' = bound
    BY <1>5 DEF Expecting
  <2>2. SendsEnd(Handler(c))' => SessionOf[s] \in emit'[Handler(c)].to
    BY <1>1, <2>1 DEF SendsEnd
  <2>3. /\ ~Unbinding(Forwarder(c))'
        /\ SendsEnd(Forwarder(c))' => SessionOf[s] \in emit'[Forwarder(c)].to
    BY <1>2, <1>5 DEF Expecting, SendsEnd, Sending, Unbinding
  <2>4. x = "ended" => SendsEnd(Handler(c))'
    BY <1>1, <2>1 DEF SendsEnd
  <2>. QED
    BY <1>1, <1>2, <2>1, <2>2, <2>3, <2>4 DEF Expecting
<1>. QED
  BY <1>2, <1>3, <1>4, <1>5, OthersWait

LEMMA StartWaits ==
  ASSUME TypeOK, FlowInv, Waits, NEW c \in Calls, Start(c) \/ Progress(c) \/ Unresolved(c)
  PROVE  Waits'
<1>1. /\ OthersSame(c) /\ UNCHANGED <<stream, bound, owed, racing, emit>>
      /\ call'[c] \in {"running", "ended", "unresolved"}
      /\ call[c] \in Waiting => Start(c)
  BY DEF Start, Progress, Unresolved, OthersSame, TypeOK, Waiting
<1>2. call'[c] = "ended" => Len(queue'[c]) > 0 /\ emitted'[c] = Steps
  <2>1. CASE Start(c)
    BY <2>1 DEF Start, TypeOK
  <2>2. CASE Progress(c)
    <3>1. Len(queue'[c]) > 0
      BY <2>2, ProgressTypes
    <3>2. call'[c] = "ended" => emitted'[c] = Steps
      BY <2>2 DEF Progress, TypeOK
    <3>. QED
      BY <3>1, <3>2
  <2>3. CASE Unresolved(c)
    BY <2>3 DEF Unresolved, TypeOK
  <2>. QED
    BY <2>1, <2>2, <2>3
<1>3. call'[c] \notin Waiting
  BY <1>1 DEF Waiting
<1>4. ASSUME NEW s \in Streams, Expecting(s, c)
      PROVE  Expecting(s, c)'
  BY <1>1, <1>2, <1>4 DEF Expecting, SendsEnd, Sending, Unbinding
<1>. QED
  BY <1>1, <1>3, <1>4, OthersWait DEF Waiting

LEMMA DisconnectWaits ==
  ASSUME TypeOK, Waits, NEW c \in Calls, Disconnect(c)
  PROVE  Waits'
<1>1. /\ OthersSame(c) /\ UNCHANGED <<stream, bound, owed, racing>>
      /\ emit'[Forwarder(c)] = emit[Forwarder(c)] /\ emit'[Handler(c)] = Idle
      /\ call'[c] \in {"left", "lost"}
  BY EmitterFacts DEF OthersSame, Disconnect, TypeOK, Handler
<1>2. ~Unbinding(Handler(c))' /\ ~SendsEnd(Handler(c))'
  BY <1>1 DEF Unbinding, SendsEnd, Sending, Idle
<1>3. ASSUME NEW s \in Streams, Expecting(s, c)
      PROVE  Expecting(s, c)'
  BY <1>1, <1>2, <1>3 DEF Expecting, SendsEnd, Sending, Unbinding
<1>. QED
  BY <1>1, <1>3, OthersWait DEF Waiting

LEMMA ForwardWaits ==
  ASSUME TypeOK, FlowInv, Waits, NEW c \in Calls, Forward(c)
  PROVE  Waits'
<1>1. /\ Len(queue[c]) \in Nat \ {0} /\ Head(queue[c]) = queue[c][1] /\ queue[c][1] \in Events
      /\ Len(queue'[c]) = Len(queue[c]) - 1
  BY TailFacts DEF Forward, TypeOK
<1>2. /\ \A f \in Emitters \ {Forwarder(c)} : emit'[f] = emit[f]
      /\ emit[Forwarder(c)] = Idle /\ ~Unbinding(Forwarder(c))'
      /\ Sending(Forwarder(c))' =>
           emit'[Forwarder(c)].event = queue[c][1] /\ emit'[Forwarder(c)].to = bound
      /\ bound # {} /\ queue[c][1].named => Sending(Forwarder(c))'
  BY <1>1, BeginIs, EmitterFacts DEF Forward, Forwarder
<1>3. /\ OthersSame(c) /\ UNCHANGED <<stream, bound, owed, racing, call, emitted>>
      /\ emit'[Handler(c)] = emit[Handler(c)] /\ ~SendsEnd(Forwarder(c))
  BY <1>2, EmitterFacts DEF OthersSame, Forward, TypeOK, SendsEnd, Sending, Idle
<1>4. CountOk(c) /\ QueueOk(c) /\ emitted[c] \in Nat
  BY EventsAssumption DEF FlowInv, CallOk, TypeOK
<1>5. call[c] \notin Waiting
  BY <1>1, <1>4 DEF CountOk
<1>6. Len(queue[c]) = 1 /\ emitted[c] = Steps /\ call[c] = "ended" =>
        queue[c][1].terminal /\ queue[c][1].named
  <2> SUFFICES ASSUME Len(queue[c]) = 1, emitted[c] = Steps, call[c] = "ended"
               PROVE  queue[c][1].terminal /\ queue[c][1].named
    OBVIOUS
  <2>1. Item(queue[c][1], c, Taken(c) + 1) /\ Taken(c) + 1 = Steps
    BY <1>4 DEF QueueOk, Taken
  <2>. QED
    BY <2>1 DEF Item, Is, Gone
<1>7. ASSUME NEW s \in Streams, Expecting(s, c)
      PROVE  Expecting(s, c)'
  <2>1. SessionOf[s] \in bound /\ bound' = bound
    BY <1>3, <1>7 DEF Expecting
  <2>2. SendsEnd(Forwarder(c))' => SessionOf[s] \in emit'[Forwarder(c)].to
    BY <1>2, <2>1 DEF SendsEnd
  <2>3. /\ ~Unbinding(Handler(c))'
        /\ SendsEnd(Handler(c))' => SessionOf[s] \in emit'[Handler(c)].to
        /\ SendsEnd(Handler(c)) => SendsEnd(Handler(c))'
    BY <1>3, <1>7 DEF Expecting, SendsEnd, Sending, Unbinding
  <2>4. Len(queue[c]) = 1 /\ emitted[c] = Steps /\ call[c] = "ended" => SendsEnd(Forwarder(c))'
    BY <1>2, <1>6, <2>1 DEF SendsEnd
  <2>5. call'[c] = "ended" =>
          \/ Len(queue'[c]) > 0 /\ emitted'[c] = Steps
          \/ SendsEnd(Handler(c))' \/ SendsEnd(Forwarder(c))'
    <3>1. call[c] = "ended" => SendsEnd(Handler(c)) \/ emitted[c] = Steps
      BY <1>3, <1>7 DEF Expecting
    <3>2. CASE Len(queue[c]) = 1
      BY <1>3, <2>3, <2>4, <3>1, <3>2
    <3>3. CASE Len(queue[c]) # 1
      <4>1. PICK n \in Nat \ {0} : n = Len(queue[c]) /\ Len(queue'[c]) = n - 1
        BY <1>1
      <4>2. n # 1
        BY <3>3, <4>1
      <4>3. n - 1 > 0
        BY <4>2
      <4>. QED
        BY <1>3, <2>3, <3>1, <4>1, <4>3
    <3>. QED
      BY <3>2, <3>3
  <2>. QED
    BY <1>2, <2>1, <2>2, <2>3, <2>5 DEF Expecting
<1>. QED
  BY <1>3, <1>5, <1>7, OthersWait DEF Waiting

\* The call an emission belongs to.
LEMMA SendWaits ==
  ASSUME TypeOK, FlowInv, Waits, NEW e \in Emitters, Send(e)
  PROVE  Waits'
<1>1. PICK c \in Calls : e \in {Handler(c), Forwarder(c)}
  BY EmitterFacts
<1>2. /\ UNCHANGED <<call, queue, emitted, owed, racing, bound>> /\ Sending(e) /\ ~Sending(e)'
      /\ Unbinding(e)' => emit[e].event.terminal
      /\ \A f \in Emitters \ {e} : emit'[f] = emit[f]
  BY SendTypes DEF Send, Sending
<1>3. \A s \in Streams : \A x \in {"new", "open", "cleaning"} : stream'[s] = x <=> stream[s] = x
  BY DEF Send, TypeOK
<1>4. emit[e].event.call = c /\ (emit[e].event.terminal => call[c] \notin Waiting)
  BY <1>1, <1>2, SendsOwn
<1>5. EndingInv'
  <2> SUFFICES ASSUME NEW d \in Calls, NEW f \in {Handler(d), Forwarder(d)}, Unbinding(f)'
               PROVE  call[d] \notin Waiting
    BY <1>2 DEF EndingInv
  <2>1. CASE f = e
    BY <1>1, <1>2, <1>4, <2>1, EmitterFacts
  <2>2. CASE f # e
    <3>1. Unbinding(f)
      BY <1>2, <2>2, EmitterFacts DEF Unbinding
    <3>. QED
      BY <3>1 DEF Waits, EndingInv
  <2>. QED
    BY <2>1, <2>2
<1>6. StreamInv'
  BY <1>2, <1>3 DEF Waits, StreamInv
<1>7. WaitInv'
  <2> SUFFICES ASSUME NEW s \in Streams, NEW d \in Calls, Watch(s, d)', ~Informed(s, d)'
               PROVE  Expecting(s, d)'
    BY DEF WaitInv
  <2>1. ~Informed(s, d)
    <3>1. DOMAIN sent[s] = 1..Len(sent[s]) /\ DOMAIN sent'[s] = 1..Len(sent'[s])
      BY SentTyped, SendTypes DEF TypeOK
    <3>. QED
      BY <3>1, SendAppends DEF Informed
  <2>2. stream[s] = "open" /\ Watch(s, d)
    BY <1>2, <1>3 DEF Watch, Alone
  <2>3. Expecting(s, d)
    BY <2>1, <2>2 DEF Waits, WaitInv
  <2>4. CASE d = c
    <3>1. ~emit[e].event.terminal
      <4> SUFFICES ASSUME emit[e].event.terminal PROVE FALSE
        OBVIOUS
      <4>1. SessionOf[s] \in emit[e].to
        BY <1>1, <1>2, <2>3, <2>4 DEF Expecting, SendsEnd
      <4>2. sent'[s] = Append(sent[s], emit[e].event)
        BY <2>2, <4>1 DEF Send
      <4>3. Len(sent[s]) + 1 \in DOMAIN sent'[s] /\ sent'[s][Len(sent[s]) + 1] = emit[e].event
        <5>1. sent[s] \in Seq(Events) /\ emit[e].event \in Events /\ Len(sent[s]) \in Nat
          BY SendTypes, SentTyped DEF TypeOK
        <5>2. DOMAIN sent'[s] = 1..Len(sent'[s])
          BY SendTypes DEF TypeOK
        <5>. QED
          BY <4>2, <5>1, <5>2, AppendFacts
      <4>. QED
        BY <1>4, <2>4, <4>3 DEF Informed
    <3>2. ~SendsEnd(e) /\ ~Unbinding(e)' /\ ~SendsEnd(e)'
      BY <1>2, <3>1 DEF SendsEnd
    <3>3. \A f \in {Handler(c), Forwarder(c)} \ {e} : emit'[f] = emit[f]
      BY <1>2, EmitterFacts
    <3>. QED
      BY <1>1, <1>2, <2>3, <2>4, <3>2, <3>3 DEF Expecting, SendsEnd, Sending, Unbinding
  <2>5. CASE d # c
    <3>1. emit'[Handler(d)] = emit[Handler(d)] /\ emit'[Forwarder(d)] = emit[Forwarder(d)]
      BY <1>1, <1>2, <2>5, EmitterFacts
    <3>. QED
      BY <1>2, <2>3, <3>1 DEF Expecting, SendsEnd, Sending, Unbinding
  <2>. QED
    BY <2>4, <2>5
<1>. QED
  BY <1>5, <1>6, <1>7 DEF Waits

LEMMA EndWaits ==
  ASSUME TypeOK, Waits, NEW e \in Emitters, EndBindings(e)
  PROVE  Waits'
<1>1. PICK c \in Calls : e = Handler(c) \/ e = Forwarder(c)
  BY EmitterFacts
<1>2. /\ UNCHANGED <<stream, sent, call, owed, racing>> /\ Unbinding(e)
      /\ \A f \in Emitters : Unbinding(f)' => Unbinding(f)
  BY DEF EndBindings, TypeOK, Unbinding, Idle
<1>3. EndingInv'
  BY <1>2, EmitterFacts DEF Waits, EndingInv
<1>4. StreamInv'
  BY <1>2 DEF Waits, StreamInv
<1>5. WaitInv'
  <2> SUFFICES ASSUME NEW s \in Streams, NEW d \in Calls, Watch(s, d)', ~Informed(s, d)'
               PROVE  FALSE
    BY DEF WaitInv
  <2>1. Watch(s, d) /\ ~Informed(s, d)
    BY <1>2 DEF Watch, Alone, Informed
  <2>2. Expecting(s, d)
    BY <2>1 DEF Waits, WaitInv
  <2>3. d # c
    BY <1>1, <1>2, <2>2 DEF Expecting
  <2>4. call[c] \notin Waiting
    BY <1>1, <1>2 DEF Waits, EndingInv
  <2>. QED
    BY <2>1, <2>3, <2>4 DEF Watch, Alone, Waiting
<1>. QED
  BY <1>3, <1>4, <1>5 DEF Waits

LEMMA StepWaits ==
  ASSUME TypeOK, FlowInv, Waits, Next
  PROVE  Waits'
<1>1. ASSUME NEW c \in Calls, CallStep(c)
      PROVE  Waits'
  <2>1. CASE Queued(c) \/ AlreadyRunning(c) \/ Busy(c) \/ Abort(c)
    BY <2>1, EventTypes, HandlerWaits
    DEF Queued, AlreadyRunning, Busy, Abort, Handler
  <2>. QED
    BY <1>1, <2>1, BindWaits, StartWaits, DisconnectWaits, ForwardWaits DEF CallStep
<1>. QED
  BY <1>1, StreamWaits, SendWaits, EndWaits DEF Next

-----------------------------------------------------------------------------
(* The theorems.                                                           *)

LEMMA Invariance == Spec => []IInv
<1>1. IInv /\ [Next]_vars => IInv'
  <2> SUFFICES ASSUME IInv, [Next]_vars PROVE IInv'
    OBVIOUS
  <2>1. CASE Next
    <3>1. TypeOK /\ FlowInv /\ Ordered /\ Waits
      BY DEF IInv, Waits
    <3>. QED
      BY <2>1, <3>1, StepTypes, StepFlow, StepWaits DEF IInv, Waits
  <2>2. CASE UNCHANGED vars
    <3>1. TypeOK'
      BY <2>2 DEF vars, IInv, TypeOK
    <3>2. FlowInv' /\ Ordered'
      BY <2>2, FlowUnchanged DEF vars, IInv
    <3>3. EndingInv' /\ StreamInv'
      BY <2>2 DEF vars, IInv, EndingInv, StreamInv, Unbinding
    <3>4. WaitInv'
      BY <2>2 DEF vars, IInv, WaitInv, Watch, Alone, Informed, Expecting, SendsEnd, Sending, Unbinding
    <3>. QED
      BY <3>1, <3>2, <3>3, <3>4 DEF IInv
  <2>. QED
    BY <2>1, <2>2
<1>. QED
  BY <1>1, InitHolds, PTL DEF Spec

\* The hub's tables and the channels hold what their types say.
THEOREM TypeCorrect == Spec => []TypeOK
BY Invariance, PTL DEF IInv

\* Every stream gets the events of a call in order and none after its end, but
\* for a run that ends with an error, whose end may overtake what is in its queue.
THEOREM EventsInOrder == Spec => []Ordered
BY Invariance, PTL DEF IInv

\* When all that a run has emitted which resolved its task has left the hub, each
\* stream that was open when the call was bound, and still is, has been told of
\* the run's end.
THEOREM EndsAreDelivered == Spec => []Delivered
<1>1. IInv => Delivered
  <2> SUFFICES ASSUME IInv, NEW s \in Streams \ racing, NEW c \in Calls,
                      stream[s] = "open", c \in owed[s], Drained(c), Alone(c),
                      ~Informed(s, c)
               PROVE  FALSE
    BY DEF Delivered
  <2>1. Expecting(s, c)
    BY DEF IInv, WaitInv, Watch
  <2>2. Len(queue[c]) = 0
    BY DEF Drained
  <2>3. ~SendsEnd(Handler(c)) /\ ~SendsEnd(Forwarder(c))
    BY DEF Drained, SendsEnd, Sending, Handler, Forwarder, Idle
  <2>. QED
    BY <2>1, <2>2, <2>3 DEF Expecting, Drained
<1>. QED
  BY <1>1, Invariance, PTL
=============================================================================
