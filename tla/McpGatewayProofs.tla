---------------------------- MODULE McpGatewayProofs ----------------------------
(***************************************************************************)
(* Proofs about McpGateway, for all clients, peers and requests and every  *)
(* set of faults.                                                          *)
(***************************************************************************)
EXTENDS McpGateway, WellFoundedInduction, TLAPS

\* A binding of a task that has run was made too late.
LateBindings == \A b \in bound : b[1] \in ran => b[1] \in early

\* What holds when client c was told that task i is queued: until the task has run it
\* is bound to the stream's session or was told of a refusal, and then also of the end.
Followed(c, i) ==
  /\ i \notin ran => <<i, stream[c]>> \in bound \/ <<i, "refused">> \in heard[c]
  /\ i \in ran => i \in early \/ <<i, "ended">> \in heard[c] \/ <<i, "refused">> \in heard[c]

\* So it is unless the cleanup of an earlier stream of the session took the bindings.
QueuedBound ==
  \A c \in Clients : \A i : <<i, "queued">> \in heard[c] =>
    stream[c] # None /\ (c \notin cut => Followed(c, i))

IInv ==
  /\ DOMAIN heard = Clients /\ DOMAIN stream = Clients
  /\ LateBindings /\ QueuedBound

LEMMA InitHolds == Init => IInv
BY DEF Init, IInv, LateBindings, QueuedBound

\* What a stream is told of a task goes to those that are bound to it.
LEMMA ToldStreams ==
  ASSUME NEW fact, NEW what, NEW c \in Clients, NEW e
  PROVE  e \in Told(fact, what)[c] <=>
           \/ e \in heard[c]
           \/ e = <<fact, what>> /\ stream[c] # None /\ <<fact, stream[c]>> \in bound
BY DEF Told

LEMMA ToldDomain == \A fact, what : DOMAIN Told(fact, what) = Clients
BY DEF Told

LEMMA BindKeeps ==
  ASSUME IInv, NEW c \in Clients, Bind(c)
  PROVE  IInv'
<1>1. CASE UNCHANGED <<bound, stream, heard, early, cut, ran>>
  BY <1>1 DEF IInv, LateBindings, QueuedBound, Followed
<1>2. CASE /\ bound' = bound \cup {<<call[c].fact, sid[c]>>}
           /\ early' = IF call[c].fact \in ran THEN early \cup {call[c].fact} ELSE early
           /\ UNCHANGED <<stream, heard, cut, ran>>
  <2>1. LateBindings'
    BY <1>2 DEF IInv, LateBindings
  <2>2. QueuedBound'
    BY <1>2 DEF IInv, QueuedBound, Followed
  <2>. QED
    BY <1>2, <2>1, <2>2 DEF IInv
<1>. QED
  BY <1>1, <1>2 DEF Bind, eventVars, memoryVars

LEMMA EmitKeeps ==
  ASSUME IInv, NEW c \in Clients, EmitQueued(c)
  PROVE  IInv'
<1>1. /\ heard' = Told(call[c].fact, "queued")
      /\ UNCHANGED <<bound, stream, early, cut, ran>>
  BY DEF EmitQueued, memoryVars
<1>2. LateBindings'
  BY <1>1 DEF IInv, LateBindings
<1>3. ASSUME NEW d \in Clients, NEW i, <<i, "queued">> \in heard'[d]
      PROVE  stream'[d] # None /\ (d \notin cut' => Followed(d, i)')
  <2>1. \A e : e \in heard'[d] <=>
          \/ e \in heard[d]
          \/ e = <<call[c].fact, "queued">> /\ stream[d] # None /\ <<call[c].fact, stream[d]>> \in bound
    BY <1>1, ToldStreams
  <2>2. CASE <<i, "queued">> \in heard[d]
    BY <1>1, <2>1, <2>2 DEF IInv, QueuedBound, Followed
  <2>3. CASE i = call[c].fact /\ stream[d] # None /\ <<i, stream[d]>> \in bound
    <3>1. i \in ran => i \in early
      BY <2>3 DEF IInv, LateBindings
    <3>. QED
      BY <1>1, <2>3, <3>1 DEF Followed
  <2>. QED
    BY <1>3, <2>1, <2>2, <2>3
<1>. QED
  BY <1>1, <1>2, <1>3, ToldDomain DEF IInv, QueuedBound

\* The bound streams are told of the end of task i, or of a refusal to run it, and
\* the bindings go.
LEMMA TerminalKeeps ==
  ASSUME IInv, NEW i, NEW what, heard' = Told(i, what), i \notin ran,
         bound' = {b \in bound : b[1] # i},
         UNCHANGED <<stream, early, cut>>,
         \/ what = "ended" /\ ran' = ran \cup {i}
         \/ what = "refused" /\ ran' = ran
  PROVE  IInv'
<1>1. LateBindings'
  BY DEF IInv, LateBindings
<1>2. ASSUME NEW d \in Clients, NEW j, <<j, "queued">> \in heard'[d]
      PROVE  stream'[d] # None /\ (d \notin cut' => Followed(d, j)')
  <2>1. \A e : e \in heard'[d] <=>
          \/ e \in heard[d]
          \/ e = <<i, what>> /\ stream[d] # None /\ <<i, stream[d]>> \in bound
    BY ToldStreams
  <2>2. <<j, "queued">> \in heard[d]
    BY <1>2, <2>1
  <2>3. stream'[d] # None /\ (d \notin cut => Followed(d, j))
    BY <2>2 DEF IInv, QueuedBound
  <2>4. CASE j = i
    BY <2>1, <2>3, <2>4 DEF Followed
  <2>5. CASE j # i
    <3>1. /\ j \in ran' <=> j \in ran
          /\ <<j, stream[d]>> \in bound' <=> <<j, stream[d]>> \in bound
      BY <2>5
    <3>. QED
      BY <2>1, <2>3, <3>1 DEF Followed
  <2>. QED
    BY <2>4, <2>5
<1>. QED
  BY <1>1, <1>2, ToldDomain DEF IInv, QueuedBound

LEMMA OpenKeeps ==
  ASSUME IInv, NEW c \in Clients, OpenStream(c)
  PROVE  IInv'
<1>1. /\ stream[c] = None /\ \A d \in Clients \ {c} : stream'[d] = stream[d]
      /\ DOMAIN stream' = Clients
      /\ UNCHANGED <<bound, heard, early, cut, ran>>
  BY DEF OpenStream, memoryVars, IInv
<1>2. LateBindings'
  BY <1>1 DEF IInv, LateBindings
<1>3. QueuedBound'
  BY <1>1 DEF IInv, QueuedBound, Followed
<1>. QED
  BY <1>1, <1>2, <1>3 DEF IInv

LEMMA CloseKeeps ==
  ASSUME IInv, NEW c \in Clients, CloseStream(c)
  PROVE  IInv'
<1>1. /\ \A d \in Clients \ {c} : stream'[d] = stream[d] /\ heard'[d] = heard[d]
      /\ heard'[c] = {} /\ DOMAIN stream' = Clients /\ DOMAIN heard' = Clients
      /\ cut' = cut \ {c}
      /\ UNCHANGED <<bound, early, ran>>
  BY DEF CloseStream, memoryVars, IInv
<1>2. LateBindings'
  BY <1>1 DEF IInv, LateBindings
<1>3. QueuedBound'
  BY <1>1 DEF IInv, QueuedBound, Followed
<1>. QED
  BY <1>1, <1>2, <1>3 DEF IInv

\* The open streams of the session whose bindings go are recorded.
LEMMA UnbindKeeps ==
  ASSUME IInv, NEW s, Unbind(s)
  PROVE  IInv'
<1>1. /\ bound' = {b \in bound : b[2] # s}
      /\ bound' = bound \/ cut' = cut \cup {c \in Clients : stream[c] = s}
      /\ cut \subseteq cut'
      /\ UNCHANGED <<stream, heard, early, ran>>
  BY DEF Unbind, memoryVars
<1>2. LateBindings'
  BY <1>1 DEF IInv, LateBindings
<1>3. ASSUME NEW d \in Clients, NEW i, <<i, "queued">> \in heard'[d]
      PROVE  stream'[d] # None /\ (d \notin cut' => Followed(d, i)')
  <2>1. stream[d] # None /\ (d \notin cut => Followed(d, i))
    BY <1>1, <1>3 DEF IInv, QueuedBound
  <2>2. CASE bound' = bound
    BY <1>1, <2>1, <2>2 DEF Followed
  <2>3. CASE stream[d] # s
    <3>1. <<i, stream[d]>> \in bound' <=> <<i, stream[d]>> \in bound
      BY <1>1, <2>3
    <3>. QED
      BY <1>1, <2>1, <3>1 DEF Followed
  <2>. QED
    BY <1>1, <2>1, <2>2, <2>3
<1>. QED
  BY <1>1, <1>2, <1>3 DEF IInv, QueuedBound

LEMMA CrashKeeps ==
  ASSUME IInv, Crash
  PROVE  IInv'
BY DEF Crash, memoryVars, IInv, LateBindings, QueuedBound

\* The steps that touch neither streams nor bindings nor runs.
LEMMA OtherSteps ==
  ASSUME [Next]_vars
  PROVE  \/ \E c \in Clients : Bind(c) \/ EmitQueued(c) \/ OpenStream(c) \/ CloseStream(c)
         \/ \E i \in DOMAIN tasks : RunTask(i) \/ StartRefused(i)
         \/ \E s \in cleaning : Unbind(s)
         \/ Crash
         \/ UNCHANGED <<bound, stream, heard, early, cut, ran>>
<1>1. ASSUME NEW c \in Clients, Handle(c)
      PROVE  Bind(c) \/ EmitQueued(c) \/ UNCHANGED <<bound, stream, heard, early, cut, ran>>
  BY <1>1 DEF Handle, Refuse, Initialize, NoBody, ListTools, ForwardTool, OtherTool, Parse, Ingest,
       Resolve, CreateFails, eventVars, memoryVars
<1>2. ASSUME NEW c \in Clients, WriteLine(c) \/ TakeLine(c) \/ Receive(c)
      PROVE  UNCHANGED <<bound, stream, heard, early, cut, ran>>
  BY <1>2 DEF WriteLine, TakeLine, Receive, eventVars, memoryVars
<1>3. CASE Start
  BY <1>3 DEF Start, eventVars, memoryVars
<1>4. CASE UNCHANGED vars
  BY <1>4 DEF vars, eventVars, memoryVars
<1>. QED
  BY <1>1, <1>2, <1>3, <1>4 DEF Next, RunUnresolved

LEMMA Inductive == Spec => []IInv
<1>1. ASSUME IInv, [Next]_vars PROVE IInv'
  <2>1. CASE UNCHANGED <<bound, stream, heard, early, cut, ran>>
    BY <1>1, <2>1 DEF IInv, LateBindings, QueuedBound, Followed
  <2>2. CASE \E c \in Clients : Bind(c) \/ EmitQueued(c) \/ OpenStream(c) \/ CloseStream(c)
    BY <1>1, <2>2, BindKeeps, EmitKeeps, OpenKeeps, CloseKeeps
  <2>3. ASSUME NEW i, RunTask(i) \/ StartRefused(i) PROVE IInv'
    BY <1>1, <2>3, TerminalKeeps DEF RunTask, Due, StartRefused, memoryVars
  <2>4. CASE \E s \in cleaning : Unbind(s)
    BY <1>1, <2>4, UnbindKeeps
  <2>5. CASE Crash
    BY <1>1, <2>5, CrashKeeps
  <2>. QED
    BY <1>1, <2>1, <2>2, <2>3, <2>4, <2>5, OtherSteps
<1>. QED
  BY InitHolds, <1>1, PTL DEF Spec

\* A stream that was told that a task is queued is told of the end of the run that
\* resolves it, or before that of a refusal, unless the task was run before its
\* creator's session was bound or a late cleanup of the session took the bindings.
THEOREM EndsAreHeard == Spec => []EndIsHeard
<1>1. IInv => EndIsHeard
  BY DEF IInv, QueuedBound, Followed, EndIsHeard
<1>. QED
  BY <1>1, Inductive, PTL

-----------------------------------------------------------------------------
(* The task that an answer names.                                          *)

\* A set of positions has a greatest one.
LEMMA MaxIsMember ==
  ASSUME NEW n \in Nat, NEW S \in SUBSET (1..n), S # {}
  PROVE  Max(S) \in S
<1> DEFINE T == {n - x : x \in S}
<1>1. \A x \in S : x \in 1..n /\ n - x \in Nat /\ n - x \in T
  OBVIOUS
<1>2. T \subseteq Nat /\ T # {}
  <2>1. \A y \in T : \E x \in S : y = n - x
    OBVIOUS
  <2>2. PICK x : x \in S
    OBVIOUS
  <2>. QED
    BY <1>1, <2>1, <2>2
<1>3. PICK m \in T : \A y \in T : <<y, m>> \notin OpToRel(<, Nat)
  <2>. HIDE DEF T
  <2>. QED
    BY <1>2, WFMin, NatLessThanWellFounded
<1>4. \A y \in T : ~(y < m)
  <2>. HIDE DEF T
  <2>. QED
    BY <1>2, <1>3 DEF OpToRel
<1>5. PICK x \in S : m = n - x
  OBVIOUS
<1>6. \A y \in S : x >= y
  <2> SUFFICES ASSUME NEW y \in S PROVE x >= y
    OBVIOUS
  <2>1. n - y \in T /\ x \in 1..n /\ y \in 1..n
    BY <1>1
  <2>2. ~(n - y < n - x)
    BY <1>4, <1>5, <2>1
  <2>. HIDE DEF T
  <2>. QED
    BY <2>1, <2>2
<1>. QED
  BY <1>6 DEF Max

Facts == {Fact(c, req) : c \in Clients, req \in UNION {Asks[c] : c \in Clients}}

Named(fact, own) == fact \in DOMAIN tasks /\ (fact = own \/ Ambiguous(fact))

\* What is known of a request at each point of its way.
Underway(c) ==
  /\ call[c].at \in {"sent", "ingest", "resolve"} => call[c].req \in Asks[c]
  /\ call[c].at = "resolve" =>
       call[c].own \in DOMAIN tasks /\ tasks[call[c].own] = Fact(c, call[c].req)
  /\ call[c].at \in {"bind", "emit"} => Named(call[c].fact, call[c].own)
  /\ call[c].at = "reply" /\ call[c].fact # None => Named(call[c].fact, call[c].own)

TaskInv ==
  /\ DOMAIN inbox = Clients
  /\ \A c \in Clients : inbox[c] \in Seq(Asks[c])
  /\ tasks \in Seq(Facts)
  /\ DOMAIN call = Clients
  /\ \A c \in Clients : Underway(c)

\* A request of a client keeps what is known of it while others store tasks.
LEMMA UnderwayStable ==
  ASSUME NEW c \in Clients, Underway(c), call'[c] = call[c],
         DOMAIN tasks \subseteq DOMAIN tasks', \A i \in DOMAIN tasks : tasks'[i] = tasks[i]
  PROVE  Underway(c)'
BY DEF Underway, Named, Ambiguous

LEMMA TaskInit == Init => TaskInv
BY DEF Init, TaskInv, Underway, Idle, Facts

\* Steps after which client c has sent its request, been answered without a
\* task, or is idle, and nobody else is concerned.
LEMMA QuietStep ==
  ASSUME TaskInv, UNCHANGED <<inbox, tasks>>, NEW c \in Clients, NEW r,
         call' = [call EXCEPT ![c] = r],
         r.at \in {"sent", "ingest"} => r.req \in Asks[c],
         r.at \in {"idle", "sent", "ingest", "reply"},
         r.at = "reply" => r.fact = None
  PROVE  TaskInv'
<1>1. DOMAIN call' = Clients /\ call'[c] = r /\ \A d \in Clients \ {c} : call'[d] = call[d]
  BY DEF TaskInv
<1>2. Underway(c)'
  BY <1>1 DEF Underway
<1>3. ASSUME NEW d \in Clients \ {c} PROVE Underway(d)'
  BY <1>1, UnderwayStable DEF TaskInv
<1>. QED
  BY <1>1, <1>2, <1>3 DEF TaskInv

LEMMA IngestKeeps ==
  ASSUME TaskInv, NEW c \in Clients, Ingest(c)
  PROVE  TaskInv'
<1>1. PICK f : f = Fact(c, call[c].req)
  OBVIOUS
<1>2. f \in Facts /\ tasks \in Seq(Facts)
  BY <1>1 DEF Ingest, Creating, TaskInv, Underway, Facts
<1>3. tasks' = Append(tasks, f)
  BY <1>1 DEF Ingest
<1>4. /\ tasks' \in Seq(Facts) /\ DOMAIN tasks \subseteq DOMAIN tasks'
      /\ Len(tasks) + 1 \in DOMAIN tasks' /\ tasks'[Len(tasks) + 1] = f
      /\ \A i \in DOMAIN tasks : tasks'[i] = tasks[i]
  BY <1>2, <1>3
<1>5. inbox' = inbox /\ DOMAIN call' = Clients /\ \A d \in Clients \ {c} : call'[d] = call[d]
  BY DEF Ingest, Respond, TaskInv, clientVars
<1>6. Underway(c)'
  <2>1. CASE call'[c] = [at |-> "resolve", req |-> call[c].req, own |-> Len(tasks) + 1]
    BY <1>1, <1>4, <2>1 DEF Underway, Ingest, Creating, TaskInv
  <2>2. CASE call'[c] = Plain(c)
    BY <2>2 DEF Underway, Plain, Response
  <2>. QED
    BY <2>1, <2>2 DEF Ingest, Respond, TaskInv
<1>7. ASSUME NEW d \in Clients \ {c} PROVE Underway(d)'
  BY <1>4, <1>5, UnderwayStable DEF TaskInv
<1>. QED
  BY <1>4, <1>5, <1>6, <1>7 DEF TaskInv

LEMMA ResolveKeeps ==
  ASSUME TaskInv, NEW c \in Clients, Resolve(c)
  PROVE  TaskInv'
<1> DEFINE S == Matching(call[c].req)
<1>1. /\ call[c].own \in DOMAIN tasks /\ tasks[call[c].own] = Fact(c, call[c].req)
      /\ DOMAIN tasks = 1..Len(tasks) /\ Len(tasks) \in Nat
  BY DEF Resolve, Creating, TaskInv, Underway
<1>2. call[c].own \in S /\ S \in SUBSET (1..Len(tasks))
  BY <1>1 DEF Matching, Fact
<1>3. Max(S) \in S
  <2>. HIDE DEF S
  <2>. QED
    BY <1>1, <1>2, MaxIsMember
<1>4. Named(Max(S), call[c].own)
  BY <1>1, <1>2, <1>3 DEF Named, Ambiguous, Matching
<1>5. /\ inbox' = inbox /\ tasks' = tasks /\ DOMAIN call' = Clients
      /\ \A d \in Clients \ {c} : call'[d] = call[d]
      /\ call'[c] = [at |-> "bind", own |-> call[c].own, fact |-> Max(S)]
  BY DEF Resolve, TaskInv, clientVars, memoryVars
<1>6. Underway(c)'
  <2>. HIDE DEF S
  <2>. QED
    BY <1>4, <1>5 DEF Underway, Named, Ambiguous
<1>7. ASSUME NEW d \in Clients \ {c} PROVE Underway(d)'
  BY <1>5, UnderwayStable DEF TaskInv
<1>. QED
  BY <1>5, <1>6, <1>7 DEF TaskInv

\* Bind and EmitQueued carry the task on, or answer with it.
LEMMA CarryOn ==
  ASSUME TaskInv, NEW c \in Clients, call[c].at \in {"bind", "emit"},
         UNCHANGED <<inbox, tasks>>, Respond(c, Created(c)) \/ Goto(c, "emit")
  PROVE  TaskInv'
<1>1. Named(call[c].fact, call[c].own)
  BY DEF TaskInv, Underway
<1>2. /\ DOMAIN call' = Clients /\ \A d \in Clients \ {c} : call'[d] = call[d]
      /\ call'[c].at \in {"emit", "reply"}
      /\ call'[c].own = call[c].own /\ call'[c].fact = call[c].fact
  <2>1. CASE Respond(c, Created(c))
    BY <2>1 DEF Respond, Created, Response, TaskInv
  <2>2. CASE Goto(c, "emit")
    BY <2>2 DEF Goto, TaskInv
  <2>. QED
    BY <2>1, <2>2
<1>3. Underway(c)'
  BY <1>1, <1>2 DEF Underway, Named, Ambiguous
<1>4. ASSUME NEW d \in Clients \ {c} PROVE Underway(d)'
  BY <1>2, UnderwayStable DEF TaskInv
<1>. QED
  BY <1>2, <1>3, <1>4 DEF TaskInv

LEMMA QueueOf ==
  ASSUME NEW S, NEW q \in Seq(S)
  PROVE  /\ \A x \in S : Append(q, x) \in Seq(S)
         /\ q # <<>> => Head(q) \in S /\ Tail(q) \in Seq(S)
OBVIOUS

\* The lines that wait for a proxy are requests of its CLI.
LEMMA LinesKeep ==
  ASSUME TaskInv, NEW c \in Clients, WriteLine(c) \/ TakeLine(c)
  PROVE  TaskInv'
<1>1. inbox[c] \in Seq(Asks[c])
  BY DEF TaskInv
<1>2. CASE WriteLine(c)
  <2>1. PICK req \in Asks[c] : inbox' = [inbox EXCEPT ![c] = Append(@, req)]
    BY <1>2 DEF WriteLine
  <2>2. \A d \in Clients : inbox'[d] \in Seq(Asks[d])
    <3>1. Append(inbox[c], req) \in Seq(Asks[c])
      BY <1>1, QueueOf
    <3>. QED
      BY <2>1, <3>1 DEF TaskInv
  <2>3. DOMAIN inbox' = Clients /\ UNCHANGED <<call, tasks>>
    BY <1>2, <2>1 DEF WriteLine, memoryVars, TaskInv
  <2>4. \A d \in Clients : Underway(d)'
    BY <2>3, UnderwayStable DEF TaskInv
  <2>. QED
    BY <2>1, <2>2, <2>3, <2>4 DEF TaskInv
<1>3. CASE TakeLine(c)
  <2>1. inbox' = [inbox EXCEPT ![c] = Tail(@)] /\ inbox[c] # <<>> /\ tasks' = tasks
    BY <1>3 DEF TakeLine, memoryVars
  <2>2. Head(inbox[c]) \in Asks[c] /\ Tail(inbox[c]) \in Seq(Asks[c])
    BY <1>1, <2>1, QueueOf
  <2>3. DOMAIN inbox' = Clients /\ \A d \in Clients : inbox'[d] \in Seq(Asks[d])
    <3>1. PICK q \in Seq(Asks[c]) : q = Tail(inbox[c])
      BY <2>2
    <3>2. inbox' = [inbox EXCEPT ![c] = q]
      BY <2>1, <3>1, Zenon
    <3>. QED
      BY <3>2 DEF TaskInv
  <2>4. /\ DOMAIN call' = Clients /\ \A d \in Clients \ {c} : call'[d] = call[d]
        /\ call'[c] = call[c] \/ call'[c] = [at |-> "sent", req |-> Head(inbox[c])]
    BY <1>3 DEF TakeLine, TaskInv
  <2>5. Underway(c)'
    BY <2>1, <2>2, <2>4, UnderwayStable DEF Underway, TaskInv
  <2>6. ASSUME NEW d \in Clients \ {c} PROVE Underway(d)'
    BY <2>1, <2>4, UnderwayStable DEF TaskInv
  <2>. QED
    BY <2>1, <2>3, <2>4, <2>5, <2>6 DEF TaskInv
<1>. QED
  BY <1>2, <1>3

\* A request is answered without a task, given up or passed on.
LEMMA AnswerKeeps ==
  ASSUME TaskInv, NEW c \in Clients,
         \/ Receive(c) \/ Refuse(c) \/ Initialize(c) \/ NoBody(c) \/ ListTools(c)
         \/ ForwardTool(c) \/ OtherTool(c) \/ Parse(c) \/ CreateFails(c)
  PROVE  TaskInv'
<1>1. UNCHANGED <<inbox, tasks>>
  BY DEF Receive, Refuse, Initialize, NoBody, ListTools, ForwardTool, OtherTool, Parse, CreateFails,
       clientVars, memoryVars
<1>2. CASE Receive(c)
  BY <1>1, <1>2, QuietStep DEF Receive, Idle
<1>3. CASE Refuse(c) \/ NoBody(c)
  BY <1>1, <1>3, QuietStep DEF Refuse, NoBody, Respond, NoResponse, Response
<1>4. CASE ListTools(c) \/ ForwardTool(c) \/ OtherTool(c) \/ CreateFails(c)
  BY <1>1, <1>4, QuietStep DEF ListTools, ForwardTool, OtherTool, CreateFails, Respond, Plain, Response
<1>5. CASE Initialize(c)
  BY <1>1, <1>5, QuietStep DEF Initialize, Respond, Response
<1>6. CASE Parse(c)
  <2>1. call[c].at = "sent" /\ call[c].req \in Asks[c]
    BY <1>6 DEF Parse, Calling, Serving, TaskInv, Underway
  <2>2. CASE Goto(c, "ingest")
    <3>1. PICK r : r = [call[c] EXCEPT !.at = "ingest"]
      OBVIOUS
    <3>2. call' = [call EXCEPT ![c] = r]
      BY <2>2, <3>1 DEF Goto
    <3>3. r.at = "ingest" /\ r.req = call[c].req
      BY <2>1, <3>1 DEF TaskInv
    <3>. QED
      BY <1>1, <2>1, <3>2, <3>3, QuietStep
  <2>3. CASE Respond(c, Plain(c))
    BY <1>1, <2>3, QuietStep DEF Respond, Plain, Response
  <2>. QED
    BY <1>6, <2>2, <2>3 DEF Parse
<1>. QED
  BY <1>2, <1>3, <1>4, <1>5, <1>6

\* After a crash, what had not reached the daemon is there still.
LEMMA TaskCrash ==
  ASSUME TaskInv, Crash
  PROVE  TaskInv'
<1>1. UNCHANGED <<inbox, tasks>> /\ DOMAIN call' = Clients
  BY DEF Crash, clientVars, memoryVars
<1>2. ASSUME NEW d \in Clients PROVE Underway(d)'
  <2>1. CASE call'[d] = call[d]
    BY <1>1, <2>1, UnderwayStable DEF TaskInv
  <2>2. CASE call'[d] = NoResponse
    BY <2>2 DEF Underway, NoResponse, Response
  <2>. QED
    BY <2>1, <2>2 DEF Crash
<1>. QED
  BY <1>1, <1>2 DEF TaskInv

LEMMA TaskStep ==
  ASSUME TaskInv, [Next]_vars
  PROVE  TaskInv'
<1>1. CASE UNCHANGED <<inbox, call, tasks>>
  BY <1>1, UnderwayStable DEF TaskInv
<1>2. CASE UNCHANGED vars
  BY <1>1, <1>2 DEF vars, clientVars, memoryVars
<1>3. ASSUME NEW c \in Clients, WriteLine(c) \/ TakeLine(c) PROVE TaskInv'
  BY <1>3, LinesKeep
<1>4. ASSUME NEW c \in Clients, Handle(c) PROVE TaskInv'
  <2>1. CASE Ingest(c) \/ Resolve(c)
    BY <2>1, IngestKeeps, ResolveKeeps
  <2>2. CASE Bind(c) \/ EmitQueued(c)
    BY <2>2, CarryOn DEF Bind, EmitQueued, Creating, clientVars, memoryVars
  <2>. QED
    BY <1>4, <2>1, <2>2, AnswerKeeps DEF Handle
<1>5. ASSUME NEW c \in Clients, Receive(c) PROVE TaskInv'
  BY <1>5, AnswerKeeps
<1>6. ASSUME NEW c \in Clients, OpenStream(c) \/ CloseStream(c) PROVE TaskInv'
  BY <1>1, <1>6 DEF OpenStream, CloseStream, clientVars, memoryVars
<1>7. ASSUME NEW x, RunTask(x) \/ StartRefused(x) \/ Unbind(x) PROVE TaskInv'
  BY <1>1, <1>7 DEF RunTask, StartRefused, Unbind, clientVars, memoryVars
<1>8. CASE Start
  BY <1>1, <1>8 DEF Start, clientVars, memoryVars
<1>9. CASE Crash
  BY <1>9, TaskCrash
<1>. QED
  BY <1>2, <1>3, <1>4, <1>5, <1>6, <1>7, <1>8, <1>9 DEF Next, RunUnresolved

\* The task that an answer names is the one its request stored, whatever comes
\* between, unless the task's id was used twice.
THEOREM AnswersNameOwnTask == Spec => []OwnTask
<1>1. TaskInv => OwnTask
  BY DEF TaskInv, Underway, Named, OwnTask
<1>. QED
  BY TaskInit, TaskStep, <1>1, PTL DEF Spec

-----------------------------------------------------------------------------
(* Whose events a stream gets.  A session that was never used after a       *)
(* restart has one user in this start of the daemon: the client to which    *)
(* its number was given, from the answer that carries it on.                *)

Holds(c, s) ==
  \/ sid[c] = s /\ issued[c] = starts
  \/ stream[c] = s
  \/ call[c].at = "reply" /\ call[c].header = s /\ call[c].start = starts

\* Client c has stored the task, or its id was used twice.
By(i, c) == i \in DOMAIN tasks /\ (tasks[i].by = c \/ Ambiguous(i))

SessionTypes ==
  /\ starts \in Nat \ {0} /\ counter \in Nat
  /\ DOMAIN sid = Clients /\ DOMAIN issued = Clients
  /\ DOMAIN heard = Clients /\ DOMAIN stream = Clients
  /\ \A c \in Clients :
       /\ sid[c] \in Nat \cup {None, NoSession} /\ issued[c] \in 0..starts
       /\ sid[c] \in Nat => issued[c] # 0
       /\ stream[c] = None => heard[c] = {}

\* An answer brings a new session of this start, or repeats the client's own.
AnswerInv ==
  \A c \in Clients : call[c].at = "reply" =>
    \/ call[c].start = None /\ call[c].header \in {None, Or(sid[c], NoSession)}
    \/ call[c].start = starts /\ call[c].header \in Nat

DownInv ==
  ~up => /\ bound = {}
         /\ \A c \in Clients : stream[c] = None /\ (call[c].at = "reply" => call[c].start = None)

CreatorInv == \A c \in Clients : call[c].at \in {"bind", "emit"} => By(call[c].fact, c)

OneHolder == \A s \in Nat \ reused : \A c, d \in Clients : Holds(c, s) /\ Holds(d, s) => c = d
InRange == up => \A s \in Nat \ reused : \A c \in Clients : Holds(c, s) => s <= counter
BoundInv ==
  \A b \in bound :
    /\ b[2] \in Nat
    /\ b[2] \notin reused => b[2] <= counter /\ \A c \in Clients : Holds(c, b[2]) => By(b[1], c)

HeardInv == \A c \in Clients : stream[c] \notin reused => \A e \in heard[c] : By(e[1], c)

TableInv == OneHolder /\ InRange /\ BoundInv
SessionInv == SessionTypes /\ AnswerInv /\ DownInv /\ CreatorInv /\ TableInv /\ HeardInv

LEMMA NotNumbers == None \notin Nat /\ NoSession \notin Nat /\ \A c \in Clients : c \notin Nat
BY GatewayAssumption DEF GatewayAssumption

LEMMA SessionInit == Init => SessionInv
BY NotNumbers
DEF Init, SessionInv, SessionTypes, AnswerInv, DownInv, CreatorInv, TableInv, OneHolder, InRange,
    BoundInv, HeardInv, Holds, Idle

\* Tasks are only ever added.
LEMMA TasksGrow ==
  ASSUME TaskInv, [Next]_vars
  PROVE  DOMAIN tasks \subseteq DOMAIN tasks' /\ \A i \in DOMAIN tasks : tasks'[i] = tasks[i]
<1>1. CASE tasks' = tasks
  BY <1>1
<1>2. ASSUME NEW c \in Clients, Ingest(c)
      PROVE  DOMAIN tasks \subseteq DOMAIN tasks' /\ \A i \in DOMAIN tasks : tasks'[i] = tasks[i]
  <2>1. PICK f : f = Fact(c, call[c].req)
    OBVIOUS
  <2>2. f \in Facts /\ tasks \in Seq(Facts)
    BY <1>2, <2>1 DEF Ingest, Creating, TaskInv, Underway, Facts
  <2>3. tasks' = Append(tasks, f)
    BY <1>2, <2>1 DEF Ingest
  <2>. QED
    BY <2>2, <2>3
<1>3. ASSUME NEW c \in Clients, Handle(c)  PROVE tasks' = tasks \/ Ingest(c)
  BY <1>3 DEF Handle, Refuse, Initialize, NoBody, ListTools, ForwardTool, OtherTool, Parse, Resolve,
       CreateFails, Bind, EmitQueued, memoryVars
<1>4. ASSUME NEW c \in Clients, \/ WriteLine(c) \/ TakeLine(c) \/ Receive(c)
                              \/ OpenStream(c) \/ CloseStream(c)
      PROVE  tasks' = tasks
  BY <1>4 DEF WriteLine, TakeLine, Receive, OpenStream, CloseStream, memoryVars
<1>5. CASE Start \/ Crash \/ UNCHANGED vars
  BY <1>1, <1>5 DEF Start, Crash, vars, memoryVars
<1>6. ASSUME NEW x, RunTask(x) \/ StartRefused(x) \/ Unbind(x) PROVE tasks' = tasks
  BY <1>6 DEF RunTask, StartRefused, Unbind, memoryVars
<1>. QED
  BY <1>1, <1>2, <1>3, <1>4, <1>5, <1>6 DEF Next, RunUnresolved

LEMMA ByStable ==
  ASSUME DOMAIN tasks \subseteq DOMAIN tasks', \A i \in DOMAIN tasks : tasks'[i] = tasks[i],
         NEW i, NEW c, By(i, c)
  PROVE  By(i, c)'
BY DEF By, Ambiguous

\* The tables stay right while no number is given out and no task bound.
LEMMA FewerHolders ==
  ASSUME TableInv, reused \subseteq reused', bound' \subseteq bound,
         UNCHANGED counter, up' => up,
         DOMAIN tasks \subseteq DOMAIN tasks', \A i \in DOMAIN tasks : tasks'[i] = tasks[i],
         \A c \in Clients, s \in Nat \ reused' : Holds(c, s)' => Holds(c, s)
  PROVE  TableInv'
<1>1. OneHolder'
  BY DEF TableInv, OneHolder
<1>2. InRange'
  BY DEF TableInv, InRange
<1>3. BoundInv'
  BY ByStable DEF TableInv, BoundInv
<1>. QED
  BY <1>1, <1>2, <1>3 DEF TableInv

\* A new answer of client c that repeats its session, or none.
LEMMA PlainAnswers ==
  ASSUME TaskInv, SessionInv, NEW c \in Clients, NEW r, call' = [call EXCEPT ![c] = r],
         r.at = "reply" => r.start = None /\ r.header \in {None, Or(sid[c], NoSession)},
         r.at \in {"bind", "emit"} => By(r.fact, c)',
         UNCHANGED <<sid, issued, starts, up, counter, stream, heard, bound, reused>>,
         DOMAIN tasks \subseteq DOMAIN tasks', \A i \in DOMAIN tasks : tasks'[i] = tasks[i]
  PROVE  SessionInv'
<1>1. call'[c] = r /\ \A d \in Clients \ {c} : call'[d] = call[d]
  BY DEF TaskInv
<1>2. \A d \in Clients, s \in Nat : Holds(d, s)' => Holds(d, s)
  BY <1>1, NotNumbers DEF Holds, SessionInv, SessionTypes
<1>3. TableInv'
  BY <1>2, FewerHolders DEF SessionInv
<1>4. AnswerInv' /\ DownInv'
  BY <1>1 DEF SessionInv, AnswerInv, DownInv
<1>5. CreatorInv'
  BY <1>1, ByStable DEF SessionInv, CreatorInv
<1>6. HeardInv'
  BY ByStable DEF SessionInv, HeardInv
<1>. QED
  BY <1>3, <1>4, <1>5, <1>6 DEF SessionInv, SessionTypes

LEMMA PlainHandlers ==
  ASSUME TaskInv, SessionInv, [Next]_vars, NEW c \in Clients,
         \/ Refuse(c) \/ NoBody(c) \/ ListTools(c) \/ ForwardTool(c) \/ OtherTool(c)
         \/ Parse(c) \/ Ingest(c) \/ CreateFails(c)
  PROVE  SessionInv'
<1>1. /\ DOMAIN tasks \subseteq DOMAIN tasks' /\ \A i \in DOMAIN tasks : tasks'[i] = tasks[i]
      /\ UNCHANGED <<sid, issued, starts, up, counter, stream, heard, bound, reused>>
  BY TasksGrow
  DEF Refuse, NoBody, ListTools, ForwardTool, OtherTool, Parse, Ingest, CreateFails, clientVars,
      daemonVars, eventVars
<1>2. CASE Respond(c, NoResponse) \/ Respond(c, Plain(c))
  BY <1>1, <1>2, PlainAnswers DEF Respond, NoResponse, Plain, Response
<1>3. CASE Goto(c, "ingest")
  <2>1. PICK r : r = [call[c] EXCEPT !.at = "ingest"]
    OBVIOUS
  <2>2. call' = [call EXCEPT ![c] = r]
    BY <1>3, <2>1 DEF Goto
  <2>3. r.at = "ingest"
    BY <2>1
  <2>. QED
    BY <1>1, <2>2, <2>3, PlainAnswers
<1>4. CASE call' = [call EXCEPT ![c] =
                      [at |-> "resolve", req |-> call[c].req, own |-> Len(tasks) + 1]]
  BY <1>1, <1>4, PlainAnswers
<1>. QED
  BY <1>2, <1>3, <1>4 DEF Refuse, NoBody, ListTools, ForwardTool, OtherTool, Parse, Ingest, CreateFails

\* The tail of agent_create_task: who is bound and told.
LEMMA ResolveIsBy ==
  ASSUME TaskInv, SessionInv, NEW c \in Clients, Resolve(c)
  PROVE  SessionInv'
<1>1. PICK n : n = Max(Matching(call[c].req))
  OBVIOUS
<1>2. /\ call' = [call EXCEPT ![c] = [at |-> "bind", own |-> call[c].own, fact |-> n]]
      /\ tasks' = tasks
      /\ UNCHANGED <<sid, issued, starts, up, counter, stream, heard, bound, reused>>
  BY <1>1 DEF Resolve, clientVars, daemonVars, eventVars, memoryVars
<1>3. call[c].own \in DOMAIN tasks /\ tasks[call[c].own].by = c
  <2>1. call[c].own \in DOMAIN tasks /\ tasks[call[c].own] = Fact(c, call[c].req)
    BY DEF Resolve, Creating, TaskInv, Underway
  <2>2. Fact(c, call[c].req).by = c
    BY DEF Fact
  <2>. QED
    BY <2>1, <2>2
<1>4. call'[c].at = "bind" /\ call'[c].fact = n /\ call'[c].own = call[c].own
  BY <1>2 DEF TaskInv
<1>5. Named(n, call[c].own)
  <2>1. Underway(c)'
    BY ResolveKeeps DEF TaskInv
  <2>. QED
    BY <1>2, <1>4, <2>1 DEF Underway, Named, Ambiguous
<1>6. By(n, c)'
  BY <1>2, <1>3, <1>5 DEF By, Named, Ambiguous
<1>. QED
  BY <1>2, <1>6, PlainAnswers

\* A client that uses its session in the start that issued it holds it already.
LEMMA UserHolds ==
  ASSUME SessionInv, NEW c \in Clients, reused' = Reused(c), sid[c] \in Nat
  PROVE  reused \subseteq reused' /\ (sid[c] \notin reused' => Holds(c, sid[c]))
BY DEF Reused, Holds, SessionInv, SessionTypes

LEMMA BindIsBy ==
  ASSUME TaskInv, SessionInv, NEW c \in Clients, Bind(c)
  PROVE  SessionInv'
<1>1. /\ tasks' = tasks /\ call[c].at = "bind" /\ up
      /\ UNCHANGED <<sid, issued, starts, up, counter, stream, heard>>
  BY DEF Bind, Creating, clientVars, daemonVars, memoryVars, eventVars
<1>2. By(call[c].fact, c)
  BY <1>1 DEF SessionInv, CreatorInv
<1>3. CASE Respond(c, Created(c)) /\ UNCHANGED eventVars
  BY <1>1, <1>3, PlainAnswers DEF Respond, Created, Response, eventVars
<1>4. CASE /\ Goto(c, "emit") /\ Session(c) # None
           /\ bound' = bound \cup {<<call[c].fact, sid[c]>>} /\ reused' = Reused(c)
  <2>1. sid[c] \in Nat
    BY <1>4 DEF Session, SessionInv, SessionTypes
  <2>2. reused \subseteq reused' /\ (sid[c] \notin reused' => Holds(c, sid[c]))
    BY <1>4, <2>1, UserHolds
  <2>3. /\ call'[c].at = "emit" /\ call'[c].fact = call[c].fact
        /\ \A d \in Clients \ {c} : call'[d] = call[d]
    BY <1>1, <1>4 DEF Goto, TaskInv
  <2>4. \A d \in Clients, s \in Nat : Holds(d, s)' => Holds(d, s)
    BY <1>1, <2>3 DEF Holds
  <2>5. OneHolder' /\ InRange'
    BY <1>1, <2>2, <2>4 DEF SessionInv, TableInv, OneHolder, InRange
  <2>6. BoundInv'
    <3>1. PICK f, s : f = call[c].fact /\ s = sid[c]
      OBVIOUS
    <3>2. s \in Nat /\ By(f, c) /\ (s \notin reused' => Holds(c, s))
      BY <1>2, <2>1, <2>2, <3>1
    <3>3. s \notin reused' => s <= counter /\ \A d \in Clients : Holds(d, s) => d = c
      BY <1>1, <2>2, <3>2 DEF SessionInv, TableInv, InRange, OneHolder
    <3>4. s \notin reused' => s <= counter' /\ \A d \in Clients : Holds(d, s)' => By(f, d)'
      BY <1>1, <2>4, <3>2, <3>3, ByStable
    <3>5. \A b \in bound : b[2] \in Nat /\ (b[2] \notin reused' =>
            b[2] <= counter' /\ \A d \in Clients : Holds(d, b[2])' => By(b[1], d)')
      BY <1>1, <2>2, <2>4, ByStable DEF SessionInv, TableInv, BoundInv
    <3>6. bound' = bound \cup {<<f, s>>}
      BY <1>4, <3>1
    <3>. QED
      BY <3>2, <3>4, <3>5, <3>6 DEF BoundInv
  <2>7. AnswerInv' /\ DownInv'
    BY <1>1, <2>3 DEF SessionInv, AnswerInv, DownInv
  <2>8. CreatorInv'
    BY <1>1, <2>3, ByStable DEF SessionInv, CreatorInv
  <2>9. HeardInv'
    BY <1>1, <2>2, ByStable DEF SessionInv, HeardInv
  <2>. QED
    BY <1>1, <2>5, <2>6, <2>7, <2>8, <2>9 DEF SessionInv, SessionTypes, TableInv
<1>. QED
  BY <1>3, <1>4 DEF Bind

\* Those who are told of a task are bound to it, and hold its creator's session.
LEMMA ToldAreBy ==
  ASSUME SessionInv, NEW f, NEW what, heard' = Told(f, what),
         UNCHANGED <<stream, reused, tasks>>
  PROVE  /\ HeardInv'
         /\ DOMAIN heard' = Clients
         /\ \A c \in Clients : stream[c] = None => heard'[c] = heard[c]
<1>1. ASSUME NEW c \in Clients, stream[c] \notin reused, NEW e \in heard'[c]
      PROVE  By(e[1], c)
  <2>1. CASE e \in heard[c]
    BY <1>1, <2>1 DEF SessionInv, HeardInv
  <2>2. CASE e = <<f, what>> /\ <<f, stream[c]>> \in bound
    <3>1. Holds(c, stream[c])
      BY DEF Holds
    <3>. QED
      BY <1>1, <2>2, <3>1 DEF SessionInv, TableInv, BoundInv
  <2>. QED
    BY <1>1, <2>1, <2>2, ToldStreams
<1>2. HeardInv'
  BY <1>1 DEF HeardInv, By, Ambiguous
<1>. QED
  BY <1>2, ToldDomain DEF Told

LEMMA EmitIsBy ==
  ASSUME TaskInv, SessionInv, NEW c \in Clients, EmitQueued(c)
  PROVE  SessionInv'
<1>1. /\ heard' = Told(call[c].fact, "queued") /\ tasks' = tasks
      /\ UNCHANGED <<sid, issued, starts, up, counter, stream, bound, reused>>
      /\ call' = [call EXCEPT ![c] = Created(c)]
  BY DEF EmitQueued, Respond, clientVars, daemonVars, memoryVars
<1>2. HeardInv' /\ DOMAIN heard' = Clients /\ \A d \in Clients : stream[d] = None => heard'[d] = heard[d]
  BY <1>1, ToldAreBy
<1>3. /\ \A d \in Clients \ {c} : call'[d] = call[d]
      /\ call'[c].at = "reply" /\ call'[c].start = None /\ call'[c].header = Or(sid[c], NoSession)
  BY <1>1 DEF TaskInv, Created, Response
<1>4. \A d \in Clients, s \in Nat : Holds(d, s)' => Holds(d, s)
  BY <1>1, <1>3, NotNumbers DEF Holds, SessionInv, SessionTypes
<1>5. TableInv'
  BY <1>1, <1>4, FewerHolders DEF SessionInv
<1>6. AnswerInv' /\ DownInv'
  BY <1>1, <1>3 DEF SessionInv, AnswerInv, DownInv
<1>7. CreatorInv'
  BY <1>1, <1>3, ByStable DEF SessionInv, CreatorInv
<1>. QED
  BY <1>1, <1>2, <1>5, <1>6, <1>7 DEF SessionInv, SessionTypes

\* The end of a run and a refusal to run.
LEMMA RunIsBy ==
  ASSUME TaskInv, SessionInv, NEW i, RunTask(i) \/ StartRefused(i)
  PROVE  SessionInv'
<1>1. /\ \E what : heard' = Told(i, what)
      /\ tasks' = tasks /\ bound' \subseteq bound
      /\ UNCHANGED <<sid, issued, starts, up, counter, stream, reused, call>>
  BY DEF RunTask, StartRefused, clientVars, daemonVars, memoryVars
<1>2. HeardInv' /\ DOMAIN heard' = Clients /\ \A d \in Clients : stream[d] = None => heard'[d] = heard[d]
  BY <1>1, ToldAreBy
<1>3. TableInv'
  BY <1>1, FewerHolders DEF SessionInv, Holds
<1>4. AnswerInv' /\ DownInv' /\ CreatorInv'
  BY <1>1, ByStable DEF SessionInv, AnswerInv, DownInv, CreatorInv, By, Ambiguous
<1>. QED
  BY <1>1, <1>2, <1>3, <1>4 DEF SessionInv, SessionTypes

-----------------------------------------------------------------------------
(* Sessions are given out, carried on and used.                            *)

\* initialize gives the next number, which nobody holds.
LEMMA InitializeIsNew ==
  ASSUME TaskInv, SessionInv, NEW c \in Clients, Initialize(c)
  PROVE  SessionInv'
<1>1. /\ counter' = counter + 1 /\ up /\ tasks' = tasks
      /\ UNCHANGED <<sid, issued, starts, up, stream, heard, bound, reused>>
      /\ call' = [call EXCEPT ![c] = Response(counter + 1, starts, None, None)]
  BY DEF Initialize, Serving, Respond, clientVars, eventVars, memoryVars
<1>2. /\ \A d \in Clients \ {c} : call'[d] = call[d]
      /\ call'[c].at = "reply" /\ call'[c].start = starts /\ call'[c].header = counter + 1
  BY <1>1 DEF TaskInv, Response
<1>3. \A d \in Clients, s \in Nat :
        Holds(d, s)' => Holds(d, s) \/ (d = c /\ s = counter + 1)
  BY <1>1, <1>2 DEF Holds
<1>4. counter \in Nat /\ counter + 1 \in Nat /\ ~(counter + 1 <= counter)
  BY DEF SessionInv, SessionTypes
<1>5. counter + 1 \notin reused => \A d \in Clients : ~Holds(d, counter + 1)
  BY <1>1, <1>4 DEF SessionInv, TableInv, InRange
<1>6. OneHolder'
  BY <1>1, <1>3, <1>5 DEF SessionInv, TableInv, OneHolder
<1>7. InRange'
  <2>1. \A s \in Nat \ reused : \A d \in Clients : Holds(d, s) => s <= counter + 1
    BY <1>1, <1>4 DEF SessionInv, TableInv, InRange
  <2>. QED
    BY <1>1, <1>3, <1>4, <2>1 DEF InRange
<1>8. BoundInv'
  <2>1. ASSUME NEW b \in bound, b[2] \notin reused
        PROVE  b[2] <= counter' /\ \A d \in Clients : Holds(d, b[2])' => By(b[1], d)'
    <3>1. b[2] \in Nat /\ b[2] <= counter /\ \A d \in Clients : Holds(d, b[2]) => By(b[1], d)
      BY <2>1 DEF SessionInv, TableInv, BoundInv
    <3>2. b[2] # counter + 1 /\ b[2] <= counter + 1
      BY <1>4, <3>1
    <3>. QED
      BY <1>1, <1>3, <3>1, <3>2 DEF By, Ambiguous
  <2>. QED
    BY <1>1, <2>1 DEF SessionInv, TableInv, BoundInv
<1>9. AnswerInv' /\ DownInv'
  BY <1>1, <1>2, <1>4 DEF SessionInv, AnswerInv, DownInv
<1>10. CreatorInv' /\ HeardInv'
  BY <1>1, <1>2 DEF SessionInv, CreatorInv, HeardInv, By, Ambiguous
<1>. QED
  BY <1>1, <1>4, <1>6, <1>7, <1>8, <1>9, <1>10 DEF SessionInv, SessionTypes, TableInv

\* The client takes over the session that the answer carries.
LEMMA ReceiveTakesOver ==
  ASSUME TaskInv, SessionInv, NEW c \in Clients, Receive(c)
  PROVE  SessionInv'
<1>1. /\ call[c].at = "reply" /\ tasks' = tasks
      /\ UNCHANGED <<starts, up, counter, stream, heard, bound, reused>>
      /\ call' = [call EXCEPT ![c] = Idle]
      /\ sid' = [sid EXCEPT ![c] = Or(call[c].header, @)]
      /\ issued' = [issued EXCEPT ![c] = Or(call[c].start, @)]
  BY DEF Receive, daemonVars, eventVars, memoryVars
<1>2. /\ call'[c].at = "idle"
      /\ \A d \in Clients \ {c} : call'[d] = call[d] /\ sid'[d] = sid[d] /\ issued'[d] = issued[d]
      /\ sid'[c] = Or(call[c].header, sid[c]) /\ issued'[c] = Or(call[c].start, issued[c])
      /\ DOMAIN sid' = Clients /\ DOMAIN issued' = Clients
  BY <1>1 DEF TaskInv, SessionInv, SessionTypes, Idle
<1>3. \/ issued'[c] = issued[c] /\ (sid'[c] = sid[c] \/ sid'[c] = NoSession)
      \/ issued'[c] = starts /\ sid'[c] = call[c].header /\ call[c].start = starts /\ sid'[c] \in Nat
  BY <1>1, <1>2, NotNumbers DEF SessionInv, SessionTypes, AnswerInv, Or
<1>4. \A d \in Clients, s \in Nat : Holds(d, s)' => Holds(d, s)
  <2>1. \A d \in Clients \ {c}, s \in Nat : Holds(d, s)' => Holds(d, s)
    BY <1>1, <1>2 DEF Holds
  <2>2. \A s \in Nat : Holds(c, s)' => Holds(c, s)
    BY <1>1, <1>2, <1>3, NotNumbers DEF Holds
  <2>. QED
    BY <2>1, <2>2
<1>5. TableInv'
  BY <1>1, <1>4, FewerHolders DEF SessionInv
<1>6. AnswerInv' /\ DownInv'
  BY <1>1, <1>2 DEF SessionInv, AnswerInv, DownInv
<1>7. CreatorInv' /\ HeardInv'
  BY <1>1, <1>2 DEF SessionInv, CreatorInv, HeardInv, By, Ambiguous
<1>8. SessionTypes'
  <2>1. sid'[c] \in Nat \cup {None, NoSession} /\ issued'[c] \in 0..starts
        /\ (sid'[c] \in Nat => issued'[c] # 0)
    BY <1>3, NotNumbers DEF SessionInv, SessionTypes
  <2>. QED
    BY <1>1, <1>2, <2>1 DEF SessionInv, SessionTypes
<1>. QED
  BY <1>5, <1>6, <1>7, <1>8 DEF SessionInv

LEMMA OpenHolds ==
  ASSUME TaskInv, SessionInv, NEW c \in Clients, OpenStream(c)
  PROVE  SessionInv'
<1>1. /\ up /\ stream[c] = None /\ tasks' = tasks /\ reused' = Reused(c)
      /\ UNCHANGED <<sid, issued, call, starts, up, counter, heard, bound>>
      /\ stream' = [stream EXCEPT ![c] = Or(sid[c], c)]
  BY DEF OpenStream, clientVars, daemonVars, memoryVars
<1>2. /\ stream'[c] = Or(sid[c], c) /\ DOMAIN stream' = Clients
      /\ \A d \in Clients \ {c} : stream'[d] = stream[d]
  BY <1>1 DEF SessionInv, SessionTypes
<1>3. reused \subseteq reused'
  BY <1>1 DEF Reused
<1>4. \A d \in Clients, s \in Nat \ reused' : Holds(d, s)' => Holds(d, s)
  <2>1. \A d \in Clients \ {c}, s \in Nat : Holds(d, s)' => Holds(d, s)
    BY <1>1, <1>2 DEF Holds
  <2>2. ASSUME NEW s \in Nat, s \notin reused', Holds(c, s)'  PROVE Holds(c, s)
    <3>1. CASE stream'[c] = s
      <4>1. sid[c] = s
        BY <1>2, <2>2, <3>1, NotNumbers DEF Or
      <4>. QED
        BY <1>1, <2>2, <4>1, UserHolds
    <3>2. CASE stream'[c] # s
      BY <1>1, <2>2, <3>2 DEF Holds
    <3>. QED
      BY <3>1, <3>2
  <2>. QED
    BY <2>1, <2>2
<1>5. TableInv'
  BY <1>1, <1>3, <1>4, FewerHolders DEF SessionInv
<1>6. AnswerInv' /\ DownInv' /\ CreatorInv'
  BY <1>1 DEF SessionInv, AnswerInv, DownInv, CreatorInv, By, Ambiguous
<1>7. heard[c] = {}
  BY <1>1 DEF SessionInv, SessionTypes
<1>8. HeardInv'
  BY <1>1, <1>2, <1>3, <1>7 DEF SessionInv, HeardInv, By, Ambiguous
<1>9. SessionTypes'
  BY <1>1, <1>2, <1>7 DEF SessionInv, SessionTypes
<1>. QED
  BY <1>5, <1>6, <1>8, <1>9 DEF SessionInv

LEMMA CloseLetsGo ==
  ASSUME TaskInv, SessionInv, NEW c \in Clients, CloseStream(c)
  PROVE  SessionInv'
<1>1. /\ tasks' = tasks /\ bound' \subseteq bound
      /\ UNCHANGED <<sid, issued, call, starts, up, counter, reused>>
      /\ stream' = [stream EXCEPT ![c] = None] /\ heard' = [heard EXCEPT ![c] = {}]
  BY DEF CloseStream, clientVars, daemonVars, memoryVars
<1>2. /\ stream'[c] = None /\ heard'[c] = {} /\ DOMAIN stream' = Clients /\ DOMAIN heard' = Clients
      /\ \A d \in Clients \ {c} : stream'[d] = stream[d] /\ heard'[d] = heard[d]
  BY <1>1 DEF SessionInv, SessionTypes
<1>3. \A d \in Clients, s \in Nat : Holds(d, s)' => Holds(d, s)
  BY <1>1, <1>2, NotNumbers DEF Holds
<1>4. TableInv'
  BY <1>1, <1>3, FewerHolders DEF SessionInv
<1>5. AnswerInv' /\ CreatorInv'
  BY <1>1 DEF SessionInv, AnswerInv, CreatorInv, By, Ambiguous
<1>6. DownInv' /\ HeardInv' /\ SessionTypes'
  BY <1>1, <1>2 DEF SessionInv, DownInv, HeardInv, SessionTypes, By, Ambiguous
<1>. QED
  BY <1>4, <1>5, <1>6 DEF SessionInv

\* The second half of a cleanup only removes bindings.
LEMMA UnbindLetsGo ==
  ASSUME TaskInv, SessionInv, NEW s, Unbind(s)
  PROVE  SessionInv'
<1>1. /\ tasks' = tasks /\ bound' \subseteq bound
      /\ UNCHANGED <<sid, issued, starts, up, counter, stream, heard, reused, call>>
  BY DEF Unbind, clientVars, daemonVars, memoryVars
<1>2. TableInv'
  BY <1>1, FewerHolders DEF SessionInv, Holds
<1>3. AnswerInv' /\ DownInv' /\ CreatorInv' /\ HeardInv'
  BY <1>1, ByStable DEF SessionInv, AnswerInv, DownInv, CreatorInv, HeardInv, By, Ambiguous
<1>. QED
  BY <1>1, <1>2, <1>3 DEF SessionInv, SessionTypes

\* A proxy reads or takes a line: no session is concerned.
LEMMA LinesConcernNone ==
  ASSUME TaskInv, SessionInv, NEW c \in Clients, WriteLine(c) \/ TakeLine(c)
  PROVE  SessionInv'
<1>1. /\ tasks' = tasks
      /\ UNCHANGED <<sid, issued, starts, up, counter, stream, heard, bound, reused>>
  BY DEF WriteLine, TakeLine, clientVars, daemonVars, eventVars, memoryVars
<1>2. CASE call' = call
  BY <1>1, <1>2
  DEF SessionInv, SessionTypes, AnswerInv, DownInv, CreatorInv, TableInv, OneHolder, InRange,
      BoundInv, HeardInv, Holds, By, Ambiguous
<1>3. CASE call' = [call EXCEPT ![c] = [at |-> "sent", req |-> Head(inbox[c])]]
  BY <1>1, <1>3, PlainAnswers
<1>. QED
  BY <1>2, <1>3 DEF WriteLine, TakeLine

\* After a crash nobody is bound, told or answered, and the next start gives
\* out numbers of which nobody holds one.
LEMMA CrashLetsGo ==
  ASSUME TaskInv, SessionInv, Crash
  PROVE  SessionInv'
<1>1. /\ tasks' = tasks /\ ~up' /\ counter' = 0 /\ bound' = {}
      /\ UNCHANGED <<sid, issued, starts, reused>>
      /\ DOMAIN stream' = Clients /\ DOMAIN heard' = Clients
      /\ \A c \in Clients : stream'[c] = None /\ heard'[c] = {}
  BY DEF Crash, clientVars, memoryVars
<1>2. \A c \in Clients : call'[c] = NoResponse \/ (call'[c] = call[c] /\ call[c].at # "reply"
                            /\ call[c].at \notin {"bind", "emit"})
  BY DEF Crash
<1>3. NoResponse.at = "reply" /\ NoResponse.start = None /\ NoResponse.header = None
  BY DEF NoResponse, Response
<1>4. \A d \in Clients, s \in Nat : Holds(d, s)' => Holds(d, s)
  BY <1>1, <1>2, <1>3, NotNumbers DEF Holds, SessionInv, SessionTypes
<1>5. TableInv'
  BY <1>1, <1>4 DEF SessionInv, TableInv, OneHolder, InRange, BoundInv
<1>6. AnswerInv' /\ DownInv' /\ CreatorInv' /\ HeardInv'
  BY <1>1, <1>2, <1>3 DEF AnswerInv, DownInv, CreatorInv, HeardInv
<1>. QED
  BY <1>1, <1>5, <1>6 DEF SessionInv, SessionTypes

LEMMA StartIsFresh ==
  ASSUME TaskInv, SessionInv, Start
  PROVE  SessionInv'
<1>1. /\ ~up /\ starts' = starts + 1 /\ tasks' = tasks
      /\ UNCHANGED <<sid, issued, call, counter, stream, heard, bound, reused>>
  BY DEF Start, clientVars, eventVars, memoryVars
<1>2. /\ bound = {} /\ starts + 1 \in Nat \ {0}
      /\ \A c \in Clients : /\ stream[c] = None /\ (call[c].at = "reply" => call[c].start = None)
                            /\ issued[c] \in 0..starts' /\ issued[c] # starts + 1
  BY <1>1 DEF SessionInv, SessionTypes, DownInv
<1>3. \A d \in Clients, s \in Nat : ~Holds(d, s)'
  BY <1>1, <1>2, NotNumbers DEF Holds
<1>4. TableInv'
  BY <1>1, <1>2, <1>3 DEF TableInv, OneHolder, InRange, BoundInv
<1>5. AnswerInv'
  BY <1>1, <1>2, NotNumbers DEF SessionInv, AnswerInv, SessionTypes
<1>6. DownInv' /\ CreatorInv' /\ HeardInv'
  BY <1>1, <1>2 DEF SessionInv, DownInv, CreatorInv, HeardInv, By, Ambiguous
<1>. QED
  BY <1>1, <1>2, <1>4, <1>5, <1>6 DEF SessionInv, SessionTypes

LEMMA SessionStep ==
  ASSUME TaskInv, SessionInv, [Next]_vars
  PROVE  SessionInv'
<1>1. ASSUME NEW c \in Clients, Handle(c)  PROVE SessionInv'
  BY <1>1, PlainHandlers, InitializeIsNew, ResolveIsBy, BindIsBy, EmitIsBy DEF Handle
<1>2. ASSUME NEW c \in Clients, WriteLine(c) \/ TakeLine(c)  PROVE SessionInv'
  BY <1>2, LinesConcernNone
<1>3. ASSUME NEW c \in Clients, Receive(c) \/ OpenStream(c) \/ CloseStream(c)  PROVE SessionInv'
  BY <1>3, ReceiveTakesOver, OpenHolds, CloseLetsGo
<1>4. CASE UNCHANGED vars
  BY <1>4
  DEF vars, clientVars, daemonVars, eventVars, memoryVars, SessionInv, SessionTypes, AnswerInv,
      DownInv, CreatorInv, TableInv, OneHolder, InRange, BoundInv, HeardInv, Holds, By, Ambiguous
<1>. QED
  BY <1>1, <1>2, <1>3, <1>4, RunIsBy, UnbindLetsGo, CrashLetsGo, StartIsFresh
  DEF Next, RunUnresolved

\* A client whose stream is told of a task has stored it, or the task's id was
\* used twice, but for sessions that were used in a later start of the daemon.
THEOREM EventsArePrivate == Spec => []EventsPrivate
<1>1. SessionInv => EventsPrivate
  BY DEF SessionInv, HeardInv, By, EventsPrivate
<1>. QED
  BY TaskInit, TaskStep, SessionInit, SessionStep, <1>1, PTL DEF Spec
=============================================================================
