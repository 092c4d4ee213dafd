------------------------- MODULE TaskDispatchProofs -------------------------
(***************************************************************************)
(* Proofs about TaskDispatch, for every set of tasks, agents and calls and *)
(* every limit.  TypeOK is inductive by itself.  The two accounting        *)
(* invariants are inductive over it: what each table holds is stated in    *)
(* terms of where every call stands, so that a step that moves one call    *)
(* changes both sides alike.  Mutual exclusion follows from them.          *)
(***************************************************************************)
EXTENDS TaskDispatch, FiniteSetTheorems, SequenceTheorems, TLAPS

-----------------------------------------------------------------------------
(* Types.                                                                  *)

\* The initial state is typed.
LEMMA InitType == Init => TypeOK
  BY DispatchAssumption, EmptySeq
  DEF Init, TypeOK, DispatchAssumption, CallPc

\* What Begin, Goto and End do to the calls keeps their types.
CallsTyped ==
  /\ pc \in [Calls -> CallPc]
  /\ task \in [Calls -> Tasks \cup {NoTask}]
  /\ agent \in [Calls -> Agents]
  /\ \A c \in Calls : pc[c] # "idle" => task[c] \in Tasks

\* A call that begins has a typed point, task and agent.
LEMMA BeginTyped ==
  ASSUME CallsTyped, NEW c \in Calls, NEW t \in Tasks, NEW a \in Agents,
         NEW at \in CallPc, Begin(c, t, a, at)
  PROVE  CallsTyped'
  BY DEF CallsTyped, Begin, CallPc

\* So has a call that moves on.
LEMMA GotoTyped ==
  ASSUME CallsTyped, NEW c \in Calls, NEW from \in CallPc \ {"idle"},
         NEW to \in CallPc, Goto(c, from, to)
  PROVE  CallsTyped'
  BY DEF CallsTyped, Goto, CallPc

\* So has a call that ends.
LEMMA EndTyped ==
  ASSUME CallsTyped, NEW c \in Calls, End(c)
  PROVE  CallsTyped'
  BY DispatchAssumption DEF CallsTyped, End, CallPc, DispatchAssumption

\* A step that leaves the calls alone keeps their types.
LEMMA UnchangedTyped ==
  ASSUME CallsTyped, UNCHANGED callVars
  PROVE  CallsTyped'
  BY DEF CallsTyped, callVars

\* The tracker stays a set of tasks and a sequence of tasks.
LEMMA ClaimTyped ==
  ASSUME TypeOK, NEW t \in Tasks, Claim(t)
  PROVE  seen' \subseteq Tasks /\ order' \in Seq(Tasks)
<1>1. Len(order) >= TrackerCapacity => order # <<>>
  BY DispatchAssumption, EmptySeq DEF DispatchAssumption
<1>2. Len(order) >= TrackerCapacity => Tail(order) \in Seq(Tasks)
  BY <1>1, HeadTailProperties DEF TypeOK
<1>3. order' \in Seq(Tasks)
  BY <1>2, AppendProperties DEF Claim, TypeOK
<1> QED
  BY <1>3 DEF Claim, TypeOK

\* The poll loop moves on to the rest of its batch, or to sleep.
LEMMA PollNextTyped ==
  ASSUME TypeOK, batch # <<>>, PollNext
  PROVE  /\ batch' \in Seq(Tasks)
         /\ pollPc' \in {"sleep", "check", "claim"}
         /\ pollPc' # "sleep" => batch' # <<>>
<1>1. Tail(batch) \in Seq(Tasks) /\ Len(Tail(batch)) = Len(batch) - 1
  BY HeadTailProperties DEF TypeOK
<1>2. Len(batch) \in Nat
  BY LenProperties DEF TypeOK
<1>3. Len(batch) # 1 => Tail(batch) # <<>>
  <2>1. Len(<<>>) = 0
    OBVIOUS
  <2>2. Tail(batch) = <<>> => Len(Tail(batch)) = 0
    BY <2>1
  <2> QED
    BY <1>1, <1>2, <2>2
<1> QED
  BY <1>1, <1>3 DEF PollNext

\* A batch the poll loop reads is a sequence of tasks.
LEMMA BatchTyped ==
  ASSUME TypeOK, PollQuery
  PROVE  batch' \in Seq(Tasks) /\ batch' # <<>>
<1> DEFINE n == IF Len(stored) < PollLimit THEN Len(stored) ELSE PollLimit
<1>1. Len(stored) \in Nat /\ n \in Nat /\ n > 0 /\ n <= Len(stored)
  BY LenProperties, DispatchAssumption DEF TypeOK, PollQuery, DispatchAssumption
<1>2. \A i \in 1..n : stored[Len(stored) + 1 - i] \in Tasks
  <2> SUFFICES ASSUME NEW i \in 1..n PROVE stored[Len(stored) + 1 - i] \in Tasks
    OBVIOUS
  <2>1. Len(stored) + 1 - i \in 1..Len(stored)
    BY <1>1
  <2> QED
    BY <2>1, ElementOfSeq DEF TypeOK
<1>3. batch' = [i \in 1..n |-> stored[Len(stored) + 1 - i]]
  BY DEF PollQuery
<1>4. batch' \in [1..n -> Tasks]
  BY <1>2, <1>3
<1>5. batch' \in Seq(Tasks)
  BY <1>1, <1>4, SeqDef
<1>6. 1 \in DOMAIN batch'
  BY <1>1, <1>4
<1> QED
  BY <1>5, <1>6

\* The type invariant gives the types of the call tables.
LEMMA TypeGivesCalls == TypeOK => CallsTyped
  BY DEF TypeOK, CallsTyped

\* Every step keeps the types.
LEMMA NextType == TypeOK /\ [Next]_vars => TypeOK'
<1> SUFFICES ASSUME TypeOK, [Next]_vars PROVE TypeOK'
  OBVIOUS
<1> USE TypeGivesCalls
<1>1. ASSUME NEW t \in Tasks, StoreTask(t) PROVE TypeOK'
  <2>1. stored' \in Seq(Tasks)
    BY <1>1, AppendProperties DEF StoreTask, TypeOK
  <2> QED
    BY <1>1, <2>1 DEF StoreTask, TypeOK, trackerVars, callVars, pollVars, lostVars
<1>2. ASSUME NEW c \in CourierCalls, NEW t \in Tasks, CourierEvent(c, t)
      PROVE  TypeOK'
  <2>1. CallsTyped'
    BY <1>2, BeginTyped, DispatchAssumption
    DEF CourierEvent, CallPc, DispatchAssumption, Calls, DispatchCalls
  <2> QED
    BY <1>2, <2>1
    DEF CourierEvent, TypeOK, CallsTyped, memoryVars, trackerVars, pollVars, lostVars
<1>3. ASSUME NEW c \in CourierCalls, CourierClaim(c) PROVE TypeOK'
  <2>0. c \in Calls /\ task[c] \in Tasks
    BY <1>3 DEF CourierClaim, TypeOK, Calls, DispatchCalls
  <2>1. CallsTyped'
    BY <1>3, <2>0, EndTyped, GotoTyped DEF CourierClaim, CallPc
  <2>2. seen' \subseteq Tasks /\ order' \in Seq(Tasks)
    BY <1>3, <2>0, ClaimTyped DEF CourierClaim, trackerVars, TypeOK
  <2> QED
    BY <1>3, <2>1, <2>2
    DEF CourierClaim, TypeOK, CallsTyped, memoryVars, pollVars, lostVars
<1>4. CASE PollQuery
  BY <1>4, BatchTyped
  DEF PollQuery, TypeOK, memoryVars, trackerVars, callVars, lostVars
<1>5. CASE PollCheck
  <2>1. batch # <<>>
    BY <1>5 DEF PollCheck, TypeOK
  <2>2. batch' \in Seq(Tasks) /\ pollPc' \in {"sleep", "check", "claim"}
        /\ (pollPc' # "sleep" => batch' # <<>>)
    BY <1>5, <2>1, PollNextTyped DEF PollCheck, TypeOK
  <2> QED
    BY <1>5, <2>2
    DEF PollCheck, TypeOK, memoryVars, trackerVars, callVars, lostVars
<1>6. CASE PollSkip
  <2>1. batch # <<>> /\ PollNext
    BY <1>6 DEF PollSkip, TypeOK
  <2> QED
    BY <1>6, <2>1, PollNextTyped
    DEF PollSkip, TypeOK, memoryVars, trackerVars, callVars, lostVars
<1>7. ASSUME NEW c \in PollCalls, PollClaim(c) PROVE TypeOK'
  <2>0. c \in Calls /\ batch # <<>> /\ Head(batch) \in Tasks
    BY <1>7, HeadTailProperties
    DEF PollClaim, TypeOK, Calls, DispatchCalls
  <2>1. CallsTyped'
    BY <1>7, <2>0, BeginTyped, DispatchAssumption
    DEF PollClaim, CallPc, DispatchAssumption
  <2>2. seen' \subseteq Tasks /\ order' \in Seq(Tasks)
    BY <1>7, <2>0, ClaimTyped DEF PollClaim
  <2>3. batch' \in Seq(Tasks) /\ pollPc' \in {"sleep", "check", "claim"}
        /\ (pollPc' # "sleep" => batch' # <<>>)
    BY <1>7, <2>0, PollNextTyped DEF PollClaim
  <2> QED
    BY <1>7, <2>1, <2>2, <2>3
    DEF PollClaim, TypeOK, CallsTyped, memoryVars, lostVars
<1>8. ASSUME NEW c \in HttpCalls, NEW t \in Tasks, NEW a \in Agents,
             HttpStart(c, t, a)
      PROVE  TypeOK'
  <2>1. CallsTyped'
    BY <1>8, BeginTyped DEF HttpStart, CallPc, Calls
  <2> QED
    BY <1>8, <2>1
    DEF HttpStart, TypeOK, CallsTyped, memoryVars, trackerVars, pollVars, lostVars
<1>9. ASSUME NEW c \in Calls, EarlyReturn(c) PROVE TypeOK'
  BY <1>9, EndTyped
  DEF EarlyReturn, TypeOK, CallsTyped, memoryVars, trackerVars, pollVars, lostVars
<1>10. ASSUME NEW c \in Calls, ResolveTimeout(c) PROVE TypeOK'
  <2>1. task[c] \in Tasks
    BY <1>10 DEF ResolveTimeout, TypeOK
  <2> QED
    BY <1>10, <2>1, EndTyped
    DEF ResolveTimeout, TypeOK, CallsTyped, trackerVars, pollVars, lostVars
<1>11. ASSUME NEW c \in Calls, CallStep(c) PROVE TypeOK'
  <2>1. CASE Resolve(c)
    BY <2>1, GotoTyped
    DEF Resolve, CallPc, TypeOK, CallsTyped, memoryVars, trackerVars, pollVars, lostVars
  <2>2. CASE Admit(c)
    <3>1. task[c] \in Tasks
      BY <2>2 DEF Admit, TypeOK
    <3>2. CallsTyped'
      BY <2>2, EndTyped, GotoTyped DEF Admit, CallPc
    <3> QED
      BY <2>2, <3>1, <3>2
      DEF Admit, TypeOK, CallsTyped, memoryVars, trackerVars, pollVars, lostVars
  <2>3. CASE Reserve(c)
    <3>1. CallsTyped'
      BY <2>3, GotoTyped DEF Reserve, CallPc
    <3>2. task[c] \in Tasks
      BY <2>3 DEF Reserve, Goto, TypeOK
    <3>3. slots' \in [Agents -> Nat]
      BY <2>3 DEF Reserve, TypeOK
    <3> QED
      BY <2>3, <3>1, <3>2, <3>3
      DEF Reserve, TypeOK, CallsTyped, memoryVars, trackerVars, pollVars, lostVars
  <2>4. CASE BusyRelease(c)
    BY <2>4, EndTyped
    DEF BusyRelease, TypeOK, CallsTyped, memoryVars, trackerVars, pollVars, lostVars
  <2>5. CASE PersistResult(c)
    <3>1. task[c] \in Tasks
      BY <2>5 DEF PersistResult, Goto, TypeOK
    <3> QED
      BY <2>5, <3>1, GotoTyped
      DEF PersistResult, CallPc, TypeOK, CallsTyped, trackerVars, pollVars, lostVars
  <2>6. CASE RunReturn(c)
    BY <2>6, GotoTyped
    DEF RunReturn, CallPc, TypeOK, CallsTyped, memoryVars, trackerVars, pollVars, lostVars
  <2>7. CASE ReleaseTask(c)
    BY <2>7, GotoTyped
    DEF ReleaseTask, CallPc, TypeOK, CallsTyped, memoryVars, trackerVars, pollVars, lostVars
  <2>8. CASE ReleaseSlot(c)
    <3>1. slots' \in [Agents -> Nat]
      BY <2>8 DEF ReleaseSlot, TypeOK
    <3> QED
      BY <2>8, <3>1, EndTyped
      DEF ReleaseSlot, TypeOK, CallsTyped, memoryVars, trackerVars, pollVars, lostVars
  <2> QED
    BY <1>11, <2>1, <2>2, <2>3, <2>4, <2>5, <2>6, <2>7, <2>8 DEF CallStep
<1>12. ASSUME NEW c \in Calls, Disconnect(c) PROVE TypeOK'
  <2>1. CallsTyped' /\ task[c] \in Tasks
    BY <1>12, EndTyped DEF Disconnect, TypeOK
  <2>2. lostSlots' \in [Agents -> Nat] /\ lostTasks' \subseteq Tasks
    BY <1>12, <2>1 DEF Disconnect, TypeOK
  <2> QED
    BY <1>12, <2>1, <2>2
    DEF Disconnect, TypeOK, CallsTyped, memoryVars, trackerVars, pollVars
<1>13. CASE Restart
  BY <1>13, DispatchAssumption, EmptySeq
  DEF Restart, TypeOK, CallPc, DispatchAssumption, memoryVars
<1>14. CASE UNCHANGED vars
  BY <1>14
  DEF vars, TypeOK, memoryVars, trackerVars, callVars, pollVars, lostVars
<1> QED
  BY <1>1, <1>2, <1>3, <1>4, <1>5, <1>6, <1>7, <1>8, <1>9, <1>10, <1>11,
     <1>12, <1>13, <1>14 DEF Next

\* In every reachable state each table and each call has its type.
THEOREM TypeCorrect == Spec => []TypeOK
  BY InitType, NextType, PTL DEF Spec

-----------------------------------------------------------------------------
(* The in-flight table.                                                    *)

\* A step that moves no call into or out of the holding states, and leaves
\* the table alone, keeps the account.
LEMMA TaskHoldersStay ==
  ASSUME InFlightExact, UNCHANGED <<inFlight, lostTasks>>,
         \A c \in Calls : HoldsTask(c)' <=> HoldsTask(c),
         \A c \in Calls : HoldsTask(c) => task'[c] = task[c]
  PROVE  InFlightExact'
  BY DEF InFlightExact, TaskHolders

\* What the three bookkeeping steps of a call mean for holding an entry.
LEMMA BeginHolds ==
  ASSUME TypeOK, NEW c \in Calls, NEW t, NEW a, NEW at, Begin(c, t, a, at),
         at \in {"claiming", "resolving"}
  PROVE  /\ \A d \in Calls : HoldsTask(d)' <=> HoldsTask(d)
         /\ \A d \in Calls : HoldsTask(d) => task'[d] = task[d]
  BY DEF TypeOK, Begin, HoldsTask

\* A call that ends holds no entry; the others hold what they held.
LEMMA EndHolds ==
  ASSUME TypeOK, NEW c \in Calls, End(c)
  PROVE  /\ \A d \in Calls : HoldsTask(d)' <=> (d # c /\ HoldsTask(d))
         /\ \A d \in Calls \ {c} : task'[d] = task[d]
  BY DEF TypeOK, End, HoldsTask

\* What a call that moves holds depends on the points it moves between.
LEMMA GotoHolds ==
  ASSUME TypeOK, NEW c \in Calls, NEW from, NEW to, Goto(c, from, to)
  PROVE  /\ \A d \in Calls \ {c} : HoldsTask(d)' <=> HoldsTask(d)
         /\ HoldsTask(c)' <=> to \in {"reserve", "busy", "running", "persisted", "release"}
         /\ HoldsTask(c) <=> from \in {"reserve", "busy", "running", "persisted", "release"}
         /\ task' = task
  BY DEF TypeOK, Goto, HoldsTask

\* The owner of an entry takes it out as it stops holding it.
LEMMA EntryRemoved ==
  ASSUME TypeOK, InFlightExact, NEW c \in Calls, HoldsTask(c),
         inFlight' = inFlight \ {task[c]}, UNCHANGED lostTasks,
         \A d \in Calls : HoldsTask(d)' <=> (d # c /\ HoldsTask(d)),
         \A d \in Calls \ {c} : task'[d] = task[d]
  PROVE  InFlightExact'
<1>1. TaskHolders' = TaskHolders \ {c} /\ c \in TaskHolders
  BY DEF TaskHolders
<1>2. \A d \in TaskHolders \ {c} : task'[d] = task[d] /\ task[d] # task[c]
  BY <1>1 DEF InFlightExact, TaskHolders
<1>3. task[c] \notin lostTasks
  BY <1>1 DEF InFlightExact
<1>4. inFlight' = {task'[d] : d \in TaskHolders'} \cup lostTasks'
  BY <1>1, <1>2, <1>3 DEF InFlightExact
<1>5. \A d, e \in TaskHolders' : task'[d] = task'[e] => d = e
  BY <1>1, <1>2 DEF InFlightExact
<1>6. \A d \in TaskHolders' : task'[d] \notin lostTasks'
  BY <1>1, <1>2 DEF InFlightExact
<1> QED
  BY <1>4, <1>5, <1>6 DEF InFlightExact

\* Admission adds the entry of a task nobody else holds.
LEMMA AdmitInFlight ==
  ASSUME TypeOK, InFlightExact, NEW c \in Calls, Admit(c)
  PROVE  InFlightExact'
<1>1. CASE task[c] \in inFlight /\ End(c) /\ UNCHANGED inFlight
  BY <1>1, EndHolds, TaskHoldersStay DEF Admit, lostVars, HoldsTask
<1>2. CASE /\ task[c] \notin inFlight
           /\ inFlight' = inFlight \cup {task[c]}
           /\ Goto(c, "admit", "reserve")
  <2>1. TaskHolders' = TaskHolders \cup {c} /\ c \notin TaskHolders /\ task' = task
    BY <1>2, GotoHolds DEF TaskHolders
  <2>2. lostTasks' = lostTasks
    BY DEF Admit, lostVars
  <2>3. inFlight' = {task'[d] : d \in TaskHolders'} \cup lostTasks'
    BY <1>2, <2>1, <2>2 DEF InFlightExact
  <2>4. \A d \in TaskHolders : task[d] # task[c]
    BY <1>2 DEF InFlightExact
  <2>5. task[c] \notin lostTasks
    BY <1>2 DEF InFlightExact
  <2>6. \A d, e \in TaskHolders' : task'[d] = task'[e] => d = e
    BY <2>1, <2>4 DEF InFlightExact
  <2>7. \A d \in TaskHolders' : task'[d] \notin lostTasks'
    BY <2>1, <2>2, <2>5 DEF InFlightExact
  <2> QED
    BY <2>3, <2>6, <2>7 DEF InFlightExact
<1> QED
  BY <1>1, <1>2 DEF Admit

\* A dropped call leaves its entry behind, and lostTasks takes it over.
LEMMA DisconnectInFlight ==
  ASSUME TypeOK, InFlightExact, NEW c \in Calls, Disconnect(c)
  PROVE  InFlightExact'
<1>1. End(c) /\ inFlight' = inFlight
  BY DEF Disconnect
<1>2. CASE ~HoldsTask(c)
  BY <1>1, <1>2, EndHolds, TaskHoldersStay DEF Disconnect
<1>3. CASE HoldsTask(c)
  <2>1. TaskHolders' = TaskHolders \ {c} /\ c \in TaskHolders
    BY <1>1, <1>3, EndHolds DEF TaskHolders
  <2>2. \A d \in TaskHolders \ {c} : task'[d] = task[d] /\ task[d] # task[c]
    BY <1>1, <2>1, EndHolds DEF InFlightExact, TaskHolders
  <2>3. lostTasks' = lostTasks \cup {task[c]}
    BY <1>3 DEF Disconnect
  <2>4. inFlight' = {task'[d] : d \in TaskHolders'} \cup lostTasks'
    BY <1>1, <2>1, <2>2, <2>3 DEF InFlightExact
  <2>5. \A d, e \in TaskHolders' : task'[d] = task'[e] => d = e
    BY <2>1, <2>2 DEF InFlightExact
  <2>6. \A d \in TaskHolders' : task'[d] \notin lostTasks'
    BY <2>1, <2>2, <2>3 DEF InFlightExact
  <2> QED
    BY <2>4, <2>5, <2>6 DEF InFlightExact
<1> QED
  BY <1>2, <1>3

\* Every step keeps the in-flight table exact.
LEMMA NextInFlight ==
  TypeOK /\ InFlightExact /\ [Next]_vars => InFlightExact'
<1> SUFFICES ASSUME TypeOK, InFlightExact, [Next]_vars PROVE InFlightExact'
  OBVIOUS
<1>1. ASSUME UNCHANGED <<callVars, inFlight, lostVars>> PROVE InFlightExact'
  BY <1>1, TaskHoldersStay DEF callVars, lostVars, HoldsTask
<1>2. ASSUME NEW t \in Tasks, StoreTask(t) PROVE InFlightExact'
  BY <1>1, <1>2 DEF StoreTask
<1>3. ASSUME NEW c \in CourierCalls, NEW t \in Tasks, CourierEvent(c, t)
      PROVE  InFlightExact'
  BY <1>3, BeginHolds, TaskHoldersStay
  DEF CourierEvent, lostVars, Calls, DispatchCalls
<1>4. ASSUME NEW c \in CourierCalls, CourierClaim(c) PROVE InFlightExact'
  <2>1. c \in Calls /\ ~HoldsTask(c) /\ UNCHANGED <<inFlight, lostTasks>>
    BY <1>4 DEF CourierClaim, Calls, DispatchCalls, HoldsTask, lostVars
  <2>2. CASE End(c)
    BY <2>1, <2>2, EndHolds, TaskHoldersStay
  <2>3. CASE Goto(c, "claiming", "resolving")
    BY <2>1, <2>3, GotoHolds, TaskHoldersStay
  <2> QED
    BY <1>4, <2>2, <2>3 DEF CourierClaim
<1>5. ASSUME PollQuery \/ PollCheck \/ PollSkip PROVE InFlightExact'
  BY <1>1, <1>5 DEF PollQuery, PollCheck, PollSkip
<1>6. ASSUME NEW c \in PollCalls, PollClaim(c) PROVE InFlightExact'
  BY <1>6, BeginHolds, TaskHoldersStay
  DEF PollClaim, lostVars, Calls, DispatchCalls
<1>7. ASSUME NEW c \in HttpCalls, NEW t \in Tasks, NEW a \in Agents,
             HttpStart(c, t, a)
      PROVE  InFlightExact'
  BY <1>7, BeginHolds, TaskHoldersStay DEF HttpStart, lostVars, Calls
<1>8. ASSUME NEW c \in Calls, EarlyReturn(c) \/ ResolveTimeout(c)
      PROVE  InFlightExact'
  <2>1. End(c) /\ ~HoldsTask(c) /\ UNCHANGED <<inFlight, lostTasks>>
    BY <1>8 DEF EarlyReturn, ResolveTimeout, HoldsTask, lostVars
  <2> QED
    BY <2>1, EndHolds, TaskHoldersStay
<1>9. ASSUME NEW c \in Calls, CallStep(c) PROVE InFlightExact'
  <2>1. CASE Resolve(c)
    BY <2>1, GotoHolds, TaskHoldersStay DEF Resolve, lostVars
  <2>2. CASE Admit(c)
    BY <2>2, AdmitInFlight
  <2>3. CASE Reserve(c)
    <3>1. /\ Goto(c, "reserve", "busy") \/ Goto(c, "reserve", "running")
          /\ UNCHANGED <<inFlight, lostTasks>>
      BY <2>3 DEF Reserve, lostVars
    <3> QED
      BY <3>1, GotoHolds, TaskHoldersStay
  <2>4. CASE BusyRelease(c)
    BY <2>4, EndHolds, EntryRemoved DEF BusyRelease, HoldsTask, lostVars
  <2>5. CASE PersistResult(c)
    BY <2>5, GotoHolds, TaskHoldersStay DEF PersistResult, lostVars
  <2>6. CASE RunReturn(c)
    <3>1. /\ Goto(c, "persisted", "release") \/ Goto(c, "running", "release")
          /\ UNCHANGED <<inFlight, lostTasks>>
      BY <2>6 DEF RunReturn, lostVars
    <3> QED
      BY <3>1, GotoHolds, TaskHoldersStay
  <2>7. CASE ReleaseTask(c)
    <3>1. Goto(c, "release", "decrement") /\ inFlight' = inFlight \ {task[c]}
          /\ UNCHANGED lostTasks
      BY <2>7 DEF ReleaseTask, lostVars
    <3> QED
      BY <3>1, GotoHolds, EntryRemoved
  <2>8. CASE ReleaseSlot(c)
    BY <2>8, EndHolds, TaskHoldersStay DEF ReleaseSlot, HoldsTask, lostVars
  <2> QED
    BY <1>9, <2>1, <2>2, <2>3, <2>4, <2>5, <2>6, <2>7, <2>8 DEF CallStep
<1>10. ASSUME NEW c \in Calls, Disconnect(c) PROVE InFlightExact'
  BY <1>10, DisconnectInFlight
<1>11. CASE Restart
  BY <1>11 DEF Restart, InFlightExact, TaskHolders, HoldsTask
<1>12. CASE UNCHANGED vars
  BY <1>1, <1>12 DEF vars
<1> QED
  BY <1>2, <1>3, <1>4, <1>5, <1>6, <1>7, <1>8, <1>9, <1>10, <1>11, <1>12 DEF Next

\* in_flight_tasks is at all times the tasks of the calls that hold an entry,
\* each held once, and the entries of dropped calls.
THEOREM InFlightAccounted == Spec => []InFlightExact
<1>1. Init => InFlightExact
  BY DEF Init, InFlightExact, TaskHolders, HoldsTask
<1> QED
  BY <1>1, TypeCorrect, NextInFlight, PTL DEF Spec

\* A task never has two runs at a time, for any number of tasks and calls.
THEOREM RunsExclude == Spec => []OneRunPerTask
<1>1. InFlightExact => OneRunPerTask
  BY DEF InFlightExact, OneRunPerTask, TaskHolders, HoldsTask, Running
<1> QED
  BY <1>1, InFlightAccounted, PTL

-----------------------------------------------------------------------------
(* The slots of the agents.                                                *)

\* Only finitely many calls hold a slot.
LEMMA SlotHoldersFinite ==
  ASSUME NEW a
  PROVE  IsFiniteSet(SlotHolders(a)) /\ Cardinality(SlotHolders(a)) \in Nat
<1>1. SlotHolders(a) \subseteq Calls
  BY DEF SlotHolders
<1> QED
  BY <1>1, FS_Subset, FS_CardinalityType, DispatchAssumption
  DEF DispatchAssumption

\* The slot holders stay when no call enters or leaves the points that hold one.
LEMMA SlotHoldersStay ==
  ASSUME SlotsExact, UNCHANGED <<slots, lostSlots>>,
         \A c \in Calls : HoldsSlot(c)' <=> HoldsSlot(c),
         \A c \in Calls : HoldsSlot(c) => agent'[c] = agent[c]
  PROVE  SlotsExact'
<1>1. \A a \in Agents : SlotHolders(a)' = SlotHolders(a)
  BY DEF SlotHolders
<1> QED
  BY <1>1 DEF SlotsExact

\* A call that begins changes no slot holders.
LEMMA BeginSlots ==
  ASSUME TypeOK, NEW c \in Calls, NEW t, NEW a, NEW at, Begin(c, t, a, at),
         at \in {"claiming", "resolving"}
  PROVE  /\ \A d \in Calls : HoldsSlot(d)' <=> HoldsSlot(d)
         /\ \A d \in Calls : HoldsSlot(d) => agent'[d] = agent[d]
  BY DEF TypeOK, Begin, HoldsSlot

\* A call that ends holds no slot; the others hold what they held.
LEMMA EndSlots ==
  ASSUME TypeOK, NEW c \in Calls, End(c)
  PROVE  /\ \A d \in Calls : HoldsSlot(d)' <=> (d # c /\ HoldsSlot(d))
         /\ \A d \in Calls \ {c} : agent'[d] = agent[d]
  BY DEF TypeOK, End, HoldsSlot

\* Whether a call that moves holds a slot depends on the points it moves between.
LEMMA GotoSlots ==
  ASSUME TypeOK, NEW c \in Calls, NEW from, NEW to, Goto(c, from, to)
  PROVE  /\ \A d \in Calls \ {c} : HoldsSlot(d)' <=> HoldsSlot(d)
         /\ HoldsSlot(c)' <=> to \in {"running", "persisted", "release", "decrement"}
         /\ HoldsSlot(c) <=> from \in {"running", "persisted", "release", "decrement"}
         /\ agent' = agent
  BY DEF TypeOK, Goto, HoldsSlot

\* The count of one agent follows the one call that stops holding its slot.
LEMMA SlotLeft ==
  ASSUME TypeOK, NEW c \in Calls, HoldsSlot(c), End(c), NEW a \in Agents
  PROVE  /\ agent[c] # a => SlotHolders(a)' = SlotHolders(a)
         /\ agent[c] = a =>
              /\ Cardinality(SlotHolders(a)') = Cardinality(SlotHolders(a)) - 1
              /\ Cardinality(SlotHolders(a)) > 0
<1>1. agent[c] # a => SlotHolders(a)' = SlotHolders(a)
  BY EndSlots DEF SlotHolders
<1>2. agent[c] = a =>
        SlotHolders(a)' = SlotHolders(a) \ {c} /\ c \in SlotHolders(a)
  BY EndSlots DEF SlotHolders
<1>3. IsFiniteSet(SlotHolders(a)) /\ Cardinality(SlotHolders(a)) \in Nat
  BY SlotHoldersFinite
<1>4. agent[c] = a => Cardinality(SlotHolders(a)) # 0
  BY <1>2, <1>3, FS_EmptySet
<1> QED
  BY <1>1, <1>2, <1>3, <1>4, FS_RemoveElement

\* A reservation adds one holder and one to the count.
LEMMA ReserveSlots ==
  ASSUME TypeOK, SlotsExact, NEW c \in Calls, Reserve(c)
  PROVE  SlotsExact'
<1>1. CASE Goto(c, "reserve", "busy") /\ UNCHANGED slots
  BY <1>1, GotoSlots, SlotHoldersStay DEF Reserve, lostVars
<1>2. CASE /\ slots[agent[c]] < MaxParallel
           /\ slots' = [slots EXCEPT ![agent[c]] = @ + 1]
           /\ Goto(c, "reserve", "running")
  <2> SUFFICES ASSUME NEW a \in Agents
               PROVE  /\ slots'[a] = Cardinality(SlotHolders(a)') + lostSlots'[a]
                      /\ slots'[a] <= MaxParallel
    BY DEF SlotsExact
  <2>1. lostSlots' = lostSlots
    BY DEF Reserve, lostVars
  <2>2. IsFiniteSet(SlotHolders(a)) /\ Cardinality(SlotHolders(a)) \in Nat
    BY SlotHoldersFinite
  <2>3. CASE agent[c] # a
    <3>1. SlotHolders(a)' = SlotHolders(a)
      BY <1>2, <2>3, GotoSlots DEF SlotHolders
    <3> QED
      BY <1>2, <2>1, <2>3, <3>1 DEF SlotsExact, TypeOK
  <2>4. CASE agent[c] = a
    <3>1. SlotHolders(a)' = SlotHolders(a) \cup {c} /\ c \notin SlotHolders(a)
      BY <1>2, <2>4, GotoSlots DEF SlotHolders
    <3>2. Cardinality(SlotHolders(a)') = Cardinality(SlotHolders(a)) + 1
      BY <2>2, <3>1, FS_AddElement
    <3>3. slots'[a] = slots[a] + 1 /\ slots[a] < MaxParallel /\ slots[a] \in Nat
      BY <1>2, <2>4 DEF TypeOK
    <3>4. slots[a] = Cardinality(SlotHolders(a)) + lostSlots[a] /\ lostSlots[a] \in Nat
      BY DEF SlotsExact, TypeOK
    <3>5. slots'[a] = Cardinality(SlotHolders(a)') + lostSlots'[a]
      BY <2>1, <2>2, <3>2, <3>3, <3>4
    <3> QED
      BY <3>3, <3>5, DispatchAssumption DEF DispatchAssumption
  <2> QED
    BY <2>3, <2>4
<1> QED
  BY <1>1, <1>2 DEF Reserve

\* A release removes one holder and one from the count.
LEMMA ReleaseSlotSlots ==
  ASSUME TypeOK, SlotsExact, NEW c \in Calls, ReleaseSlot(c)
  PROVE  SlotsExact'
<1> SUFFICES ASSUME NEW a \in Agents
             PROVE  /\ slots'[a] = Cardinality(SlotHolders(a)') + lostSlots'[a]
                    /\ slots'[a] <= MaxParallel
  BY DEF SlotsExact
<1>1. HoldsSlot(c) /\ End(c) /\ lostSlots' = lostSlots
  BY DEF ReleaseSlot, HoldsSlot, lostVars
<1>2. slots' = [slots EXCEPT ![agent[c]] = IF @ = 0 THEN 0 ELSE @ - 1]
  BY DEF ReleaseSlot
<1>3. IsFiniteSet(SlotHolders(a)) /\ Cardinality(SlotHolders(a)) \in Nat
  BY SlotHoldersFinite
<1>4. CASE agent[c] # a
  <2>1. SlotHolders(a)' = SlotHolders(a)
    BY <1>1, <1>4, SlotLeft
  <2> QED
    BY <1>1, <1>2, <1>4, <2>1 DEF SlotsExact, TypeOK
<1>5. CASE agent[c] = a
  <2>1. /\ Cardinality(SlotHolders(a)') = Cardinality(SlotHolders(a)) - 1
        /\ Cardinality(SlotHolders(a)) > 0
    BY <1>1, <1>5, SlotLeft
  <2> QED
    BY <1>1, <1>2, <1>3, <1>5, <2>1, DispatchAssumption
    DEF SlotsExact, TypeOK, DispatchAssumption
<1> QED
  BY <1>4, <1>5

\* A dropped call moves its slot to the lost ones.
LEMMA DisconnectSlots ==
  ASSUME TypeOK, SlotsExact, NEW c \in Calls, Disconnect(c)
  PROVE  SlotsExact'
<1>1. End(c) /\ slots' = slots
  BY DEF Disconnect
<1>2. CASE ~HoldsSlot(c)
  BY <1>1, <1>2, EndSlots, SlotHoldersStay DEF Disconnect
<1>3. CASE HoldsSlot(c)
  <2> SUFFICES ASSUME NEW a \in Agents
               PROVE  /\ slots'[a] = Cardinality(SlotHolders(a)') + lostSlots'[a]
                      /\ slots'[a] <= MaxParallel
    BY DEF SlotsExact
  <2>1. lostSlots' = [lostSlots EXCEPT ![agent[c]] = @ + 1]
    BY <1>3 DEF Disconnect
  <2>2. IsFiniteSet(SlotHolders(a)) /\ Cardinality(SlotHolders(a)) \in Nat
    BY SlotHoldersFinite
  <2>3. CASE agent[c] # a
    <3>1. SlotHolders(a)' = SlotHolders(a)
      BY <1>1, <1>3, <2>3, SlotLeft
    <3> QED
      BY <1>1, <2>1, <2>3, <3>1 DEF SlotsExact, TypeOK
  <2>4. CASE agent[c] = a
    <3>1. /\ Cardinality(SlotHolders(a)') = Cardinality(SlotHolders(a)) - 1
          /\ Cardinality(SlotHolders(a)) > 0
      BY <1>1, <1>3, <2>4, SlotLeft
    <3> QED
      BY <1>1, <2>1, <2>2, <2>4, <3>1 DEF SlotsExact, TypeOK
  <2> QED
    BY <2>3, <2>4
<1> QED
  BY <1>2, <1>3

\* An agent without holders counts none.
LEMMA NoHolderCount ==
  ASSUME \A c \in Calls : pc[c] = "idle", NEW a
  PROVE  Cardinality(SlotHolders(a)) = 0
<1>1. SlotHolders(a) = {}
  BY DEF SlotHolders, HoldsSlot
<1> QED
  BY <1>1, FS_EmptySet

\* Initially nobody holds a slot.
LEMMA InitSlots == Init => SlotsExact
<1> SUFFICES ASSUME Init, NEW a \in Agents
             PROVE  /\ slots[a] = Cardinality(SlotHolders(a)) + lostSlots[a]
                    /\ slots[a] <= MaxParallel
  BY DEF SlotsExact
<1>1. Cardinality(SlotHolders(a)) = 0
  BY NoHolderCount DEF Init
<1> QED
  BY <1>1, DispatchAssumption DEF Init, DispatchAssumption

\* After a restart nobody holds a slot.
LEMMA RestartSlots == Restart => SlotsExact'
<1> SUFFICES ASSUME Restart, NEW a \in Agents
             PROVE  /\ slots'[a] = Cardinality(SlotHolders(a)') + lostSlots'[a]
                    /\ slots'[a] <= MaxParallel
  BY DEF SlotsExact
<1>1. SlotHolders(a)' = {}
  BY DEF Restart, SlotHolders, HoldsSlot
<1>2. Cardinality(SlotHolders(a)') = 0
  BY <1>1, FS_EmptySet
<1> QED
  BY <1>2, DispatchAssumption DEF Restart, DispatchAssumption

\* Every step keeps the slot counts exact.
LEMMA NextSlots == TypeOK /\ SlotsExact /\ [Next]_vars => SlotsExact'
<1> SUFFICES ASSUME TypeOK, SlotsExact, [Next]_vars PROVE SlotsExact'
  OBVIOUS
<1>1. ASSUME UNCHANGED <<callVars, slots, lostVars>> PROVE SlotsExact'
  BY <1>1, SlotHoldersStay DEF callVars, lostVars, HoldsSlot
<1>2. ASSUME NEW t \in Tasks, StoreTask(t) PROVE SlotsExact'
  BY <1>1, <1>2 DEF StoreTask
<1>3. ASSUME NEW c \in CourierCalls, NEW t \in Tasks, CourierEvent(c, t)
      PROVE  SlotsExact'
  BY <1>3, BeginSlots, SlotHoldersStay
  DEF CourierEvent, lostVars, Calls, DispatchCalls
<1>4. ASSUME NEW c \in CourierCalls, CourierClaim(c) PROVE SlotsExact'
  <2>1. c \in Calls /\ ~HoldsSlot(c) /\ UNCHANGED <<slots, lostSlots>>
    BY <1>4 DEF CourierClaim, Calls, DispatchCalls, HoldsSlot, lostVars
  <2>2. CASE End(c)
    BY <2>1, <2>2, EndSlots, SlotHoldersStay
  <2>3. CASE Goto(c, "claiming", "resolving")
    BY <2>1, <2>3, GotoSlots, SlotHoldersStay
  <2> QED
    BY <1>4, <2>2, <2>3 DEF CourierClaim
<1>5. ASSUME PollQuery \/ PollCheck \/ PollSkip PROVE SlotsExact'
  BY <1>1, <1>5 DEF PollQuery, PollCheck, PollSkip
<1>6. ASSUME NEW c \in PollCalls, PollClaim(c) PROVE SlotsExact'
  BY <1>6, BeginSlots, SlotHoldersStay
  DEF PollClaim, lostVars, Calls, DispatchCalls
<1>7. ASSUME NEW c \in HttpCalls, NEW t \in Tasks, NEW a \in Agents,
             HttpStart(c, t, a)
      PROVE  SlotsExact'
  BY <1>7, BeginSlots, SlotHoldersStay DEF HttpStart, lostVars, Calls
<1>8. ASSUME NEW c \in Calls,
             EarlyReturn(c) \/ ResolveTimeout(c) \/ BusyRelease(c)
      PROVE  SlotsExact'
  <2>1. End(c) /\ ~HoldsSlot(c) /\ UNCHANGED <<slots, lostSlots>>
    BY <1>8 DEF EarlyReturn, ResolveTimeout, BusyRelease, HoldsSlot, lostVars
  <2> QED
    BY <2>1, EndSlots, SlotHoldersStay
<1>9. ASSUME NEW c \in Calls, CallStep(c) PROVE SlotsExact'
  <2>1. CASE Resolve(c)
    BY <2>1, GotoSlots, SlotHoldersStay DEF Resolve, lostVars
  <2>2. CASE Admit(c)
    <3>1. ~HoldsSlot(c) /\ UNCHANGED <<slots, lostSlots>>
          /\ (End(c) \/ Goto(c, "admit", "reserve"))
      BY <2>2 DEF Admit, HoldsSlot, lostVars
    <3> QED
      BY <3>1, EndSlots, GotoSlots, SlotHoldersStay
  <2>3. CASE Reserve(c)
    BY <2>3, ReserveSlots
  <2>4. CASE BusyRelease(c)
    BY <1>8, <2>4
  <2>5. CASE PersistResult(c)
    BY <2>5, GotoSlots, SlotHoldersStay DEF PersistResult, lostVars
  <2>6. CASE RunReturn(c)
    <3>1. /\ Goto(c, "persisted", "release") \/ Goto(c, "running", "release")
          /\ UNCHANGED <<slots, lostSlots>>
      BY <2>6 DEF RunReturn, lostVars
    <3> QED
      BY <3>1, GotoSlots, SlotHoldersStay
  <2>7. CASE ReleaseTask(c)
    BY <2>7, GotoSlots, SlotHoldersStay DEF ReleaseTask, lostVars
  <2>8. CASE ReleaseSlot(c)
    BY <2>8, ReleaseSlotSlots
  <2> QED
    BY <1>9, <2>1, <2>2, <2>3, <2>4, <2>5, <2>6, <2>7, <2>8 DEF CallStep
<1>10. ASSUME NEW c \in Calls, Disconnect(c) PROVE SlotsExact'
  BY <1>10, DisconnectSlots
<1>11. CASE Restart
  BY <1>11, RestartSlots
<1>12. CASE UNCHANGED vars
  BY <1>1, <1>12 DEF vars
<1> QED
  BY <1>2, <1>3, <1>4, <1>5, <1>6, <1>7, <1>8, <1>9, <1>10, <1>11, <1>12 DEF Next

\* The count of an agent is exact at all times, never above the limit, and the
\* saturating subtraction never saturates.
THEOREM SlotsAccounted == Spec => []SlotsExact
  BY InitSlots, TypeCorrect, NextSlots, PTL DEF Spec

-----------------------------------------------------------------------------
(* The handler implements ExclusiveRuns.                                   *)

ActiveRun(c) == <<c, task[c], agent[c]>>
RunHolders(a) == {c \in Calls : Running(c) /\ agent[c] = a}

\* A step that keeps every running call running, on the same task for the same
\* agent, and starts none, is a stutter of the abstract specification.
LEMMA RunsStay ==
  ASSUME \A c \in Calls : Running(c)' <=> Running(c),
         \A c \in Calls : Running(c) => task'[c] = task[c] /\ agent'[c] = agent[c]
  PROVE  ActiveRuns' = ActiveRuns
  BY DEF ActiveRuns

\* A call that begins changes no active run.
LEMMA BeginRuns ==
  ASSUME TypeOK, NEW c \in Calls, NEW t, NEW a, NEW at, Begin(c, t, a, at),
         at \in {"claiming", "resolving"}
  PROVE  ActiveRuns' = ActiveRuns
<1>1. \A d \in Calls : Running(d)' <=> Running(d)
  BY DEF TypeOK, Begin, Running
<1>2. \A d \in Calls : Running(d) => task'[d] = task[d] /\ agent'[d] = agent[d]
  BY DEF TypeOK, Begin, Running
<1> QED
  BY <1>1, <1>2, RunsStay

\* A call that moves outside the running points changes no active run.
LEMMA GotoRuns ==
  ASSUME TypeOK, NEW c \in Calls, NEW from, NEW to, Goto(c, from, to),
         from \in {"running", "persisted"} <=> to \in {"running", "persisted"}
  PROVE  ActiveRuns' = ActiveRuns
<1>1. \A d \in Calls : Running(d)' <=> Running(d)
  BY DEF TypeOK, Goto, Running
<1> QED
  BY <1>1, RunsStay DEF Goto

\* A call that stops running takes exactly its own run away.
LEMMA RunLeft ==
  ASSUME NEW c \in Calls,
         \A d \in Calls : Running(d)' <=> (d # c /\ Running(d)),
         \A d \in Calls \ {c} : task'[d] = task[d] /\ agent'[d] = agent[d]
  PROVE  ActiveRuns' = ActiveRuns \ {ActiveRun(c)}
<1>1. \A d \in Calls : d # c => ActiveRun(d) # ActiveRun(c)
  BY DEF ActiveRun
<1>2. ActiveRuns' = {ActiveRun(d)' : d \in {e \in Calls : e # c /\ Running(e)}}
  BY DEF ActiveRuns, ActiveRun
<1>3. \A d \in Calls : d # c => ActiveRun(d)' = ActiveRun(d)
  BY DEF ActiveRun
<1>4. ActiveRuns = {ActiveRun(d) : d \in {e \in Calls : Running(e)}}
  BY DEF ActiveRuns, ActiveRun
<1> QED
  BY <1>1, <1>2, <1>3, <1>4

\* Stopping is a stutter for a call that was not running, a Finish otherwise.
LEMMA StopRefines ==
  ASSUME NEW c \in Calls,
         \A d \in Calls : Running(d)' <=> (d # c /\ Running(d)),
         \A d \in Calls \ {c} : task'[d] = task[d] /\ agent'[d] = agent[d]
  PROVE  [Runs!Next]_ActiveRuns
<1>1. ActiveRuns' = ActiveRuns \ {ActiveRun(c)}
  BY RunLeft
<1>2. CASE ActiveRun(c) \in ActiveRuns
  BY <1>1, <1>2 DEF Runs!Next, Runs!Finish
<1>3. CASE ActiveRun(c) \notin ActiveRuns
  BY <1>1, <1>3
<1> QED
  BY <1>2, <1>3

\* A call that ends maps to the end of its run, or to a stutter.
LEMMA EndRefines ==
  ASSUME TypeOK, NEW c \in Calls, End(c)
  PROVE  [Runs!Next]_ActiveRuns
<1>1. \A d \in Calls : Running(d)' <=> (d # c /\ Running(d))
  BY DEF TypeOK, End, Running
<1>2. \A d \in Calls \ {c} : task'[d] = task[d] /\ agent'[d] = agent[d]
  BY DEF TypeOK, End
<1> QED
  BY <1>1, <1>2, StopRefines

\* The runs of an agent are no more than its slot holders.
LEMMA RunsCounted ==
  ASSUME SlotsExact, TypeOK, NEW a \in Agents
  PROVE  Cardinality({r \in ActiveRuns : r[3] = a}) \in Nat
         /\ Cardinality({r \in ActiveRuns : r[3] = a}) <= slots[a]
<1> DEFINE S == RunHolders(a)
           T == {r \in ActiveRuns : r[3] = a}
           f == [c \in S |-> ActiveRun(c)]
<1>1. S \subseteq SlotHolders(a)
  BY DEF RunHolders, SlotHolders, Running, HoldsSlot
<1>2. IsFiniteSet(S) /\ Cardinality(S) <= Cardinality(SlotHolders(a))
  BY <1>1, SlotHoldersFinite, FS_Subset
<1>3. T = {ActiveRun(c) : c \in S}
  BY DEF ActiveRuns, ActiveRun, RunHolders
<1>4. f \in Surjection(S, T)
  BY <1>3 DEF Surjection
<1>5. IsFiniteSet(T) /\ Cardinality(T) <= Cardinality(S)
  BY <1>2, <1>4, FS_Surjection
<1>6. Cardinality(SlotHolders(a)) <= slots[a]
  BY SlotHoldersFinite DEF SlotsExact, TypeOK
<1>7. /\ Cardinality(T) \in Nat /\ Cardinality(S) \in Nat
      /\ Cardinality(SlotHolders(a)) \in Nat
  BY <1>2, <1>5, FS_CardinalityType, SlotHoldersFinite
<1> QED
  BY <1>2, <1>5, <1>6, <1>7 DEF TypeOK

\* A reservation maps to the start of a run, or to a stutter.
LEMMA ReserveRefines ==
  ASSUME TypeOK, InFlightExact, SlotsExact, NEW c \in Calls, Reserve(c)
  PROVE  [Runs!Next]_ActiveRuns
<1>1. CASE Goto(c, "reserve", "busy")
  BY <1>1, GotoRuns
<1>2. CASE slots[agent[c]] < MaxParallel /\ Goto(c, "reserve", "running")
  <2>1. task[c] \in Tasks /\ agent[c] \in Agents /\ pc[c] = "reserve"
    BY <1>2 DEF Goto, TypeOK
  <2>2. \A d \in Calls : Running(d)' <=> (d = c \/ Running(d))
    BY <1>2 DEF Goto, TypeOK, Running
  <2>3. ActiveRuns' = ActiveRuns \cup {<<c, task[c], agent[c]>>}
    BY <1>2, <2>2 DEF ActiveRuns, Goto
  <2>4. \A r \in ActiveRuns : r[1] # c /\ r[2] # task[c]
    BY <2>1 DEF ActiveRuns, InFlightExact, TaskHolders, HoldsTask, Running
  <2>5. Cardinality({r \in ActiveRuns : r[3] = agent[c]}) < MaxParallel
    BY <1>2, <2>1, RunsCounted, DispatchAssumption DEF TypeOK, DispatchAssumption
  <2>6. Runs!Start(c, task[c], agent[c])
    BY <2>3, <2>4, <2>5 DEF Runs!Start, Runs!Cardinality, Cardinality
  <2> QED
    BY <2>1, <2>6 DEF Runs!Next
<1> QED
  BY <1>1, <1>2 DEF Reserve

\* Every step maps to a step of ExclusiveRuns or to a stutter.
LEMMA NextRefines ==
  ASSUME TypeOK, InFlightExact, SlotsExact, [Next]_vars
  PROVE  [Runs!Next]_ActiveRuns
<1>1. ASSUME UNCHANGED callVars PROVE [Runs!Next]_ActiveRuns
  BY <1>1, RunsStay DEF callVars, Running
<1>2. ASSUME NEW t \in Tasks, StoreTask(t) PROVE [Runs!Next]_ActiveRuns
  BY <1>1, <1>2 DEF StoreTask
<1>3. ASSUME NEW c \in CourierCalls, NEW t \in Tasks, CourierEvent(c, t)
      PROVE  [Runs!Next]_ActiveRuns
  BY <1>3, BeginRuns DEF CourierEvent, Calls, DispatchCalls
<1>4. ASSUME NEW c \in CourierCalls, CourierClaim(c) PROVE [Runs!Next]_ActiveRuns
  <2>1. c \in Calls /\ (End(c) \/ Goto(c, "claiming", "resolving"))
    BY <1>4 DEF CourierClaim, Calls, DispatchCalls
  <2> QED
    BY <2>1, EndRefines, GotoRuns
<1>5. ASSUME PollQuery \/ PollCheck \/ PollSkip PROVE [Runs!Next]_ActiveRuns
  BY <1>1, <1>5 DEF PollQuery, PollCheck, PollSkip
<1>6. ASSUME NEW c \in PollCalls, PollClaim(c) PROVE [Runs!Next]_ActiveRuns
  BY <1>6, BeginRuns DEF PollClaim, Calls, DispatchCalls
<1>7. ASSUME NEW c \in HttpCalls, NEW t \in Tasks, NEW a \in Agents,
             HttpStart(c, t, a)
      PROVE  [Runs!Next]_ActiveRuns
  BY <1>7, BeginRuns DEF HttpStart, Calls
<1>8. ASSUME NEW c \in Calls,
             EarlyReturn(c) \/ ResolveTimeout(c) \/ Disconnect(c)
      PROVE  [Runs!Next]_ActiveRuns
  BY <1>8, EndRefines DEF EarlyReturn, ResolveTimeout, Disconnect
<1>9. ASSUME NEW c \in Calls, CallStep(c) PROVE [Runs!Next]_ActiveRuns
  <2>1. CASE Resolve(c) \/ PersistResult(c) \/ ReleaseTask(c)
    BY <2>1, GotoRuns DEF Resolve, PersistResult, ReleaseTask
  <2>2. CASE Admit(c)
    BY <2>2, GotoRuns, EndRefines DEF Admit
  <2>3. CASE Reserve(c)
    BY <2>3, ReserveRefines
  <2>4. CASE BusyRelease(c) \/ ReleaseSlot(c)
    BY <2>4, EndRefines DEF BusyRelease, ReleaseSlot
  <2>5. CASE RunReturn(c)
    <3>1. Goto(c, "persisted", "release") \/ Goto(c, "running", "release")
      BY <2>5 DEF RunReturn
    <3>2. \A d \in Calls : Running(d)' <=> (d # c /\ Running(d))
      BY <3>1 DEF TypeOK, Goto, Running
    <3> QED
      BY <3>1, <3>2, StopRefines DEF Goto
  <2> QED
    BY <1>9, <2>1, <2>2, <2>3, <2>4, <2>5 DEF CallStep
<1>10. CASE Restart
  <2>1. ActiveRuns' = {}
    BY <1>10 DEF Restart, ActiveRuns, Running
  <2> QED
    BY <2>1 DEF Runs!Next, Runs!Crash
<1>11. CASE UNCHANGED vars
  BY <1>1, <1>11 DEF vars
<1> QED
  BY <1>2, <1>3, <1>4, <1>5, <1>6, <1>7, <1>8, <1>9, <1>10, <1>11 DEF Next

\* Whatever is found, claimed, refused or dropped, what runs is what
\* ExclusiveRuns allows to run.
THEOREM HandlerImplementsExclusiveRuns == Spec => RunsAreExclusive
<1>1. Init => Runs!Init
  BY DEF Init, Runs!Init, ActiveRuns, Running
<1>2. TypeOK /\ InFlightExact /\ SlotsExact /\ [Next]_vars => [Runs!Next]_ActiveRuns
  BY NextRefines
<1> QED
  BY <1>1, <1>2, TypeCorrect, InFlightAccounted, SlotsAccounted, PTL
  DEF Spec, RunsAreExclusive, Runs!Spec
-----------------------------------------------------------------------------
(* A dispatched task runs once.  The tracker remembers every claim of this *)
(* process as long as it need not forget one to make room.                 *)

TrackerHasRoom == IsFiniteSet(Tasks) /\ Cardinality(Tasks) <= TrackerCapacity

\* Calls whose task has been claimed for them, and those of them yet to run it.
Claimed(c) == pc[c] \notin {"idle", "claiming"}
YetToRun(c) == pc[c] \in {"resolving", "admit", "reserve"}

OneClaim ==
  /\ Len(order) = Cardinality(seen)
  /\ ran \subseteq seen
  /\ \A c \in DispatchCalls : Claimed(c) => task[c] \in seen
  /\ \A c, d \in DispatchCalls : Claimed(c) /\ Claimed(d) /\ task[c] = task[d] => c = d
  /\ \A c \in DispatchCalls : YetToRun(c) => task[c] \notin ran

\* The tracker forgets nothing when a new task is claimed.
LEMMA ClaimRemembers ==
  ASSUME TrackerHasRoom, TypeOK, OneClaim, NEW t \in Tasks, Claim(t)
  PROVE  seen' = seen \cup {t} /\ Len(order') = Cardinality(seen')
<1>1. IsFiniteSet(seen) /\ Cardinality(seen) \in Nat
  BY FS_Subset, FS_CardinalityType DEF TrackerHasRoom, TypeOK
<1>2. Cardinality(seen \cup {t}) = Cardinality(seen) + 1
  BY <1>1, FS_AddElement DEF Claim
<1>3. Cardinality(seen \cup {t}) <= Cardinality(Tasks)
  BY FS_Subset DEF TrackerHasRoom, TypeOK
<1>4. Cardinality(Tasks) \in Nat /\ TrackerCapacity \in Nat
  BY FS_CardinalityType, DispatchAssumption DEF TrackerHasRoom, DispatchAssumption
<1>5. ~(Len(order) >= TrackerCapacity)
  BY <1>1, <1>2, <1>3, <1>4 DEF TrackerHasRoom, OneClaim
<1>6. order' = Append(order, t) /\ seen' = seen \cup {t}
  BY <1>5 DEF Claim
<1>7. Len(order') = Len(order) + 1
  BY <1>6 DEF TypeOK
<1>. QED
  BY <1>2, <1>6, <1>7 DEF OneClaim

\* A dispatched call that has a new claim is the only one of its task.
LEMMA ClaimIsNew ==
  ASSUME TrackerHasRoom, TypeOK, OneClaim, NEW c \in DispatchCalls, NEW t \in Tasks,
         Claim(t), pc' = [pc EXCEPT ![c] = "resolving"], task' = [task EXCEPT ![c] = t],
         UNCHANGED ran
  PROVE  OneClaim'
<1>1. t \notin seen
  BY DEF Claim
<1>2. seen' = seen \cup {t} /\ Len(order') = Cardinality(seen')
  BY ClaimRemembers
<1>3. \A d \in DispatchCalls \ {c} : pc'[d] = pc[d] /\ task'[d] = task[d]
  BY DEF TypeOK, Calls
<1>4. pc'[c] = "resolving" /\ task'[c] = t
  BY DEF TypeOK, Calls
<1>. QED
  BY <1>1, <1>2, <1>3, <1>4 DEF OneClaim, Claimed, YetToRun

\* A call that moves on without running, or ends, disturbs no claim.
LEMMA MoveKeepsClaims ==
  ASSUME TypeOK, OneClaim, NEW c \in Calls,
         c \in DispatchCalls /\ Claimed(c)' => Claimed(c) /\ task'[c] = task[c],
         c \in DispatchCalls /\ YetToRun(c)' => YetToRun(c),
         \A d \in Calls \ {c} : pc'[d] = pc[d] /\ task'[d] = task[d],
         UNCHANGED <<trackerVars, ran>>
  PROVE  OneClaim'
<1>1. \A d \in DispatchCalls : Claimed(d)' => Claimed(d) /\ task'[d] = task[d]
  BY DEF Claimed, Calls
<1>2. \A d \in DispatchCalls : YetToRun(d)' => YetToRun(d)
  BY DEF YetToRun, Calls
<1>3. \A d \in DispatchCalls : YetToRun(d) => Claimed(d)
  BY DEF YetToRun, Claimed
<1>. QED
  BY <1>1, <1>2, <1>3, Zenon DEF OneClaim, trackerVars, Claimed, YetToRun

LEMMA GotoKeepsClaims ==
  ASSUME TypeOK, OneClaim, NEW c \in Calls, NEW from, NEW to, Goto(c, from, to),
         from \notin {"idle", "claiming"},
         to \in {"resolving", "admit", "reserve"} => from \in {"resolving", "admit", "reserve"},
         UNCHANGED <<trackerVars, ran>>
  PROVE  OneClaim'
<1>1. pc[c] = from /\ pc'[c] = to /\ task' = task
  BY DEF Goto, TypeOK
<1>2. \A d \in Calls \ {c} : pc'[d] = pc[d] /\ task'[d] = task[d]
  BY DEF Goto, TypeOK
<1>. QED
  BY <1>1, <1>2, MoveKeepsClaims DEF Claimed, YetToRun

LEMMA EndKeepsClaims ==
  ASSUME TypeOK, OneClaim, NEW c \in Calls, End(c), UNCHANGED <<trackerVars, ran>>
  PROVE  OneClaim'
<1>1. pc'[c] = "idle"
  BY DEF End, TypeOK
<1>2. \A d \in Calls \ {c} : pc'[d] = pc[d] /\ task'[d] = task[d]
  BY DEF End, TypeOK
<1>. QED
  BY <1>1, <1>2, MoveKeepsClaims DEF Claimed, YetToRun

\* A run adds its task to those that have been run; no other call has it.
LEMMA ReserveKeepsClaims ==
  ASSUME TypeOK, OneClaim, NEW c \in Calls, Reserve(c)
  PROVE  OneClaim'
<1>1. pc[c] = "reserve" /\ pc'[c] \in {"busy", "running"} /\ task' = task
  BY DEF Reserve, Goto, TypeOK
<1>2. \A d \in Calls \ {c} : pc'[d] = pc[d]
  BY DEF Reserve, Goto, TypeOK
<1>3. CASE UNCHANGED ran
  BY <1>1, <1>2, <1>3, MoveKeepsClaims DEF Reserve, Claimed, YetToRun
<1>4. CASE c \in DispatchCalls /\ ran' = ran \cup {task[c]}
  <2>1. seen' = seen /\ order' = order
    BY DEF Reserve, trackerVars
  <2>2. \A d \in DispatchCalls : Claimed(d)' <=> Claimed(d)
    BY <1>1, <1>2 DEF Claimed, Calls
  <2>3. \A d \in DispatchCalls : YetToRun(d)' => YetToRun(d) /\ d # c
    BY <1>1, <1>2 DEF YetToRun, Calls
  <2>4. \A d \in DispatchCalls : YetToRun(d) => Claimed(d)
    BY DEF YetToRun, Claimed
  <2>5. Claimed(c)
    BY <1>1 DEF Claimed
  <2>6. \A d \in DispatchCalls : YetToRun(d)' => task[d] \notin ran'
    BY <1>4, <2>3, <2>4, <2>5 DEF OneClaim
  <2>. QED
    BY <1>1, <1>4, <2>1, <2>2, <2>5, <2>6 DEF OneClaim
<1>. QED
  BY <1>3, <1>4 DEF Reserve

\* What no step of the tracker or of a dispatched call changes.
LEMMA StayKeepsClaims ==
  ASSUME OneClaim, UNCHANGED <<trackerVars, callVars, ran>>
  PROVE  OneClaim'
BY DEF OneClaim, Claimed, YetToRun, trackerVars, callVars

LEMMA InitClaims == Init => OneClaim
<1>1. Cardinality({}) = 0 /\ Len(<<>>) = 0
  BY FS_EmptySet
<1>. QED
  BY <1>1 DEF Init, OneClaim, Claimed, YetToRun, Calls

LEMMA RestartClaims == Restart => OneClaim'
<1>1. Cardinality({}) = 0 /\ Len(<<>>) = 0
  BY FS_EmptySet
<1>. QED
  BY <1>1 DEF Restart, OneClaim, Claimed, YetToRun, Calls

\* Every step of the daemon keeps the claims.
LEMMA NextClaims ==
  ASSUME TrackerHasRoom, TypeOK, OneClaim, [Next]_vars
  PROVE  OneClaim'
<1>1. CASE \E t \in Tasks : StoreTask(t)
  BY <1>1, StayKeepsClaims DEF StoreTask
<1>2. CASE PollQuery \/ PollCheck \/ PollSkip
  BY <1>2, StayKeepsClaims DEF PollQuery, PollCheck, PollSkip
<1>3. ASSUME NEW c \in CourierCalls, NEW t \in Tasks, CourierEvent(c, t)  PROVE OneClaim'
  <2>1. c \in Calls /\ pc'[c] = "claiming"
    BY <1>3 DEF CourierEvent, Begin, TypeOK, Calls, DispatchCalls
  <2>2. \A d \in Calls \ {c} : pc'[d] = pc[d] /\ task'[d] = task[d]
    BY <1>3 DEF CourierEvent, Begin, TypeOK
  <2>. QED
    BY <1>3, <2>1, <2>2, MoveKeepsClaims DEF CourierEvent, Claimed, YetToRun
<1>4. ASSUME NEW c \in CourierCalls, CourierClaim(c)  PROVE OneClaim'
  <2>1. c \in DispatchCalls /\ c \in Calls /\ task[c] \in Tasks
    BY <1>4 DEF CourierClaim, DispatchCalls, Calls, TypeOK
  <2>2. CASE End(c) /\ UNCHANGED trackerVars
    BY <1>4, <2>1, <2>2, EndKeepsClaims DEF CourierClaim
  <2>3. CASE Claim(task[c]) /\ Goto(c, "claiming", "resolving")
    <3>1. pc' = [pc EXCEPT ![c] = "resolving"]
      BY <2>3 DEF Goto
    <3>2. task' = [task EXCEPT ![c] = task[c]]
      BY <2>3 DEF Goto, TypeOK
    <3>. QED
      BY <1>4, <2>1, <2>3, <3>1, <3>2, ClaimIsNew DEF CourierClaim
  <2>. QED
    BY <1>4, <2>2, <2>3 DEF CourierClaim
<1>5. ASSUME NEW c \in PollCalls, PollClaim(c)  PROVE OneClaim'
  <2>1. c \in DispatchCalls /\ Head(batch) \in Tasks
    BY <1>5 DEF PollClaim, DispatchCalls, TypeOK
  <2>. QED
    BY <1>5, <2>1, ClaimIsNew DEF PollClaim, Begin
<1>6. ASSUME NEW c \in HttpCalls, NEW t \in Tasks, NEW a \in Agents, HttpStart(c, t, a)
      PROVE OneClaim'
  <2>1. c \in Calls /\ c \notin DispatchCalls
    BY DispatchAssumption DEF DispatchAssumption, Calls
  <2>2. \A d \in Calls \ {c} : pc'[d] = pc[d] /\ task'[d] = task[d]
    BY <1>6 DEF HttpStart, Begin, TypeOK
  <2>. QED
    BY <1>6, <2>1, <2>2, MoveKeepsClaims DEF HttpStart
<1>7. ASSUME NEW c \in Calls, EarlyReturn(c) \/ ResolveTimeout(c) \/ BusyRelease(c)
                               \/ ReleaseSlot(c) \/ Disconnect(c)
      PROVE OneClaim'
  BY <1>7, EndKeepsClaims
     DEF EarlyReturn, ResolveTimeout, BusyRelease, ReleaseSlot, Disconnect
<1>8. ASSUME NEW c \in Calls, Resolve(c) \/ Admit(c) \/ PersistResult(c) \/ RunReturn(c)
                               \/ ReleaseTask(c)
      PROVE OneClaim'
  <2>1. CASE Resolve(c)
    BY <2>1, GotoKeepsClaims DEF Resolve
  <2>2. CASE Admit(c)
    BY <2>2, GotoKeepsClaims, EndKeepsClaims DEF Admit
  <2>3. CASE PersistResult(c)
    BY <2>3, GotoKeepsClaims DEF PersistResult
  <2>4. CASE RunReturn(c)
    BY <2>4, GotoKeepsClaims DEF RunReturn
  <2>5. CASE ReleaseTask(c)
    BY <2>5, GotoKeepsClaims DEF ReleaseTask
  <2>. QED
    BY <1>8, <2>1, <2>2, <2>3, <2>4, <2>5
<1>9. ASSUME NEW c \in Calls, Reserve(c)  PROVE OneClaim'
  BY <1>9, ReserveKeepsClaims
<1>10. CASE Restart
  BY <1>10, RestartClaims
<1>11. CASE UNCHANGED vars
  BY <1>11, StayKeepsClaims DEF vars
<1>. QED
  BY <1>1, <1>2, <1>3, <1>4, <1>5, <1>6, <1>7, <1>8, <1>9, <1>10, <1>11
  DEF Next, CallStep

\* With a tracker that holds every task, the courier and the poll loop execute a
\* task once between them in a process (claim_dispatch).
THEOREM DispatchRunsOnce == TrackerHasRoom => (Spec => DispatchedRunsOnce)
<1>. SUFFICES ASSUME TrackerHasRoom  PROVE Spec => DispatchedRunsOnce
  OBVIOUS
<1>1. TypeOK /\ OneClaim /\ [Next]_vars => OneClaim'
  BY NextClaims
<1>2. OneClaim => [\A c \in DispatchCalls :
                     pc[c] = "reserve" /\ pc'[c] = "running" => task[c] \notin ran]_vars
  BY DEF OneClaim, YetToRun
<1>. QED
  BY <1>1, <1>2, InitClaims, TypeCorrect, PTL DEF Spec, DispatchedRunsOnce
=============================================================================
