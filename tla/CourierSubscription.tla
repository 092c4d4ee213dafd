------------------------ MODULE CourierSubscription ------------------------
(***************************************************************************)
(* The daemon's subscription to the memory server's courier: one           *)
(* CourierListener behind a mutex, used by the watcher's courier loop and  *)
(* by MCP clients, and the listener tasks it spawns, each reading a stream *)
(* of events and reconnecting when the stream ends.                        *)
(*                                                                         *)
(* A call that subscribes spawns a listener, waits for the connection id   *)
(* that the stream announces first, and names it to memory.  Subscriptions *)
(* and listeners are numbered alike, since every subscription has its own  *)
(* listener; connections are numbered as they open.  Memory is external:   *)
(* it sends tasks on the connection a subscription names.                  *)
(***************************************************************************)
EXTENDS Integers, FiniteSets

CONSTANTS
  Clients,         \* MCP clients that call agent_courier_(un)subscribe
  Watcher,         \* the courier loop
  MaxListeners,    \* bound on the listeners spawned
  MaxConnections,  \* bound on the connections opened
  Faults           \* the faults the environment may inject

FaultKinds == {"stream",   \* a stream ends, or cannot be opened
               "memory",   \* a call to memory fails, before or after its effect
               "clients",  \* an MCP client goes away in the middle of a call
               "restart"}  \* the daemon is restarted

ASSUME CourierAssumption ==
  /\ Watcher \notin Clients
  /\ MaxListeners \in Nat \ {0} /\ MaxConnections \in Nat \ {0}
  /\ Faults \subseteq FaultKinds

Callers == Clients \cup {Watcher}
Listeners == 1..MaxListeners
None == 0

VARIABLES
  caller,   \* the point each caller has reached
  serving,  \* the listener, or subscription, its call is about
  sub,      \* CourierListener.sub_id
  cancel,   \* the listener that CourierListener.cancel_tx stops
  stage,    \* the point each listener task has reached
  sender,   \* its cancellation sender: live, used or dropped
  conn,     \* its open connection
  first,    \* the connection id it announced to its call
  opened,   \* connections opened so far
  remote,   \* the subscriptions in memory, each with its connection
  given_up  \* the subscriptions whose call failed or was abandoned

listenerVars == <<stage, sender, conn, first, opened>>
heldVars == <<sub, cancel>>
remoteVars == <<remote, given_up>>
vars == <<caller, serving, heldVars, listenerVars, remoteVars>>

Stages == {"unborn", "connecting", "open", "waiting", "stopped"}

\* A call holds the mutex from its first step to its last.
Locking == {"listening", "asking", "leaving"}
Unlocked == \A p \in Callers : caller[p] \notin Locking

Init ==
  /\ caller = [p \in Callers |-> "idle"] /\ serving = [p \in Callers |-> None]
  /\ sub = None /\ cancel = None
  /\ stage = [l \in Listeners |-> "unborn"]
  /\ sender = [l \in Listeners |-> "dropped"]
  /\ conn = [l \in Listeners |-> None] /\ first = [l \in Listeners |-> None]
  /\ opened = 0
  /\ remote = {} /\ given_up = {}

-----------------------------------------------------------------------------
(* Calls.                                                                  *)

\* Where a caller goes on: the watcher parks for ever on success and backs
\* off on failure; a client gets its answer.
AfterSuccess(p) == IF p = Watcher THEN "parked" ELSE "idle"

AfterFailure(p) == IF p = Watcher THEN "backoff" ELSE "idle"

Leave(p, to) ==
  /\ caller' = [caller EXCEPT ![p] = to]
  /\ serving' = [serving EXCEPT ![p] = None]

Enter(p, at, l) ==
  /\ caller' = [caller EXCEPT ![p] = at]
  /\ serving' = [serving EXCEPT ![p] = l]

\* The call returns or is dropped, and its local cancel_tx with it.
GiveUp(p, to) ==
  /\ Leave(p, to)
  /\ sender' = [sender EXCEPT ![serving[p]] = "dropped"]
  /\ given_up' = given_up \cup {serving[p]}
  /\ UNCHANGED <<heldVars, stage, conn, first, opened>>

\* The bound on listeners keeps the last one for the watcher.
Spawn(p, l) ==
  /\ stage[l] = "unborn" /\ \A k \in 1..(l - 1) : stage[k] # "unborn"
  /\ p = Watcher \/ l < MaxListeners
  /\ stage' = [stage EXCEPT ![l] = "connecting"]
  /\ sender' = [sender EXCEPT ![l] = "live"]
  /\ Enter(p, "listening", l)
  /\ UNCHANGED <<heldVars, conn, first, opened, remoteVars>>

\* Mutant of Subscribe: an existing subscription is not looked at.
SubscribeAgain(p) ==
  /\ caller[p] = "idle" /\ Unlocked
  /\ \E l \in Listeners : Spawn(p, l)

Subscribe(p) ==
  /\ caller[p] = "idle" /\ Unlocked
  /\ sub = None
  /\ \E l \in Listeners : Spawn(p, l)

\* "already subscribed", which only the watcher remembers.
SubscribeTwice(p) ==
  /\ caller[p] = "idle" /\ Unlocked
  /\ sub # None
  /\ Leave(p, AfterFailure(p))
  /\ UNCHANGED <<heldVars, listenerVars, remoteVars>>

\* The connection id arrives within ten seconds, or the call gives up.
ConnectionKnown(p) ==
  /\ caller[p] = "listening"
  /\ first[serving[p]] # None
  /\ Enter(p, "asking", serving[p])
  /\ UNCHANGED <<heldVars, listenerVars, remoteVars>>

ConnectionTimeout(p) ==
  /\ "stream" \in Faults
  /\ caller[p] = "listening"
  /\ GiveUp(p, AfterFailure(p))
  /\ UNCHANGED remote

Subscription(l) == <<l, first[l]>>

\* Mutant of SubscribeOk: the sender is dropped at the end of the call.
SubscribeOkUnkept(p) ==
  /\ caller[p] = "asking"
  /\ remote' = remote \cup {Subscription(serving[p])}
  /\ sub' = serving[p]
  /\ sender' = [sender EXCEPT ![serving[p]] = "dropped"]
  /\ Leave(p, AfterSuccess(p))
  /\ UNCHANGED <<cancel, stage, conn, first, opened, given_up>>

SubscribeOk(p) ==
  /\ caller[p] = "asking"
  /\ remote' = remote \cup {Subscription(serving[p])}
  /\ sub' = serving[p] /\ cancel' = serving[p]
  /\ Leave(p, AfterSuccess(p))
  /\ UNCHANGED <<listenerVars, given_up>>

\* An error of memory, which may have subscribed the agent all the same.
SubscribeFails(p) ==
  /\ "memory" \in Faults
  /\ caller[p] = "asking"
  /\ remote' \in {remote, remote \cup {Subscription(serving[p])}}
  /\ GiveUp(p, AfterFailure(p))

\* The sender is used, and both fields are emptied, before memory is asked.
Cancelled == IF cancel = None THEN sender ELSE [sender EXCEPT ![cancel] = "used"]

\* Mutant of Unsubscribe: the listener is not told.
UnsubscribeSilently(p) ==
  /\ \/ p = Watcher /\ caller[p] = "backoff"
     \/ p # Watcher /\ caller[p] = "idle" /\ sub # None
  /\ Unlocked
  /\ cancel' = None
  /\ sub' = None
  /\ IF sub # None THEN Enter(p, "leaving", sub) ELSE Leave(p, "idle")
  /\ UNCHANGED <<listenerVars, remoteVars>>

\* A client asks for it; the watcher does it after every failure.
Unsubscribe(p) ==
  /\ \/ p = Watcher /\ caller[p] = "backoff"
     \/ p # Watcher /\ caller[p] = "idle" /\ sub # None
  /\ Unlocked
  /\ sender' = Cancelled /\ cancel' = None
  /\ sub' = None
  /\ IF sub # None THEN Enter(p, "leaving", sub) ELSE Leave(p, "idle")
  /\ UNCHANGED <<stage, conn, first, opened, remoteVars>>

Forget(l) == remote' = {r \in remote : r[1] # l}

UnsubscribeOk(p) ==
  /\ caller[p] = "leaving"
  /\ Forget(serving[p])
  /\ Leave(p, "idle")
  /\ UNCHANGED <<heldVars, listenerVars, given_up>>

UnsubscribeFails(p) ==
  /\ "memory" \in Faults
  /\ caller[p] = "leaving"
  /\ Forget(serving[p]) \/ UNCHANGED remote
  /\ given_up' = given_up \cup {serving[p]}
  /\ Leave(p, "idle")
  /\ UNCHANGED <<heldVars, listenerVars>>

\* The client hangs up and its call is dropped at an await.
Disconnect(c) ==
  /\ "clients" \in Faults
  /\ \/ /\ caller[c] \in {"listening", "asking"}
        /\ \/ UNCHANGED remote
           \/ caller[c] = "asking" /\ remote' = remote \cup {Subscription(serving[c])}
        /\ GiveUp(c, "idle")
     \/ /\ caller[c] = "leaving"
        /\ Forget(serving[c]) \/ UNCHANGED remote
        /\ given_up' = given_up \cup {serving[c]}
        /\ Leave(c, "idle")
        /\ UNCHANGED <<heldVars, listenerVars>>

-----------------------------------------------------------------------------
(* Listener tasks.                                                         *)

Move(l, from, to) == stage[l] = from /\ stage' = [stage EXCEPT ![l] = to]

Open(l) ==
  /\ Move(l, "connecting", "open")
  /\ opened < MaxConnections
  /\ opened' = opened + 1
  /\ conn' = [conn EXCEPT ![l] = opened + 1]
  /\ UNCHANGED <<caller, serving, heldVars, sender, first, remoteVars>>

\* The event "connected": only the first one reaches the call.
Announce(l) ==
  /\ stage[l] = "open" /\ first[l] = None
  /\ first' = [first EXCEPT ![l] = conn[l]]
  /\ UNCHANGED <<caller, serving, heldVars, stage, sender, conn, opened, remoteVars>>

\* The stream cannot be opened, ends, or breaks.
StreamFails(l) ==
  /\ "stream" \in Faults
  /\ Move(l, "connecting", "waiting") \/ Move(l, "open", "waiting")
  /\ conn' = [conn EXCEPT ![l] = None]
  /\ UNCHANGED <<caller, serving, heldVars, sender, first, opened, remoteVars>>

\* After the delay; a listener cancelled meanwhile may still get this far.
Reconnect(l) ==
  /\ Move(l, "waiting", "connecting")
  /\ UNCHANGED <<caller, serving, heldVars, sender, conn, first, opened, remoteVars>>

\* Mutant of Stop: only a used sender stops the listener.
StopWhenUsed(l) ==
  /\ stage[l] \in {"open", "waiting", "connecting"} /\ sender[l] = "used"
  /\ stage' = [stage EXCEPT ![l] = "stopped"]
  /\ conn' = [conn EXCEPT ![l] = None]
  /\ UNCHANGED <<caller, serving, heldVars, sender, first, opened, remoteVars>>

\* select! sees the sender used or dropped; the head of the loop sees it used.
Stop(l) ==
  /\ \/ stage[l] \in {"open", "waiting"} /\ sender[l] # "live"
     \/ stage[l] = "connecting" /\ sender[l] = "used"
  /\ stage' = [stage EXCEPT ![l] = "stopped"]
  /\ conn' = [conn EXCEPT ![l] = None]
  /\ UNCHANGED <<caller, serving, heldVars, sender, first, opened, remoteVars>>

\* What memory holds survives; the daemon's tables do not.
Restart ==
  /\ "restart" \in Faults
  /\ caller' = [p \in Callers |-> "idle"] /\ serving' = [p \in Callers |-> None]
  /\ sub' = None /\ cancel' = None
  /\ stage' = [l \in Listeners |-> IF stage[l] = "unborn" THEN "unborn" ELSE "stopped"]
  /\ sender' = [l \in Listeners |-> "dropped"]
  /\ conn' = [l \in Listeners |-> None]
  /\ given_up' = {l \in Listeners : stage[l] # "unborn"}
  /\ UNCHANGED <<first, opened, remote>>

-----------------------------------------------------------------------------

CallStep(p) ==
  \/ Subscribe(p) \/ SubscribeTwice(p) \/ ConnectionKnown(p) \/ ConnectionTimeout(p)
  \/ SubscribeOk(p) \/ SubscribeFails(p)
  \/ Unsubscribe(p) \/ UnsubscribeOk(p) \/ UnsubscribeFails(p)

ListenerStep(l) ==
  Open(l) \/ Announce(l) \/ StreamFails(l) \/ Reconnect(l) \/ Stop(l)

Next ==
  \/ \E p \in Callers : CallStep(p)
  \/ \E c \in Clients : Disconnect(c)
  \/ \E l \in Listeners : ListenerStep(l)
  \/ Restart

Spec == Init /\ [][Next]_vars

\* Every task the runtime has spawned goes on, and the mutex is handed over in
\* the order it is asked for; a call of a client is driven once begun, a new
\* one need not come.  select! polls its branches in random order, so it cannot
\* pass over a cancellation for ever.
FairSpec ==
  /\ Spec
  /\ SF_vars(CallStep(Watcher))
  /\ \A c \in Clients : WF_vars(caller[c] \in Locking /\ CallStep(c))
  /\ \A l \in Listeners : WF_vars(Open(l) \/ Announce(l) \/ Reconnect(l)) /\ SF_vars(Stop(l))

-----------------------------------------------------------------------------
(* Properties.                                                             *)

TypeOK ==
  /\ caller \in [Callers -> {"idle", "backoff", "parked"} \cup Locking]
  /\ serving \in [Callers -> Listeners \cup {None}]
  /\ sub \in Listeners \cup {None} /\ cancel \in Listeners \cup {None}
  /\ stage \in [Listeners -> Stages]
  /\ sender \in [Listeners -> {"live", "used", "dropped"}]
  /\ opened \in 0..MaxConnections
  /\ conn \in [Listeners -> 0..MaxConnections]
  /\ first \in [Listeners -> 0..MaxConnections]
  /\ remote \subseteq Listeners \X (1..MaxConnections)
  /\ given_up \subseteq Listeners

\* A listener that is not told to stop belongs to the subscription in force or
\* to the one call that is under way: no other keeps reading the courier.
ListenersOwned ==
  /\ Cardinality({p \in Callers : caller[p] \in Locking}) <= 1
  /\ \A l \in Listeners :
       sender[l] = "live" =>
         \/ cancel = l
         \/ \E p \in Callers : serving[p] = l /\ caller[p] \in {"listening", "asking"}

\* The subscription the daemon believes in is in memory, on the connection its
\* listener announced, and its listener has not been told to stop.
SubscriptionReal ==
  sub # None =>
    /\ Subscription(sub) \in remote
    /\ cancel = sub /\ sender[sub] = "live"

\* A subscription in memory is the one in force, or one that is being removed,
\* or one whose call failed or was cut off.
RemoteAccounted ==
  \A r \in remote :
    \/ r[1] = sub
    \/ \E p \in Callers : caller[p] = "leaving" /\ serving[p] = r[1]
    \/ r[1] \in given_up

\* A listener whose subscription is gone stops, whatever its stream does (one
\* that tries to connect when MaxConnections are used up is left out).
StraysStop ==
  \A l \in Listeners :
    sender[l] # "live" /\ stage[l] # "unborn"
      ~> stage[l] = "stopped" \/ (stage[l] = "connecting" /\ opened = MaxConnections)
=============================================================================
