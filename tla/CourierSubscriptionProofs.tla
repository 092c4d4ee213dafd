----------------------- MODULE CourierSubscriptionProofs -----------------------
(***************************************************************************)
(* Proofs about CourierSubscription, for every set of clients, any number  *)
(* of listeners and connections and every set of faults.  The invariant    *)
(* ties the three places that know of a listener together: the call that   *)
(* holds the mutex, the fields sub_id and cancel_tx, and the listener's    *)
(* sender.  While a call is about to subscribe or to unsubscribe the       *)
(* fields are empty, and they always name the same listener.               *)
(***************************************************************************)
EXTENDS CourierSubscription, FiniteSetTheorems, TLAPS

\* One call holds the mutex.
Exclusion ==
  \A p, q \in Callers : caller[p] \in Locking /\ caller[q] \in Locking => p = q

Spawned == {l \in Listeners : stage[l] # "unborn"}

\* What the call that holds the mutex holds.
CallsHold ==
  \A p \in Callers :
    /\ caller[p] \in Locking => sub = None /\ serving[p] \in Spawned
    /\ caller[p] \in {"listening", "asking"} => sender[serving[p]] = "live"
    /\ caller[p] = "asking" => first[serving[p]] # None

Owned ==
  \A l \in Listeners :
    sender[l] = "live" =>
      \/ cancel = l
      \/ \E p \in Callers : serving[p] = l /\ caller[p] \in {"listening", "asking"}

FieldsAgree == cancel = sub /\ (sub # None => sub \in Spawned)

\* Nothing is known of a listener before it is spawned.
Untouched ==
  /\ given_up \subseteq Spawned
  /\ \A r \in remote : r[1] \in Spawned

IInv ==
  /\ TypeOK /\ Exclusion /\ CallsHold /\ Owned /\ FieldsAgree /\ Untouched
  /\ SubscriptionReal /\ RemoteAccounted

LEMMA InitHolds == Init => IInv
BY CourierAssumption
DEF Init, IInv, TypeOK, Exclusion, CallsHold, Owned, FieldsAgree, Untouched, Spawned,
    SubscriptionReal, RemoteAccounted, Locking, None, Listeners, Stages

LEMMA SubscribeKeeps ==
  ASSUME IInv, NEW p \in Callers, Subscribe(p)
  PROVE  IInv'
<1>1. PICK l \in Listeners : Spawn(p, l)
  BY DEF Subscribe
<1>2. /\ stage[l] = "unborn" /\ l \notin Spawned /\ Spawned' = Spawned \cup {l}
      /\ sub = None /\ Unlocked
      /\ sender' = [sender EXCEPT ![l] = "live"]
      /\ caller' = [caller EXCEPT ![p] = "listening"] /\ serving' = [serving EXCEPT ![p] = l]
      /\ UNCHANGED <<sub, cancel, conn, first, opened, remote, given_up>>
  BY <1>1 DEF Spawn, Enter, Subscribe, Spawned, heldVars, remoteVars, IInv, TypeOK
<1>3. TypeOK'
  BY <1>1, <1>2 DEF IInv, TypeOK, Spawn, Stages, Locking
<1>4. Exclusion' /\ CallsHold'
  BY <1>2 DEF IInv, TypeOK, Exclusion, CallsHold, Unlocked, Locking
<1>5. Owned'
  BY <1>2 DEF IInv, TypeOK, Owned, Unlocked, Locking
<1>6. FieldsAgree' /\ Untouched'
  BY <1>2 DEF IInv, FieldsAgree, Untouched
<1>7. SubscriptionReal' /\ RemoteAccounted'
  BY <1>2 DEF IInv, TypeOK, SubscriptionReal, RemoteAccounted, Unlocked, Locking
<1>. QED
  BY <1>3, <1>4, <1>5, <1>6, <1>7 DEF IInv

\* A caller that goes on or leaves without a listener of its own.
LEMMA PassKeeps ==
  ASSUME IInv, NEW p \in Callers, SubscribeTwice(p) \/ ConnectionKnown(p)
  PROVE  IInv'
<1>1. CASE SubscribeTwice(p)
  <2>1. /\ caller' = [caller EXCEPT ![p] = AfterFailure(p)] /\ serving' = [serving EXCEPT ![p] = None]
        /\ AfterFailure(p) \in {"idle", "backoff"} /\ caller[p] = "idle"
        /\ UNCHANGED <<sub, cancel, stage, sender, conn, first, opened, remote, given_up>>
    BY <1>1 DEF SubscribeTwice, Leave, AfterFailure, heldVars, listenerVars, remoteVars
  <2>. QED
    BY <2>1 DEF IInv, TypeOK, Exclusion, CallsHold, Owned, FieldsAgree, Untouched, Spawned,
         SubscriptionReal, RemoteAccounted, Subscription, Locking
<1>2. CASE ConnectionKnown(p)
  <2>1. /\ caller' = [caller EXCEPT ![p] = "asking"] /\ serving' = serving
        /\ caller[p] = "listening" /\ first[serving[p]] # None
        /\ UNCHANGED <<sub, cancel, stage, sender, conn, first, opened, remote, given_up>>
    BY <1>2 DEF ConnectionKnown, Enter, heldVars, listenerVars, remoteVars, IInv, TypeOK
  <2>. QED
    BY <2>1 DEF IInv, TypeOK, Exclusion, CallsHold, Owned, FieldsAgree, Untouched, Spawned,
         SubscriptionReal, RemoteAccounted, Subscription, Locking
<1>. QED
  BY <1>1, <1>2

\* A subscribe that does not succeed: the listener loses its sender, and what
\* memory may have of it counts as given up.
LEMMA GiveUpKeeps ==
  ASSUME IInv, NEW p \in Callers, caller[p] \in {"listening", "asking"},
         NEW to \in {"idle", "backoff"}, GiveUp(p, to),
         \/ remote' = remote
         \/ caller[p] = "asking" /\ remote' = remote \cup {Subscription(serving[p])}
  PROVE  IInv'
<1>1. PICK l \in Spawned : l = serving[p]
  BY DEF IInv, CallsHold, Locking
<1>2. /\ caller' = [caller EXCEPT ![p] = to] /\ serving' = [serving EXCEPT ![p] = None]
      /\ sender' = [sender EXCEPT ![l] = "dropped"] /\ given_up' = given_up \cup {l}
      /\ UNCHANGED <<sub, cancel, stage, conn, first, opened>>
      /\ l \in Listeners /\ sub = None /\ cancel = None
      /\ \A q \in Callers \ {p} : caller[q] \notin Locking
  BY <1>1 DEF GiveUp, Leave, heldVars, Spawned, IInv, CallsHold, FieldsAgree, Locking, Exclusion
<1>3. /\ remote' \subseteq Listeners \X (1..MaxConnections)
      /\ \A r \in remote' : r \in remote \/ r[1] = l
  <2>1. first[l] \in 0..MaxConnections /\ (caller[p] = "asking" => first[l] # 0)
    BY <1>1, <1>2 DEF IInv, TypeOK, CallsHold, None
  <2>2. caller[p] = "asking" => Subscription(l) \in Listeners \X (1..MaxConnections)
    BY <1>2, <2>1, CourierAssumption DEF Subscription
  <2>. QED
    BY <1>1, <2>2 DEF IInv, TypeOK, Subscription
<1>4. TypeOK'
  BY <1>2, <1>3 DEF IInv, TypeOK
<1>5. Exclusion' /\ CallsHold'
  BY <1>2 DEF IInv, TypeOK, Exclusion, CallsHold, Locking
<1>6. Owned'
  BY <1>1, <1>2 DEF IInv, TypeOK, Owned, Locking
<1>7. FieldsAgree' /\ Untouched' /\ SubscriptionReal'
  BY <1>1, <1>2, <1>3 DEF IInv, FieldsAgree, Untouched, SubscriptionReal, Spawned
<1>8. RemoteAccounted'
  BY <1>2, <1>3 DEF IInv, TypeOK, RemoteAccounted, Locking
<1>. QED
  BY <1>4, <1>5, <1>6, <1>7, <1>8 DEF IInv

LEMMA SubscribeOkKeeps ==
  ASSUME IInv, NEW p \in Callers, SubscribeOk(p)
  PROVE  IInv'
<1>1. PICK l \in Spawned : l = serving[p]
  BY DEF SubscribeOk, IInv, CallsHold, Locking
<1>2. /\ caller' = [caller EXCEPT ![p] = AfterSuccess(p)] /\ serving' = [serving EXCEPT ![p] = None]
      /\ AfterSuccess(p) \in {"idle", "parked"}
      /\ remote' = remote \cup {Subscription(l)} /\ sub' = l /\ cancel' = l
      /\ UNCHANGED <<stage, sender, conn, first, opened, given_up>>
      /\ l \in Listeners /\ sub = None /\ cancel = None /\ sender[l] = "live"
      /\ \A q \in Callers \ {p} : caller[q] \notin Locking
      /\ caller[p] = "asking" /\ None \notin Listeners
  BY <1>1 DEF SubscribeOk, Leave, AfterSuccess, listenerVars, Spawned, IInv, CallsHold, FieldsAgree,
       Locking, Exclusion, Listeners, None
<1>3. Subscription(l) \in Listeners \X (1..MaxConnections) /\ Subscription(l)[1] = l
  <2>1. first[l] \in 0..MaxConnections /\ first[l] # 0
    BY <1>1, <1>2 DEF IInv, TypeOK, CallsHold, None, SubscribeOk
  <2>. QED
    BY <1>2, <2>1, CourierAssumption DEF Subscription
<1>4. TypeOK'
  BY <1>2, <1>3 DEF IInv, TypeOK
<1>5. Exclusion' /\ CallsHold'
  BY <1>2 DEF IInv, TypeOK, Exclusion, CallsHold, Locking
<1>6. Owned'
  BY <1>1, <1>2 DEF IInv, TypeOK, Owned, Locking
<1>7. FieldsAgree' /\ Untouched' /\ SubscriptionReal'
  BY <1>1, <1>2, <1>3 DEF IInv, FieldsAgree, Untouched, SubscriptionReal, Spawned, Subscription
<1>8. RemoteAccounted'
  <2>1. \A r \in remote : r[1] \in Listeners
    BY DEF IInv, Untouched, Spawned
  <2>. QED
    BY <1>2, <1>3, <2>1 DEF IInv, TypeOK, RemoteAccounted, Locking
<1>. QED
  BY <1>4, <1>5, <1>6, <1>7, <1>8 DEF IInv

LEMMA UnsubscribeKeeps ==
  ASSUME IInv, NEW p \in Callers, Unsubscribe(p)
  PROVE  IInv'
<1>1. /\ \A q \in Callers : caller[q] \notin Locking
      /\ sub' = None /\ cancel' = None /\ cancel = sub
      /\ UNCHANGED <<stage, conn, first, opened, remote, given_up>>
  BY DEF Unsubscribe, Unlocked, IInv, FieldsAgree, remoteVars
<1>2. /\ sender' \in [Listeners -> {"live", "used", "dropped"}]
      /\ \A l \in Listeners : sender'[l] = "live" => sender[l] = "live" /\ l # cancel
  BY DEF Unsubscribe, Cancelled, IInv, TypeOK, None, Listeners
<1>3. \/ /\ sub # None /\ sub \in Spawned
         /\ caller' = [caller EXCEPT ![p] = "leaving"] /\ serving' = [serving EXCEPT ![p] = sub]
      \/ /\ sub = None
         /\ caller' = [caller EXCEPT ![p] = "idle"] /\ serving' = [serving EXCEPT ![p] = None]
  BY DEF Unsubscribe, Enter, Leave, IInv, FieldsAgree
<1>4. TypeOK'
  BY <1>1, <1>2, <1>3 DEF IInv, TypeOK, Locking
<1>5. Exclusion' /\ CallsHold'
  BY <1>1, <1>3 DEF IInv, TypeOK, Exclusion, CallsHold, Locking, Spawned
<1>6. Owned'
  BY <1>1, <1>2 DEF IInv, TypeOK, Owned, Locking
<1>7. FieldsAgree' /\ Untouched' /\ SubscriptionReal'
  BY <1>1 DEF IInv, FieldsAgree, Untouched, SubscriptionReal, Spawned
<1>8. RemoteAccounted'
  BY <1>1, <1>3 DEF IInv, TypeOK, RemoteAccounted, Locking
<1>. QED
  BY <1>4, <1>5, <1>6, <1>7, <1>8 DEF IInv

\* The end of an unsubscribe: memory has forgotten the subscription, or it counts
\* as given up.
LEMMA LeavingKeeps ==
  ASSUME IInv, NEW p \in Callers, caller[p] = "leaving", Leave(p, "idle"),
         \/ Forget(serving[p]) /\ given_up' = given_up
         \/ (Forget(serving[p]) \/ remote' = remote) /\ given_up' = given_up \cup {serving[p]},
         UNCHANGED <<heldVars, listenerVars>>
  PROVE  IInv'
<1>1. /\ serving[p] \in Spawned /\ serving[p] \in Listeners
      /\ \A q \in Callers \ {p} : caller[q] \notin Locking
      /\ caller' = [caller EXCEPT ![p] = "idle"] /\ serving' = [serving EXCEPT ![p] = None]
      /\ UNCHANGED <<sub, cancel, stage, sender, conn, first, opened>> /\ sub = None /\ cancel = None
  BY DEF IInv, CallsHold, FieldsAgree, Exclusion, Locking, Leave, heldVars, listenerVars, Spawned
<1>2. /\ remote' \subseteq remote
      /\ \A r \in remote' : r[1] = serving[p] => r[1] \in given_up'
      /\ given_up \subseteq given_up' /\ given_up' \subseteq given_up \cup {serving[p]}
  BY DEF Forget
<1>3. TypeOK'
  BY <1>1, <1>2 DEF IInv, TypeOK
<1>4. Exclusion' /\ CallsHold' /\ Owned'
  BY <1>1 DEF IInv, TypeOK, Exclusion, CallsHold, Owned, Locking, Spawned
<1>5. FieldsAgree' /\ Untouched' /\ SubscriptionReal'
  BY <1>1, <1>2 DEF IInv, FieldsAgree, Untouched, SubscriptionReal, Spawned
<1>6. RemoteAccounted'
  BY <1>1, <1>2 DEF IInv, TypeOK, RemoteAccounted, Locking
<1>. QED
  BY <1>3, <1>4, <1>5, <1>6 DEF IInv

\* A listener that reads, fails, reconnects or stops changes nothing of what the
\* daemon and memory believe of it; it stays spawned.
LEMMA ListenerKeeps ==
  ASSUME IInv, NEW l \in Listeners, ListenerStep(l)
  PROVE  IInv'
<1>1. /\ UNCHANGED <<caller, serving, sub, cancel, sender, remote, given_up>>
      /\ Spawned' = Spawned
      /\ \A k \in Listeners : first[k] # None => first'[k] = first[k]
  BY DEF ListenerStep, Open, Announce, StreamFails, Reconnect, Stop, Move, heldVars, remoteVars,
       Spawned, IInv, TypeOK
<1>2. TypeOK'
  <2>1. CASE Open(l)
    BY <2>1, CourierAssumption DEF Open, Move, heldVars, remoteVars, IInv, TypeOK, Stages
  <2>2. CASE Announce(l)
    BY <2>2 DEF Announce, heldVars, remoteVars, IInv, TypeOK
  <2>3. CASE StreamFails(l)
    BY <2>3, CourierAssumption DEF StreamFails, Move, heldVars, remoteVars, IInv, TypeOK, Stages, None
  <2>4. CASE Reconnect(l)
    BY <2>4 DEF Reconnect, Move, heldVars, remoteVars, IInv, TypeOK, Stages
  <2>5. CASE Stop(l)
    BY <2>5, CourierAssumption DEF Stop, heldVars, remoteVars, IInv, TypeOK, Stages, None
  <2>. QED
    BY <2>1, <2>2, <2>3, <2>4, <2>5 DEF ListenerStep
<1>3. Exclusion' /\ Owned' /\ FieldsAgree' /\ Untouched' /\ RemoteAccounted'
  BY <1>1 DEF IInv, Exclusion, Owned, FieldsAgree, Untouched, RemoteAccounted
<1>4. CallsHold'
  BY <1>1 DEF IInv, CallsHold, Spawned, Locking
<1>5. SubscriptionReal'
  <2> SUFFICES ASSUME sub # None PROVE Subscription(sub)' \in remote /\ cancel = sub /\ sender[sub] = "live"
    BY <1>1 DEF SubscriptionReal, Subscription
  <2>1. Subscription(sub) \in remote /\ sub \in Listeners /\ cancel = sub /\ sender[sub] = "live"
    BY DEF IInv, SubscriptionReal, FieldsAgree, Spawned
  <2>2. first[sub] # None
    BY <2>1 DEF IInv, TypeOK, Subscription, None
  <2>. QED
    BY <1>1, <2>1, <2>2 DEF Subscription
<1>. QED
  BY <1>2, <1>3, <1>4, <1>5 DEF IInv

LEMMA RestartKeeps ==
  ASSUME IInv, Restart
  PROVE  IInv'
<1>1. Spawned' = Spawned /\ given_up' = Spawned
  BY DEF Restart, Spawned
<1>2. TypeOK'
  BY CourierAssumption DEF Restart, IInv, TypeOK, Stages, None
<1>3. (Exclusion /\ CallsHold /\ Owned /\ FieldsAgree /\ SubscriptionReal)'
  BY DEF Restart, Exclusion, CallsHold, Owned, FieldsAgree, SubscriptionReal, Locking
<1>4. Untouched' /\ RemoteAccounted'
  BY <1>1 DEF Restart, IInv, Untouched, RemoteAccounted
<1>. QED
  BY <1>2, <1>3, <1>4 DEF IInv

LEMMA StepKeeps ==
  ASSUME IInv, [Next]_vars
  PROVE  IInv'
<1>1. ASSUME NEW p \in Callers, CallStep(p) PROVE IInv'
  <2>1. CASE ConnectionTimeout(p)
    <3>1. AfterFailure(p) \in {"idle", "backoff"}
      BY DEF AfterFailure
    <3>. QED
      BY <2>1, <3>1, GiveUpKeeps DEF ConnectionTimeout
  <2>2. CASE SubscribeFails(p)
    <3>1. AfterFailure(p) \in {"idle", "backoff"}
      BY DEF AfterFailure
    <3>. QED
      BY <2>2, <3>1, GiveUpKeeps DEF SubscribeFails
  <2>3. CASE UnsubscribeOk(p) \/ UnsubscribeFails(p)
    BY <2>3, LeavingKeeps DEF UnsubscribeOk, UnsubscribeFails
  <2>. QED
    BY <1>1, <2>1, <2>2, <2>3, SubscribeKeeps, PassKeeps, SubscribeOkKeeps, UnsubscribeKeeps
    DEF CallStep
<1>2. ASSUME NEW c \in Clients, Disconnect(c) PROVE IInv'
  <2>1. c \in Callers
    BY DEF Callers
  <2>2. CASE caller[c] \in {"listening", "asking"}
    BY <1>2, <2>1, <2>2, GiveUpKeeps DEF Disconnect
  <2>3. CASE caller[c] = "leaving"
    BY <1>2, <2>1, <2>3, LeavingKeeps DEF Disconnect
  <2>. QED
    BY <1>2, <2>2, <2>3 DEF Disconnect
<1>3. CASE UNCHANGED vars
  BY <1>3 DEF vars, heldVars, listenerVars, remoteVars, IInv, TypeOK, Exclusion, CallsHold, Owned,
       FieldsAgree, Untouched, Spawned, SubscriptionReal, RemoteAccounted, Subscription
<1>. QED
  BY <1>1, <1>2, <1>3, ListenerKeeps, RestartKeeps DEF Next

LEMMA Inductive == Spec => []IInv
BY InitHolds, StepKeeps, PTL DEF Spec

\* Callers, listeners and memory keep their types.
THEOREM TypeCorrect == Spec => []TypeOK
<1>1. IInv => TypeOK
  BY DEF IInv
<1>. QED
  BY <1>1, Inductive, PTL

\* One call at most holds the mutex.
LEMMA OneHolder ==
  ASSUME Exclusion
  PROVE  Cardinality({p \in Callers : caller[p] \in Locking}) <= 1
<1> DEFINE H == {p \in Callers : caller[p] \in Locking}
<1>1. CASE H = {}
  BY <1>1, FS_EmptySet
<1>2. CASE H # {}
  <2>1. PICK p : p \in H
    BY <1>2
  <2>2. H = {p}
    BY <2>1 DEF Exclusion
  <2>3. Cardinality(H) = 1
    BY <2>2, FS_Singleton
  <2>. QED
    BY <2>3
<1>. QED
  BY <1>1, <1>2

\* A listener that is not told to stop belongs to the subscription in force or to
\* the one call under way.
THEOREM ListenersAreOwned == Spec => []ListenersOwned
<1>1. IInv => ListenersOwned
  BY OneHolder DEF IInv, Owned, ListenersOwned
<1>. QED
  BY <1>1, Inductive, PTL

\* The subscription the daemon believes in is in memory, and its listener reads.
THEOREM SubscriptionIsReal == Spec => []SubscriptionReal
<1>1. IInv => SubscriptionReal
  BY DEF IInv
<1>. QED
  BY <1>1, Inductive, PTL

\* A subscription in memory is in force, being removed, or given up.
THEOREM RemoteIsAccounted == Spec => []RemoteAccounted
<1>1. IInv => RemoteAccounted
  BY DEF IInv
<1>. QED
  BY <1>1, Inductive, PTL
=============================================================================
