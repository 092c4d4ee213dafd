-------------------------- MODULE OAuthTokensProofs --------------------------
(***************************************************************************)
(* Proofs about OAuthTokens, for every set of clients, tokens, calls and   *)
(* admins and every set of faults.  The inductive invariant is the three   *)
(* properties, strengthened by: an id that is in a store, in a file or     *)
(* removed has been drawn (so it is not drawn again), and a token a call is *)
(* about to deliver is already as safe as a delivered one.                 *)
(***************************************************************************)
EXTENDS OAuthTokens, TLAPS

\* Ids are drawn once: what is stored or removed has an owner.
Issued == \A id \in refresh \cup diskRefresh \cup gone : owner[id] # None
Registered == clients \cup diskClients \cup deleted \subseteq used

\* The token a call carries to its answer is in memory and on disk, unless
\* somebody has asked to remove it meanwhile.
CarriedSurvives ==
  \A c \in Actors :
    pc[c] \in {"touch_token", "touch_client"} =>
      tok[c] \in dropped \/ tok[c] \in refresh \cap diskRefresh

IInv == /\ TypeOK
        /\ AccessHasRefresh
        /\ Issued
        /\ Registered
        /\ RemovalSticks
        /\ CarriedSurvives
        /\ DeliveredSurvives

\* Every disjunct of Next as one fact, for the case splits below.
LEMMA NextCases ==
  ASSUME Next
  PROVE  \/ \E k \in Clients : RegisterClient(k)
         \/ \E c \in Calls, k \in Clients : Authenticate(c, k)
         \/ \E c \in Calls : Reject(c) \/ ConsumeCode(c)
         \/ \E c \in Calls : TouchToken(c)
         \/ \E c \in Calls : TouchClient(c)
         \/ \E c \in Calls, id \in TokenIds : Mint(c, id)
         \/ \E c \in Calls, id \in TokenIds : RevokeRefresh(c, id)
         \/ \E c \in Calls, id \in TokenIds : RevokeAccess(c, id)
         \/ \E c \in Calls, old \in TokenIds, id \in TokenIds : Rotate(c, old, id)
         \/ \E id \in TokenIds : AdminRevokeToken(id)
         \/ \E a \in Admins, k \in Clients : AdminRevokeClient(a, k)
         \/ \E a \in Admins : Cascade(a)
         \/ SweepAccess
         \/ \E c \in Actors : Drop(c)
         \/ Restart
BY DEF Next

\* Saves are Boolean choices.
LEMMA SavesBoolean == Saves \subseteq BOOLEAN
BY DEF Saves

\* Only the three removals below take a refresh token out of memory; each
\* leaves the invariant true whatever its save returns.
LEMMA RemoveTokensKeeps ==
  ASSUME IInv, NEW S, S \subseteq refresh, NEW A, A \subseteq TokenIds,
         S \subseteq A, NEW ok \in BOOLEAN, RemoveTokens(S, A, ok),
         UNCHANGED owner
  PROVE  /\ refresh' \subseteq TokenIds /\ diskRefresh' \subseteq TokenIds
         /\ access' \subseteq TokenIds
         /\ gone' \subseteq TokenIds /\ dropped' \subseteq TokenIds
         /\ AccessHasRefresh' /\ Issued'
         /\ gone' \cap (refresh' \cup diskRefresh' \cup access') = {}
         /\ \A id \in TokenIds :
              id \in dropped \/ id \in refresh \cap diskRefresh =>
                id \in dropped' \/ id \in refresh' \cap diskRefresh'
BY DEF IInv, TypeOK, AccessHasRefresh, Issued, RemovalSticks, RemoveTokens,
       SaveTokens

\* A pair is minted under an id that was never used, so it is not a removed one.
LEMMA MintPairKeeps ==
  ASSUME IInv, NEW id \in TokenIds, NEW k \in Clients, NEW old,
         old \subseteq refresh, NEW ok \in BOOLEAN, MintPair(id, k, old, ok),
         dropped' = dropped \cup old,
         gone' = IF ok THEN gone \cup old ELSE gone
  PROVE  /\ refresh' \subseteq TokenIds /\ diskRefresh' \subseteq TokenIds
         /\ access' \subseteq TokenIds
         /\ gone' \subseteq TokenIds /\ dropped' \subseteq TokenIds
         /\ owner' \in [TokenIds -> Clients \cup {None}]
         /\ AccessHasRefresh' /\ Issued'
         /\ gone' \cap (refresh' \cup diskRefresh' \cup access') = {}
         /\ ok => id \in refresh' \cap diskRefresh'
         /\ \A t \in TokenIds :
              t \in dropped \/ t \in refresh \cap diskRefresh =>
                t \in dropped' \/ t \in refresh' \cap diskRefresh'
BY OAuthAssumption DEF IInv, TypeOK, AccessHasRefresh, Issued, RemovalSticks, MintPair,
       SaveTokens

\* Every handler of the registries, failing saves and restarts included, keeps
\* the inductive invariant.
THEOREM Inductive == IInv /\ [Next]_vars => IInv'
<1> SUFFICES ASSUME IInv, [Next]_vars PROVE IInv'
  OBVIOUS
<1> USE OAuthAssumption DEF IInv
<1>1. CASE \E k \in Clients : RegisterClient(k)
  <2>1. PICK k \in Clients : RegisterClient(k)
    BY <1>1
  <2>2. PICK ok \in Saves :
          /\ SaveClients(ok)
          /\ known' = IF ok THEN known \cup {k} ELSE known
    BY <2>1 DEF RegisterClient
  <2>3. TypeOK' /\ Registered'
    BY <2>1, <2>2 DEF RegisterClient, SaveClients, TypeOK, Registered, callVars
  <2>4. RemovalSticks'
    BY <2>1, <2>2 DEF RegisterClient, SaveClients, RemovalSticks, Registered
  <2> QED
    BY <2>1, <2>3, <2>4 DEF RegisterClient, AccessHasRefresh, Issued, CarriedSurvives,
       DeliveredSurvives, callVars
<1>2. CASE \E c \in Calls, k \in Clients : Authenticate(c, k)
  BY <1>2 DEF Authenticate, TypeOK, AccessHasRefresh, Issued, Registered,
     RemovalSticks, CarriedSurvives, DeliveredSurvives, storeVars, histVars,
     Actors, CallPc
<1>3. CASE \E c \in Calls : Reject(c) \/ ConsumeCode(c)
  BY <1>3 DEF Reject, ConsumeCode, End, Goto, TypeOK, AccessHasRefresh, Issued,
     Registered, RemovalSticks, CarriedSurvives, DeliveredSurvives, storeVars,
     histVars, Actors, CallPc
<1>4. CASE \E c \in Calls : TouchToken(c)
  <2>1. PICK c \in Calls : TouchToken(c)
    BY <1>4
  <2>2. diskRefresh' = diskRefresh \/ diskRefresh' = refresh
    BY <2>1, SavesBoolean DEF TouchToken, SaveTokens
  <2>3. TypeOK'
    BY <2>1, <2>2 DEF TouchToken, Goto, TypeOK, histVars, Actors, CallPc
  <2> QED
    BY <2>1, <2>2, <2>3 DEF TouchToken, Goto, TypeOK, AccessHasRefresh, Issued,
       Registered, RemovalSticks, CarriedSurvives, DeliveredSurvives, histVars
<1>5. CASE \E c \in Calls : TouchClient(c)
  <2>1. PICK c \in Calls : TouchClient(c)
    BY <1>5
  <2>2. diskClients' = diskClients \/ diskClients' = clients
    BY <2>1, SavesBoolean DEF TouchClient, SaveClients
  <2>3. c \in Actors /\ pc[c] = "touch_client" /\ tok[c] \in TokenIds
    BY <2>1 DEF TouchClient, TypeOK, Actors
  <2>4. TypeOK'
    BY <2>1, <2>2, <2>3 DEF TouchClient, End, TypeOK, Actors, CallPc
  <2>5. DeliveredSurvives' /\ CarriedSurvives'
    BY <2>1, <2>3 DEF TouchClient, End, TypeOK, CarriedSurvives, DeliveredSurvives
  <2> QED
    BY <2>1, <2>2, <2>4, <2>5 DEF TouchClient, AccessHasRefresh, Issued,
       Registered, RemovalSticks
<1>6. CASE \E c \in Calls, id \in TokenIds : Mint(c, id)
  <2>1. PICK c \in Calls, id \in TokenIds : Mint(c, id)
    BY <1>6
  <2>2. c \in Actors /\ who[c] \in Clients
    BY <2>1 DEF Mint, TypeOK, Actors
  <2>3. PICK ok \in BOOLEAN :
          /\ MintPair(id, who[c], {}, ok)
          /\ \/ /\ ok
                /\ pc' = [pc EXCEPT ![c] = "touch_client"]
                /\ tok' = [tok EXCEPT ![c] = id]
                /\ UNCHANGED who
             \/ ~ok /\ End(c)
    BY <2>1, SavesBoolean DEF Mint
  <2>4. /\ refresh' \subseteq TokenIds /\ diskRefresh' \subseteq TokenIds
        /\ access' \subseteq TokenIds
        /\ owner' \in [TokenIds -> Clients \cup {None}]
        /\ AccessHasRefresh' /\ Issued'
        /\ gone' \cap (refresh' \cup diskRefresh' \cup access') = {}
        /\ ok => id \in refresh' \cap diskRefresh'
        /\ \A t \in TokenIds :
             t \in dropped \/ t \in refresh \cap diskRefresh =>
               t \in dropped' \/ t \in refresh' \cap diskRefresh'
    <3>1. dropped' = dropped \cup {} /\ gone' = IF ok THEN gone \cup {} ELSE gone
      BY <2>1 DEF Mint
    <3>2. {} \subseteq refresh
      OBVIOUS
    <3>3. MintPair(id, who[c], {}, ok)
      BY <2>3
    <3> HIDE DEF IInv
    <3> QED
      BY <3>1, <3>2, <3>3, <2>2, MintPairKeeps
  <2>5. TypeOK'
    BY <2>1, <2>2, <2>3, <2>4 DEF Mint, LateMint, End, TypeOK, CallPc
  <2>6. CarriedSurvives'
    BY <2>2, <2>3, <2>4 DEF End, TypeOK, CarriedSurvives
  <2> QED
    BY <2>1, <2>4, <2>5, <2>6 DEF Mint, TypeOK, Registered, RemovalSticks,
       DeliveredSurvives
<1>7. CASE \E c \in Calls, id \in TokenIds : RevokeRefresh(c, id)
  <2>1. PICK c \in Calls, id \in TokenIds : RevokeRefresh(c, id)
    BY <1>7
  <2>2. PICK ok \in BOOLEAN : RemoveTokens({id}, {id}, ok)
    BY <2>1, SavesBoolean DEF RevokeRefresh
  <2>3. UNCHANGED owner /\ {id} \subseteq refresh /\ c \in Actors
    BY <2>1 DEF RevokeRefresh, Actors
  <2>4. /\ refresh' \subseteq TokenIds /\ diskRefresh' \subseteq TokenIds
        /\ access' \subseteq TokenIds
        /\ gone' \subseteq TokenIds /\ dropped' \subseteq TokenIds
        /\ AccessHasRefresh' /\ Issued'
        /\ gone' \cap (refresh' \cup diskRefresh' \cup access') = {}
        /\ \A t \in TokenIds :
             t \in dropped \/ t \in refresh \cap diskRefresh =>
               t \in dropped' \/ t \in refresh' \cap diskRefresh'
    <3> HIDE DEF IInv
    <3> QED
      BY <2>2, <2>3, RemoveTokensKeeps
  <2>5. TypeOK'
    BY <2>1, <2>3, <2>4 DEF RevokeRefresh, End, TypeOK, CallPc
  <2> QED
    BY <2>1, <2>3, <2>4, <2>5 DEF RevokeRefresh, End, TypeOK, Registered,
       RemovalSticks, CarriedSurvives, DeliveredSurvives
<1>8. CASE \E c \in Calls, id \in TokenIds : RevokeAccess(c, id)
  BY <1>8 DEF RevokeAccess, End, TypeOK, AccessHasRefresh, Issued, Registered,
     RemovalSticks, CarriedSurvives, DeliveredSurvives, histVars, Actors, CallPc
<1>9. CASE \E c \in Calls, old \in TokenIds, id \in TokenIds : Rotate(c, old, id)
  <2>1. PICK c \in Calls, old \in TokenIds, id \in TokenIds : Rotate(c, old, id)
    BY <1>9
  <2>2. c \in Actors /\ who[c] \in Clients /\ {old} \subseteq refresh
    BY <2>1 DEF Rotate, TypeOK, Actors
  <2>3. PICK ok \in BOOLEAN :
          /\ MintPair(id, who[c], {old}, ok)
          /\ gone' = IF ok THEN gone \cup {old} ELSE gone
          /\ \/ /\ ok
                /\ pc' = [pc EXCEPT ![c] = "touch_token"]
                /\ tok' = [tok EXCEPT ![c] = id]
                /\ UNCHANGED who
             \/ ~ok /\ End(c)
    BY <2>1, SavesBoolean DEF Rotate
  <2>4. /\ refresh' \subseteq TokenIds /\ diskRefresh' \subseteq TokenIds
        /\ access' \subseteq TokenIds
        /\ gone' \subseteq TokenIds /\ dropped' \subseteq TokenIds
        /\ owner' \in [TokenIds -> Clients \cup {None}]
        /\ AccessHasRefresh' /\ Issued'
        /\ gone' \cap (refresh' \cup diskRefresh' \cup access') = {}
        /\ ok => id \in refresh' \cap diskRefresh'
        /\ \A t \in TokenIds :
             t \in dropped \/ t \in refresh \cap diskRefresh =>
               t \in dropped' \/ t \in refresh' \cap diskRefresh'
    <3>1. dropped' = dropped \cup {old}
      BY <2>1 DEF Rotate
    <3> HIDE DEF IInv
    <3> QED
      BY <3>1, <2>2, <2>3, MintPairKeeps
  <2>5. TypeOK'
    BY <2>1, <2>2, <2>3, <2>4 DEF Rotate, LateMint, End, TypeOK, CallPc
  <2>6. CarriedSurvives'
    BY <2>2, <2>3, <2>4 DEF End, TypeOK, CarriedSurvives
  <2> QED
    BY <2>1, <2>4, <2>5, <2>6 DEF Rotate, TypeOK, Registered, RemovalSticks,
       DeliveredSurvives
<1>10. CASE \E id \in TokenIds : AdminRevokeToken(id)
  <2>1. PICK id \in TokenIds : AdminRevokeToken(id)
    BY <1>10
  <2>2. PICK ok \in BOOLEAN : RemoveTokens(refresh \cap {id}, {id}, ok)
    BY <2>1, SavesBoolean DEF AdminRevokeToken
  <2>3. UNCHANGED owner
    BY <2>1 DEF AdminRevokeToken
  <2>4. /\ refresh' \subseteq TokenIds /\ diskRefresh' \subseteq TokenIds
        /\ access' \subseteq TokenIds
        /\ gone' \subseteq TokenIds /\ dropped' \subseteq TokenIds
        /\ AccessHasRefresh' /\ Issued'
        /\ gone' \cap (refresh' \cup diskRefresh' \cup access') = {}
        /\ \A t \in TokenIds :
             t \in dropped \/ t \in refresh \cap diskRefresh =>
               t \in dropped' \/ t \in refresh' \cap diskRefresh'
    <3> HIDE DEF IInv
    <3> QED
      BY <2>2, <2>3, RemoveTokensKeeps
  <2> QED
    BY <2>1, <2>4 DEF AdminRevokeToken, callVars, TypeOK, Registered,
       RemovalSticks, CarriedSurvives, DeliveredSurvives
<1>11. CASE \E a \in Admins, k \in Clients : AdminRevokeClient(a, k)
  <2>1. PICK a \in Admins, k \in Clients : AdminRevokeClient(a, k)
    BY <1>11
  <2>2. a \in Actors
    BY DEF Actors
  <2>3. CASE k \notin clients
    BY <2>1, <2>3 DEF AdminRevokeClient, TypeOK, AccessHasRefresh, Issued,
       Registered, RemovalSticks, CarriedSurvives, DeliveredSurvives
  <2>4. CASE k \in clients
    <3>1. PICK ok \in BOOLEAN :
            /\ SaveClients(ok)
            /\ \/ /\ ok
                  /\ deleted' = deleted \cup {k}
                  /\ pc' = [pc EXCEPT ![a] = "cascade"]
                  /\ who' = [who EXCEPT ![a] = k]
               \/ ~ok /\ UNCHANGED <<pc, who, deleted>>
      BY <2>1, <2>4, SavesBoolean DEF AdminRevokeClient
    <3>2. clients' = clients \ {k}
      BY <2>1, <2>4 DEF AdminRevokeClient
    <3>3. TypeOK'
      BY <2>1, <2>2, <2>4, <3>1, <3>2 DEF AdminRevokeClient, SaveClients, TypeOK,
         CallPc
    <3>4. Registered' /\ RemovalSticks'
      BY <2>1, <2>4, <3>1, <3>2 DEF AdminRevokeClient, SaveClients, Registered,
         RemovalSticks
    <3>5. CarriedSurvives'
      BY <2>1, <2>2, <3>1 DEF AdminRevokeClient, TypeOK, CarriedSurvives
    <3> QED
      BY <2>1, <3>3, <3>4, <3>5 DEF AdminRevokeClient, AccessHasRefresh, Issued,
         DeliveredSurvives
  <2> QED
    BY <2>3, <2>4
<1>12. CASE \E a \in Admins : Cascade(a)
  <2>1. PICK a \in Admins : Cascade(a)
    BY <1>12
  <2> DEFINE S == refresh \cap Owned(who[a])
  <2>2. PICK ok \in BOOLEAN :
          /\ RemoveTokens(S, Owned(who[a]), ok)
          /\ failed' = IF S # {} /\ ~ok THEN failed \cup {who[a]} ELSE failed
    BY <2>1, SavesBoolean DEF Cascade
  <2>3. /\ UNCHANGED owner /\ S \subseteq Owned(who[a])
        /\ S \subseteq refresh /\ Owned(who[a]) \subseteq TokenIds
        /\ a \in Actors /\ who[a] \in Clients
    BY <2>1 DEF Cascade, Owned, Actors, TypeOK
  <2>4. /\ refresh' \subseteq TokenIds /\ diskRefresh' \subseteq TokenIds
        /\ access' \subseteq TokenIds
        /\ gone' \subseteq TokenIds /\ dropped' \subseteq TokenIds
        /\ AccessHasRefresh' /\ Issued'
        /\ gone' \cap (refresh' \cup diskRefresh' \cup access') = {}
        /\ \A t \in TokenIds :
             t \in dropped \/ t \in refresh \cap diskRefresh =>
               t \in dropped' \/ t \in refresh' \cap diskRefresh'
    <3> HIDE DEF IInv
    <3> QED
      BY <2>2, <2>3, RemoveTokensKeeps
  <2>5. TypeOK'
    BY <2>1, <2>2, <2>3, <2>4 DEF Cascade, End, TypeOK, CallPc
  <2> QED
    BY <2>1, <2>3, <2>4, <2>5 DEF Cascade, End, TypeOK, Registered,
       RemovalSticks, CarriedSurvives, DeliveredSurvives
<1>13. CASE SweepAccess
  BY <1>13 DEF SweepAccess, TypeOK, AccessHasRefresh, Issued, Registered,
     RemovalSticks, CarriedSurvives, DeliveredSurvives, callVars, histVars
<1>14. CASE \E c \in Actors : Drop(c)
  BY <1>14 DEF Drop, End, TypeOK, AccessHasRefresh, Issued, Registered,
     RemovalSticks, CarriedSurvives, DeliveredSurvives, storeVars, histVars,
     CallPc
<1>15. CASE Restart
  BY <1>15 DEF Restart, TypeOK, AccessHasRefresh, Issued, Registered,
     RemovalSticks, CarriedSurvives, DeliveredSurvives, histVars, CallPc
<1>16. CASE UNCHANGED vars
  BY <1>16 DEF vars, TypeOK, AccessHasRefresh, Issued, Registered,
     RemovalSticks, CarriedSurvives, DeliveredSurvives, storeVars, callVars,
     histVars
<1> QED
  BY <1>1, <1>2, <1>3, <1>4, <1>5, <1>6, <1>7, <1>8, <1>9, <1>10, <1>11, <1>12,
     <1>13, <1>14, <1>15, <1>16, NextCases

\* The files, the registries and the histories start empty.
LEMMA Initially == Init => IInv
BY OAuthAssumption DEF Init, IInv, TypeOK, AccessHasRefresh, Issued, Registered,
   RemovalSticks, CarriedSurvives, DeliveredSurvives, CallPc

\* The inductive invariant holds of the registries from the start on.
THEOREM Invariant == Spec => []IInv
BY Initially, Inductive, PTL DEF Spec

\* The registries keep their types (ClientStore, TokenStore).
THEOREM TypeCorrect == Spec => []TypeOK
BY Invariant, PTL DEF IInv

\* Every live access token has its refresh token in memory.
THEOREM AccessFollowsRefresh == Spec => []AccessHasRefresh
BY Invariant, PTL DEF IInv

\* What was removed, and saved so, never comes back, whatever later saves fail
\* and however often the daemon restarts.
THEOREM RemovalsStick == Spec => []RemovalSticks
BY Invariant, PTL DEF IInv

\* A token handed to its client outlives crashes and failing saves.
THEOREM DeliveredTokensSurvive == Spec => []DeliveredSurvives
BY Invariant, PTL DEF IInv

-----------------------------------------------------------------------------
(* Tokens of deleted clients.  A client whose secret was returned and that *)
(* is in memory is on disk, and a token on disk that is not in memory has  *)
(* been dropped; so a restart brings back no token without its client.     *)

Accounted(id) ==
  \/ owner[id] \in clients \cup uncascaded \cup failed
  \/ id \in late \cup dropped

TokensAccounted == \A id \in refresh : Accounted(id)
RemovedAreDropped == diskRefresh \ refresh \subseteq dropped
OwnersKnown ==
  /\ \A id \in TokenIds : owner[id] # None => owner[id] \in known
  /\ \A c \in Actors :
       pc[c] \in {"verified", "mint", "touch_token", "touch_client"} => who[c] \in known
KnownAreSaved == known \subseteq used /\ known \cap clients \subseteq diskClients

OrphanInv == TokensAccounted /\ RemovedAreDropped /\ OwnersKnown /\ KnownAreSaved

\* Removing tokens leaves those in memory accounted for.
LEMMA RemoveKeepsAccounts ==
  ASSUME IInv, OrphanInv, NEW S, NEW A, NEW ok \in BOOLEAN, RemoveTokens(S, A, ok)
  PROVE  RemovedAreDropped' /\ refresh' = refresh \ S /\ dropped \subseteq dropped'
BY DEF OrphanInv, RemovedAreDropped, RemoveTokens, SaveTokens

\* A pair is accounted for as its client's, or as minted late.
LEMMA MintKeepsAccounts ==
  ASSUME IInv, OrphanInv, NEW id \in TokenIds, NEW k \in Clients, NEW old,
         old \subseteq refresh, NEW ok \in BOOLEAN, MintPair(id, k, old, ok),
         dropped' = dropped \cup old, LateMint(id, k), k \in known,
         UNCHANGED <<clients, uncascaded, failed, known>>
  PROVE  /\ TokensAccounted' /\ RemovedAreDropped'
         /\ \A t \in TokenIds : owner'[t] # None => owner'[t] \in known'
<1>1. owner'[id] = k /\ \A t \in TokenIds \ {id} : owner'[t] = owner[t]
  BY DEF MintPair, IInv, TypeOK
<1>2. refresh' = (refresh \ old) \cup {id} /\ refresh \subseteq TokenIds
  BY DEF MintPair, IInv, TypeOK
<1>3. diskRefresh' = diskRefresh \/ diskRefresh' = refresh'
  BY DEF MintPair, SaveTokens
<1>4. late \subseteq late' /\ (k \in clients \/ id \in late')
  BY DEF LateMint
<1>5. TokensAccounted'
  BY <1>1, <1>2, <1>4 DEF OrphanInv, TokensAccounted, Accounted
<1>6. RemovedAreDropped'
  BY <1>2, <1>3 DEF OrphanInv, RemovedAreDropped
<1>. QED
  BY <1>1, <1>5, <1>6 DEF OrphanInv, OwnersKnown

\* A call that moves on or ends is about the same client or none.
LEMMA EndKeepsKnown ==
  ASSUME IInv, OrphanInv, NEW c \in Actors, End(c), UNCHANGED known
  PROVE  \A d \in Actors :
           pc'[d] \in {"verified", "mint", "touch_token", "touch_client"} => who'[d] \in known'
BY DEF End, IInv, TypeOK, OrphanInv, OwnersKnown

\* What no step changes that touches neither tokens nor clients.
LEMMA StoresStay ==
  ASSUME OrphanInv, UNCHANGED <<refresh, diskRefresh, clients, diskClients, owner, known, used,
                                dropped, late, uncascaded, failed>>
  PROVE  /\ TokensAccounted' /\ RemovedAreDropped' /\ KnownAreSaved'
         /\ \A t \in TokenIds : owner'[t] # None => owner'[t] \in known'
BY DEF OrphanInv, TokensAccounted, Accounted, RemovedAreDropped, KnownAreSaved, OwnersKnown

\* Every handler, failing save and restart keeps the accounts.
LEMMA NextOrphans == IInv /\ OrphanInv /\ [Next]_vars => OrphanInv'
<1>. SUFFICES ASSUME IInv, OrphanInv, [Next]_vars  PROVE OrphanInv'
  OBVIOUS
<1>1. ASSUME NEW k \in Clients, RegisterClient(k)  PROVE OrphanInv'
  <2>1. PICK ok \in Saves :
          /\ SaveClients(ok)
          /\ known' = IF ok THEN known \cup {k} ELSE known
    BY <1>1 DEF RegisterClient
  <2>2. KnownAreSaved'
    BY <1>1, <2>1 DEF RegisterClient, SaveClients, OrphanInv, KnownAreSaved
  <2>. QED
    BY <1>1, <2>1, <2>2 DEF RegisterClient, OrphanInv, TokensAccounted, Accounted,
       RemovedAreDropped, OwnersKnown, callVars
<1>2. ASSUME NEW c \in Calls, NEW k \in Clients, Authenticate(c, k)  PROVE OrphanInv'
  <2>1. OwnersKnown'
    BY <1>2 DEF Authenticate, IInv, TypeOK, OrphanInv, OwnersKnown, Actors, storeVars, histVars
  <2>. QED
    BY <1>2, <2>1, StoresStay DEF Authenticate, OrphanInv, storeVars, histVars
<1>3. ASSUME NEW c \in Calls, Reject(c)  PROVE OrphanInv'
  BY <1>3, EndKeepsKnown, StoresStay
  DEF Reject, OrphanInv, OwnersKnown, storeVars, histVars, Actors
<1>4. ASSUME NEW c \in Calls, ConsumeCode(c)  PROVE OrphanInv'
  <2>1. OwnersKnown'
    BY <1>4 DEF ConsumeCode, Goto, IInv, TypeOK, OrphanInv, OwnersKnown, Actors, storeVars,
       histVars
  <2>. QED
    BY <1>4, <2>1, StoresStay DEF ConsumeCode, OrphanInv, storeVars, histVars
<1>5. ASSUME NEW c \in Calls, TouchToken(c)  PROVE OrphanInv'
  <2>1. diskRefresh' = diskRefresh \/ diskRefresh' = refresh
    BY <1>5, SavesBoolean DEF TouchToken, SaveTokens
  <2>2. OwnersKnown'
    BY <1>5 DEF TouchToken, Goto, IInv, TypeOK, OrphanInv, OwnersKnown, Actors, histVars
  <2>. QED
    BY <1>5, <2>1, <2>2 DEF TouchToken, histVars, OrphanInv, TokensAccounted, Accounted,
       RemovedAreDropped, KnownAreSaved
<1>6. ASSUME NEW c \in Calls, TouchClient(c)  PROVE OrphanInv'
  <2>1. diskClients' = diskClients \/ diskClients' = clients
    BY <1>6, SavesBoolean DEF TouchClient, SaveClients
  <2>2. OwnersKnown'
    BY <1>6, EndKeepsKnown DEF TouchClient, OrphanInv, OwnersKnown, Actors
  <2>. QED
    BY <1>6, <2>1, <2>2 DEF TouchClient, OrphanInv, TokensAccounted, Accounted,
       RemovedAreDropped, KnownAreSaved
<1>7. ASSUME NEW c \in Calls, NEW id \in TokenIds, Mint(c, id)  PROVE OrphanInv'
  <2>1. c \in Actors /\ who[c] \in Clients /\ who[c] \in known
    BY <1>7 DEF Mint, IInv, TypeOK, OrphanInv, OwnersKnown, Actors
  <2>2. PICK ok \in BOOLEAN :
          /\ MintPair(id, who[c], {}, ok)
          /\ \/ pc' = [pc EXCEPT ![c] = "touch_client"] /\ UNCHANGED who
             \/ End(c)
    BY <1>7, SavesBoolean DEF Mint
  <2>3. dropped' = dropped \cup {} /\ {} \subseteq refresh
    BY <1>7 DEF Mint
  <2>4. /\ TokensAccounted' /\ RemovedAreDropped'
        /\ \A t \in TokenIds : owner'[t] # None => owner'[t] \in known'
    BY <1>7, <2>1, <2>2, <2>3, MintKeepsAccounts DEF Mint
  <2>5. \A d \in Actors :
           pc'[d] \in {"verified", "mint", "touch_token", "touch_client"} => who'[d] \in known'
    BY <1>7, <2>1, <2>2, EndKeepsKnown DEF Mint, IInv, TypeOK, OrphanInv, OwnersKnown
  <2>. QED
    BY <1>7, <2>4, <2>5 DEF Mint, OrphanInv, OwnersKnown, KnownAreSaved
<1>8. ASSUME NEW c \in Calls, NEW old \in TokenIds, NEW id \in TokenIds, Rotate(c, old, id)
      PROVE OrphanInv'
  <2>1. c \in Actors /\ who[c] \in Clients /\ who[c] \in known /\ {old} \subseteq refresh
    BY <1>8 DEF Rotate, IInv, TypeOK, OrphanInv, OwnersKnown, Actors
  <2>2. PICK ok \in BOOLEAN :
          /\ MintPair(id, who[c], {old}, ok)
          /\ \/ pc' = [pc EXCEPT ![c] = "touch_token"] /\ UNCHANGED who
             \/ End(c)
    BY <1>8, SavesBoolean DEF Rotate
  <2>3. /\ TokensAccounted' /\ RemovedAreDropped'
        /\ \A t \in TokenIds : owner'[t] # None => owner'[t] \in known'
    BY <1>8, <2>1, <2>2, MintKeepsAccounts DEF Rotate
  <2>4. \A d \in Actors :
           pc'[d] \in {"verified", "mint", "touch_token", "touch_client"} => who'[d] \in known'
    BY <1>8, <2>1, <2>2, EndKeepsKnown DEF Rotate, IInv, TypeOK, OrphanInv, OwnersKnown
  <2>. QED
    BY <1>8, <2>3, <2>4 DEF Rotate, OrphanInv, OwnersKnown, KnownAreSaved
<1>9. ASSUME NEW c \in Calls, NEW id \in TokenIds, RevokeRefresh(c, id)  PROVE OrphanInv'
  <2>1. PICK ok \in BOOLEAN : RemoveTokens({id}, {id}, ok)
    BY <1>9, SavesBoolean DEF RevokeRefresh
  <2>2. OwnersKnown'
    BY <1>9, EndKeepsKnown DEF RevokeRefresh, OrphanInv, OwnersKnown, Actors
  <2>. QED
    BY <1>9, <2>1, <2>2, RemoveKeepsAccounts
    DEF RevokeRefresh, OrphanInv, TokensAccounted, Accounted, KnownAreSaved
<1>10. ASSUME NEW c \in Calls, NEW id \in TokenIds, RevokeAccess(c, id)  PROVE OrphanInv'
  BY <1>10, EndKeepsKnown, StoresStay DEF RevokeAccess, OrphanInv, OwnersKnown, histVars, Actors
<1>11. ASSUME NEW id \in TokenIds, AdminRevokeToken(id)  PROVE OrphanInv'
  <2>1. PICK ok \in BOOLEAN : RemoveTokens(refresh \cap {id}, {id}, ok)
    BY <1>11, SavesBoolean DEF AdminRevokeToken
  <2>. QED
    BY <1>11, <2>1, RemoveKeepsAccounts
    DEF AdminRevokeToken, OrphanInv, TokensAccounted, Accounted, OwnersKnown, KnownAreSaved,
        callVars
<1>12. ASSUME NEW a \in Admins, NEW k \in Clients, AdminRevokeClient(a, k)  PROVE OrphanInv'
  <2>1. CASE k \notin clients
    <3>1. UNCHANGED <<clients, diskClients, pc, who, uncascaded>>
      BY <1>12, <2>1 DEF AdminRevokeClient
    <3>. QED
      BY <1>12, <3>1, StoresStay DEF AdminRevokeClient, OrphanInv, OwnersKnown
  <2>2. CASE k \in clients
    <3>1. PICK ok \in BOOLEAN :
            /\ SaveClients(ok)
            /\ \/ pc' = [pc EXCEPT ![a] = "cascade"] /\ who' = [who EXCEPT ![a] = k]
               \/ UNCHANGED <<pc, who>>
      BY <1>12, <2>2, SavesBoolean DEF AdminRevokeClient
    <3>2. clients' = clients \ {k} /\ uncascaded' = uncascaded \cup {k}
      BY <1>12, <2>2 DEF AdminRevokeClient
    <3>3. OwnersKnown'
      BY <1>12, <3>1 DEF AdminRevokeClient, IInv, TypeOK, OrphanInv, OwnersKnown, Actors
    <3>. QED
      BY <1>12, <3>1, <3>2, <3>3
      DEF AdminRevokeClient, SaveClients, OrphanInv, TokensAccounted, Accounted,
          RemovedAreDropped, KnownAreSaved
  <2>. QED
    BY <2>1, <2>2
<1>13. ASSUME NEW a \in Admins, Cascade(a)  PROVE OrphanInv'
  <2>1. PICK ok \in BOOLEAN :
          /\ RemoveTokens(refresh \cap Owned(who[a]), Owned(who[a]), ok)
          /\ failed \subseteq failed'
    BY <1>13, SavesBoolean DEF Cascade
  <2>2. a \in Actors /\ refresh \subseteq TokenIds
    BY DEF Actors, IInv, TypeOK
  <2>3. OwnersKnown'
    BY <1>13, <2>2, EndKeepsKnown DEF Cascade, OrphanInv, OwnersKnown
  <2>4. /\ RemovedAreDropped' /\ dropped \subseteq dropped'
        /\ refresh' = {id \in refresh : owner[id] # who[a]}
    BY <2>1, <2>2, RemoveKeepsAccounts DEF Owned
  <2>5. TokensAccounted'
    BY <1>13, <2>1, <2>4 DEF Cascade, OrphanInv, TokensAccounted, Accounted
  <2>. QED
    BY <1>13, <2>3, <2>4, <2>5 DEF Cascade, OrphanInv, KnownAreSaved
<1>14. CASE SweepAccess
  BY <1>14, StoresStay DEF SweepAccess, OrphanInv, OwnersKnown, callVars, histVars
<1>15. ASSUME NEW c \in Actors, Drop(c)  PROVE OrphanInv'
  BY <1>15, EndKeepsKnown, StoresStay DEF Drop, OrphanInv, OwnersKnown, storeVars, histVars
<1>16. CASE Restart
  <2>1. \A id \in diskRefresh : id \in dropped \/ Accounted(id)
    BY DEF OrphanInv, RemovedAreDropped, TokensAccounted
  <2>2. \A id \in diskRefresh : owner[id] \in clients => owner[id] \in diskClients
    BY DEF OrphanInv, OwnersKnown, KnownAreSaved, IInv, TypeOK, Issued
  <2>3. TokensAccounted'
    BY <1>16, <2>1, <2>2 DEF Restart, TokensAccounted, Accounted, histVars
  <2>. QED
    BY <1>16, <2>3 DEF Restart, OrphanInv, RemovedAreDropped, OwnersKnown, KnownAreSaved,
       histVars
<1>17. CASE UNCHANGED vars
  BY <1>17, StoresStay DEF vars, storeVars, callVars, histVars, OrphanInv, OwnersKnown
<1>. QED
  BY <1>1, <1>2, <1>3, <1>4, <1>5, <1>6, <1>7, <1>8, <1>9, <1>10, <1>11, <1>12, <1>13, <1>14,
     <1>15, <1>16, <1>17, NextCases

\* Nothing is owned before a client has registered.
LEMMA InitOrphans == Init => OrphanInv
BY DEF Init, OrphanInv, TokensAccounted, RemovedAreDropped, OwnersKnown, KnownAreSaved

\* A token whose client is gone has a reason to be still there: the cascade, a
\* save that failed, a mint that was under way, or a removal that was not saved.
THEOREM OrphansAreAccounted == Spec => []OrphansAccounted
<1>1. IInv /\ OrphanInv => OrphansAccounted
  BY DEF IInv, AccessHasRefresh, OrphanInv, TokensAccounted, Accounted, OrphansAccounted
<1>. QED
  BY <1>1, InitOrphans, NextOrphans, Invariant, PTL DEF Spec
=============================================================================
