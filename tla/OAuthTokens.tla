----------------------------- MODULE OAuthTokens -----------------------------
(***************************************************************************)
(* The daemon's OAuth registries: ClientStore (clients.toml) and TokenStore *)
(* (tokens.toml plus access tokens that live in memory only), and the      *)
(* handlers that change them: /oauth/register, /oauth/token, /oauth/revoke *)
(* and the admin endpoints.                                                *)
(*                                                                         *)
(* Each store has its own mutex; a lock scope is one step.  Every mutating *)
(* operation changes memory first and then saves the whole store: a save   *)
(* replaces the file atomically or fails and leaves the old one.  A        *)
(* handler's future is dropped between two steps when its caller goes away. *)
(*                                                                         *)
(* A token id stands for the refresh token minted under it and for the one *)
(* access token minted with it, which carries it as origin_token_id.       *)
(***************************************************************************)
EXTENDS Integers, FiniteSets

CONSTANTS
  Clients,   \* client ids, drawn at random and never drawn twice
  TokenIds,  \* token ids, likewise: the bound on the tokens ever minted
  Calls,     \* concurrent calls of /oauth/token and /oauth/revoke
  Admins,    \* concurrent DELETE /admin/oauth/clients/<id>
  Faults,    \* the faults the environment may inject
  None

FaultKinds == {"save",     \* writing or renaming a file fails
               "drop",     \* a caller goes away during its call
               "restart"}  \* the daemon is killed and started again

ASSUME OAuthAssumption ==
  /\ None \notin Clients /\ None \notin TokenIds
  /\ Faults \subseteq FaultKinds

VARIABLES
  clients,      \* ClientStore.clients
  diskClients,  \* clients.toml
  refresh,      \* TokenStore.refresh_by_id
  diskRefresh,  \* tokens.toml
  access,       \* TokenStore.access_by_hash
  owner,        \* the client_id stored with each token
  pc,           \* where each call stands
  who,          \* the client a call, or an admin's revocation, is about
  tok,          \* the token a call has minted
  known,        \* history: clients whose secret was returned to a caller
  used,         \* history: client ids drawn
  delivered,    \* history: tokens returned to their client
  dropped,      \* history: refresh tokens somebody asked to rotate or revoke
  gone,         \* history: refresh tokens whose removal was saved
  deleted,      \* history: clients whose removal was saved
  late,         \* history: tokens minted for a client already removed
  uncascaded,   \* history: removed clients whose cascade has not run
  failed        \* history: clients whose cascade could not be saved

storeVars == <<clients, diskClients, refresh, diskRefresh, access, owner>>
callVars == <<pc, who, tok>>
histVars == <<known, used, delivered, dropped, gone, deleted, late, uncascaded,
              failed>>
vars == <<storeVars, callVars, histVars>>

Actors == Calls \cup Admins

CallPc == {"idle", "verified", "mint", "touch_token", "touch_client", "cascade"}

Owned(k) == {id \in TokenIds : owner[id] = k}

\* The outcomes of a save.
Saves == IF "save" \in Faults THEN BOOLEAN ELSE {TRUE}

Init ==
  /\ clients = {} /\ diskClients = {}
  /\ refresh = {} /\ diskRefresh = {} /\ access = {}
  /\ owner = [id \in TokenIds |-> None]
  /\ pc = [c \in Actors |-> "idle"]
  /\ who = [c \in Actors |-> None]
  /\ tok = [c \in Actors |-> None]
  /\ known = {} /\ used = {} /\ delivered = {} /\ dropped = {}
  /\ gone = {} /\ deleted = {} /\ late = {}
  /\ uncascaded = {} /\ failed = {}

-----------------------------------------------------------------------------
(* Store operations.                                                       *)

SaveClients(ok) == diskClients' = IF ok THEN clients' ELSE diskClients
SaveTokens(ok) == diskRefresh' = IF ok THEN refresh' ELSE diskRefresh

\* revoke_by_id, and every other removal: S goes from memory with the access
\* tokens in A, and the file is written only if S held anything.
RemoveTokens(S, A, ok) ==
  /\ refresh' = refresh \ S
  /\ access' = access \ A
  /\ IF S = {} THEN UNCHANGED diskRefresh ELSE SaveTokens(ok)
  /\ dropped' = dropped \cup S
  /\ gone' = IF ok THEN gone \cup S ELSE gone

\* Mutant of MintPair: the access tokens of the old refresh token live on.
MintPairBeside(id, k, old, ok) ==
  /\ owner[id] = None
  /\ owner' = [owner EXCEPT ![id] = k]
  /\ access' = access \cup {id}
  /\ refresh' = (refresh \ old) \cup {id}
  /\ SaveTokens(ok)

\* mint_pair: both tokens enter memory before the save, whatever it returns.
MintPair(id, k, old, ok) ==
  /\ owner[id] = None
  /\ owner' = [owner EXCEPT ![id] = k]
  /\ access' = (access \ old) \cup {id}
  /\ refresh' = (refresh \ old) \cup {id}
  /\ SaveTokens(ok)

LateMint(id, k) == late' = IF k \in clients THEN late ELSE late \cup {id}

-----------------------------------------------------------------------------
(* Calls.                                                                  *)

Goto(c, from, to) ==
  /\ pc[c] = from
  /\ pc' = [pc EXCEPT ![c] = to]
  /\ UNCHANGED <<who, tok>>

End(c) ==
  /\ pc' = [pc EXCEPT ![c] = "idle"]
  /\ who' = [who EXCEPT ![c] = None]
  /\ tok' = [tok EXCEPT ![c] = None]

\* register: the secret is returned only if the save succeeds.
RegisterClient(k) ==
  /\ k \notin used
  /\ used' = used \cup {k}
  /\ clients' = clients \cup {k}
  /\ \E ok \in Saves :
       /\ SaveClients(ok)
       /\ known' = IF ok THEN known \cup {k} ELSE known
  /\ UNCHANGED <<refresh, diskRefresh, access, owner, callVars, delivered,
                 dropped, gone, deleted, late, uncascaded, failed>>

\* The client authenticates, under the clients lock.
Authenticate(c, k) ==
  /\ pc[c] = "idle"
  /\ k \in clients \cap known
  /\ pc' = [pc EXCEPT ![c] = "verified"]
  /\ who' = [who EXCEPT ![c] = k]
  /\ UNCHANGED <<storeVars, tok, histVars>>

\* A grant the handler refuses: parameters, code or refresh token do not fit.
Reject(c) ==
  /\ pc[c] = "verified"
  /\ End(c)
  /\ UNCHANGED <<storeVars, histVars>>

\* The authorization code is consumed, under the sessions lock.
ConsumeCode(c) ==
  /\ Goto(c, "verified", "mint")
  /\ UNCHANGED <<storeVars, histVars>>

\* Mutant of Mint: a save that failed goes unnoticed.
MintUnchecked(c, id) ==
  /\ pc[c] = "mint"
  /\ \E ok \in Saves : MintPair(id, who[c], {}, ok)
  /\ LateMint(id, who[c])
  /\ pc' = [pc EXCEPT ![c] = "touch_client"]
  /\ tok' = [tok EXCEPT ![c] = id]
  /\ UNCHANGED <<who, clients, diskClients, known, used, delivered, dropped,
                 gone, deleted, uncascaded, failed>>

\* grant_authorization_code: an error leaves the pair in memory, undelivered.
Mint(c, id) ==
  /\ pc[c] = "mint"
  /\ \E ok \in Saves :
       /\ MintPair(id, who[c], {}, ok)
       /\ \/ /\ ok
             /\ pc' = [pc EXCEPT ![c] = "touch_client"]
             /\ tok' = [tok EXCEPT ![c] = id]
             /\ UNCHANGED who
          \/ ~ok /\ End(c)
  /\ LateMint(id, who[c])
  /\ UNCHANGED <<clients, diskClients, known, used, delivered, dropped, gone,
                 deleted, uncascaded, failed>>

\* grant_refresh_token: rotate_refresh drops the old pair and mints a new one
\* for the same client, with one save for both.
Rotate(c, old, id) ==
  /\ pc[c] = "verified"
  /\ old \in refresh /\ owner[old] = who[c]
  /\ \E ok \in Saves :
       /\ MintPair(id, who[c], {old}, ok)
       /\ gone' = IF ok THEN gone \cup {old} ELSE gone
       /\ \/ /\ ok
             /\ pc' = [pc EXCEPT ![c] = "touch_token"]
             /\ tok' = [tok EXCEPT ![c] = id]
             /\ UNCHANGED who
          \/ ~ok /\ End(c)
  /\ dropped' = dropped \cup {old}
  /\ LateMint(id, who[c])
  /\ UNCHANGED <<clients, diskClients, known, used, delivered, deleted,
                 uncascaded, failed>>

\* touch: the stamp is display only, but the save writes the whole store.
TouchToken(c) ==
  /\ Goto(c, "touch_token", "touch_client")
  /\ UNCHANGED refresh
  /\ IF tok[c] \in refresh THEN \E ok \in Saves : SaveTokens(ok)
     ELSE UNCHANGED diskRefresh
  /\ UNCHANGED <<clients, diskClients, access, owner, histVars>>

\* Touch the client and answer.
TouchClient(c) ==
  /\ pc[c] = "touch_client"
  /\ delivered' = delivered \cup {tok[c]}
  /\ UNCHANGED clients
  /\ IF who[c] \in clients THEN \E ok \in Saves : SaveClients(ok)
     ELSE UNCHANGED diskClients
  /\ End(c)
  /\ UNCHANGED <<refresh, diskRefresh, access, owner, known, used, dropped,
                 gone, deleted, late, uncascaded, failed>>

\* /oauth/revoke with a refresh token: a save error is ignored.
RevokeRefresh(c, id) ==
  /\ pc[c] = "verified"
  /\ id \in refresh
  /\ \E ok \in Saves : RemoveTokens({id}, {id}, ok)
  /\ End(c)
  /\ UNCHANGED <<clients, diskClients, owner, known, used, delivered, deleted,
                 late, uncascaded, failed>>

\* /oauth/revoke with an access token: its refresh token stays.
RevokeAccess(c, id) ==
  /\ pc[c] = "verified"
  /\ access' = access \ {id}
  /\ End(c)
  /\ UNCHANGED <<clients, diskClients, refresh, diskRefresh, owner, histVars>>

-----------------------------------------------------------------------------
(* Administration.                                                         *)

\* Mutant of AdminRevokeToken: the removal is not written.
AdminRevokeUnsaved(id) ==
  /\ refresh' = refresh \ {id}
  /\ access' = access \ {id}
  /\ gone' = gone \cup (refresh \cap {id})
  /\ dropped' = dropped \cup (refresh \cap {id})
  /\ UNCHANGED <<clients, diskClients, diskRefresh, owner, callVars, known,
                 used, delivered, deleted, late, uncascaded, failed>>

\* DELETE /admin/oauth/tokens/<id>.
AdminRevokeToken(id) ==
  /\ \E ok \in Saves : RemoveTokens(refresh \cap {id}, {id}, ok)
  /\ UNCHANGED <<clients, diskClients, owner, callVars, known, used, delivered,
                 deleted, late, uncascaded, failed>>

\* DELETE /admin/oauth/clients/<id>, clients lock.  A save error ends the call
\* with the client out of memory; an unknown client is a success, and final.
AdminRevokeClient(a, k) ==
  /\ pc[a] = "idle"
  /\ UNCHANGED tok
  /\ \/ /\ k \notin clients
        /\ UNCHANGED <<clients, diskClients, pc, who, deleted, uncascaded>>
     \/ /\ k \in clients
        /\ clients' = clients \ {k}
        /\ uncascaded' = uncascaded \cup {k}
        /\ \E ok \in Saves :
             /\ SaveClients(ok)
             /\ \/ /\ ok
                   /\ deleted' = deleted \cup {k}
                   /\ pc' = [pc EXCEPT ![a] = "cascade"]
                   /\ who' = [who EXCEPT ![a] = k]
                \/ ~ok /\ UNCHANGED <<pc, who, deleted>>
  /\ UNCHANGED <<refresh, diskRefresh, access, owner, known, used, delivered,
                 dropped, gone, late, failed>>

\* Mutant of Cascade: the access tokens are forgotten.
CascadeRefreshOnly(a) ==
  /\ pc[a] = "cascade"
  /\ \E ok \in Saves : RemoveTokens(refresh \cap Owned(who[a]), {}, ok)
  /\ uncascaded' = uncascaded \ {who[a]}
  /\ End(a)
  /\ UNCHANGED <<clients, diskClients, owner, known, used, delivered, deleted,
                 late, failed>>

\* ... then the tokens lock: revoke_by_client.  A save error is only logged.
Cascade(a) ==
  /\ pc[a] = "cascade"
  /\ \E ok \in Saves :
       LET S == refresh \cap Owned(who[a])
       IN /\ RemoveTokens(S, Owned(who[a]), ok)
          /\ failed' = IF S # {} /\ ~ok THEN failed \cup {who[a]} ELSE failed
  /\ uncascaded' = uncascaded \ {who[a]}
  /\ End(a)
  /\ UNCHANGED <<clients, diskClients, owner, known, used, delivered, deleted,
                 late>>

\* The sweep evicts whatever access tokens have expired.
SweepAccess ==
  /\ \E S \in SUBSET access : S # {} /\ access' = access \ S
  /\ UNCHANGED <<clients, diskClients, refresh, diskRefresh, owner, callVars,
                 histVars>>

-----------------------------------------------------------------------------

\* The connection of a call is closed: what it had still to do is not done.
Drop(c) ==
  /\ "drop" \in Faults
  /\ pc[c] # "idle"
  /\ End(c)
  /\ UNCHANGED <<storeVars, histVars>>

\* load: the files are read and no access token survives.
Restart ==
  /\ "restart" \in Faults
  /\ clients' = diskClients
  /\ refresh' = diskRefresh
  /\ access' = {}
  /\ pc' = [c \in Actors |-> "idle"]
  /\ who' = [c \in Actors |-> None]
  /\ tok' = [c \in Actors |-> None]
  /\ UNCHANGED <<diskClients, diskRefresh, owner, histVars>>

Next ==
  \/ \E k \in Clients : RegisterClient(k)
  \/ \E c \in Calls : \E k \in Clients : Authenticate(c, k)
  \/ \E c \in Calls : Reject(c) \/ ConsumeCode(c) \/ TouchToken(c) \/ TouchClient(c)
  \/ \E c \in Calls : \E id \in TokenIds :
       Mint(c, id) \/ RevokeRefresh(c, id) \/ RevokeAccess(c, id)
  \/ \E c \in Calls : \E old, id \in TokenIds : Rotate(c, old, id)
  \/ \E id \in TokenIds : AdminRevokeToken(id)
  \/ \E a \in Admins : \E k \in Clients : AdminRevokeClient(a, k)
  \/ \E a \in Admins : Cascade(a)
  \/ SweepAccess
  \/ \E c \in Actors : Drop(c)
  \/ Restart

Spec == Init /\ [][Next]_vars

-----------------------------------------------------------------------------
(* Properties.                                                             *)

TypeOK ==
  /\ clients \subseteq Clients /\ diskClients \subseteq Clients
  /\ refresh \subseteq TokenIds /\ diskRefresh \subseteq TokenIds
  /\ access \subseteq TokenIds
  /\ owner \in [TokenIds -> Clients \cup {None}]
  /\ pc \in [Actors -> CallPc]
  /\ who \in [Actors -> Clients \cup {None}]
  /\ tok \in [Actors -> TokenIds \cup {None}]
  /\ \A c \in Actors : pc[c] # "idle" => who[c] \in Clients
  /\ \A c \in Actors : pc[c] \in {"touch_token", "touch_client"} =>
                         tok[c] \in TokenIds
  /\ known \subseteq Clients /\ used \subseteq Clients
  /\ delivered \subseteq TokenIds /\ dropped \subseteq TokenIds
  /\ gone \subseteq TokenIds /\ deleted \subseteq Clients
  /\ late \subseteq TokenIds /\ uncascaded \subseteq Clients
  /\ failed \subseteq Clients

\* No access token outlives the refresh token it was minted with: rotation,
\* revocation and the cascade take both, even when their save fails, and a
\* failed mint leaves both or neither (tokens.rs, access_by_hash).
AccessHasRefresh == access \subseteq refresh

\* A removal that was saved is final: no later save of another operation and no
\* restart brings the token or the client back, so a refresh token is never
\* exchanged twice with success (rotate_refresh, revoke_by_id, revoke).
RemovalSticks ==
  /\ gone \cap (refresh \cup diskRefresh \cup access) = {}
  /\ deleted \cap (clients \cup diskClients) = {}

\* A refresh token that reached its client survives every crash and every
\* failing save of other operations until it is itself rotated or revoked.
DeliveredSurvives ==
  \A id \in delivered : id \in dropped \/ id \in refresh \cap diskRefresh

\* A token whose client was deleted is one that the cascade has not reached (its
\* handler is between its two locks, or was cut off there) or could not save, or
\* that was minted by a call which had authenticated before the deletion, or
\* whose own removal was asked for and could not be saved (revoke_by_client).
OrphansAccounted ==
  \A id \in refresh \cup access :
    \/ owner[id] \in clients \cup uncascaded \cup failed
    \/ id \in late \cup (dropped \cap refresh)

=============================================================================
