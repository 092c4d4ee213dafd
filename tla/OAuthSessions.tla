---------------------------- MODULE OAuthSessions ----------------------------
(***************************************************************************)
(* Authorisation sessions (SessionStore): a browser opens one, the operator *)
(* issues a PIN for it, the PIN typed into the consent page approves it    *)
(* and mints a code, the client exchanges the code.  Every operation runs  *)
(* under one mutex; nothing is on disk.                                    *)
(*                                                                         *)
(* A deadline is the number of ticks left before it, so time needs no      *)
(* bound.  An expired session stays in the store until the next sweep.     *)
(***************************************************************************)
EXTENDS Integers, FiniteSets

CONSTANTS
  Ids,         \* session ids, drawn anew for every session
  Clients,     \* registered clients
  RedirectUris,\* the redirect URIs each of them has registered
  Uris,        \* redirect URIs somebody may name
  Verifiers,   \* code verifiers a client may keep
  SessionTTL,  \* SESSION_TTL, PIN_TTL and CODE_TTL in ticks
  PinTTL,
  CodeTTL,
  MaxPins,     \* bound on the PINs issued for a session
  Restarts     \* whether the daemon may restart

ASSUME SessionsAssumption ==
  /\ RedirectUris \in [Clients -> SUBSET Uris]
  /\ SessionTTL \in Nat \ {0} /\ PinTTL \in Nat \ {0} /\ CodeTTL \in Nat \ {0}
  /\ MaxPins \in Nat /\ Restarts \in BOOLEAN

VARIABLES
  sessions,   \* the store: a function from the ids of its sessions
  used,       \* ids drawn so far
  told,       \* the last PIN the operator was given for each id; 0: none
  submitted,  \* the PIN that approved each id, and what was left of it then
  exchanged,  \* how often a code of each session was exchanged
  lost        \* sessions the operator, the user or a restart removed

vars == <<sessions, used, told, submitted, exchanged, lost>>

Statuses == {"pending", "approved", "denied", "consumed"}
NoPin == [number |-> 0, left |-> 0, spent |-> FALSE]
Submission == [number : 0..MaxPins, left : 0..PinTTL]

\* The challenge that goes with a verifier: its SHA-256.
S256(v) == <<"S256", v>>

\* code_challenge and its method in a request.
Challenges == {S256(v) : v \in Verifiers} \cup {<<"plain", v>> : v \in Verifiers}

Session == [client : Clients, uri : Uris, challenge : Challenges, status : Statuses, left : 0..SessionTTL,
            pin : [number : 0..MaxPins, left : 0..PinTTL, spent : BOOLEAN],
            code : BOOLEAN, codeLeft : 0..CodeTTL]

Init ==
  /\ sessions = [i \in {} |-> 0]
  /\ used = {} /\ lost = {}
  /\ told = [i \in Ids |-> 0] /\ exchanged = [i \in Ids |-> 0]
  /\ submitted = [i \in Ids |-> [number |-> 0, left |-> 0]]

Stored == DOMAIN sessions
Without(S) == [i \in Stored \ S |-> sessions[i]]

-----------------------------------------------------------------------------

\* The checks of GET /oauth/authorize: only S256, and a URI the client registered.
MayAuthorize(c, uri, challenge) == challenge[1] = "S256" /\ uri \in RedirectUris[c]

NewSession(c, uri, challenge) ==
  [client |-> c, uri |-> uri, challenge |-> challenge, status |-> "pending",
   left |-> SessionTTL, pin |-> NoPin, code |-> FALSE, codeLeft |-> 0]

Create(i, c, uri, challenge) ==
  /\ i \notin used
  /\ MayAuthorize(c, uri, challenge)
  /\ used' = used \cup {i}
  /\ sessions' = [j \in Stored \cup {i} |->
       IF j = i THEN NewSession(c, uri, challenge) ELSE sessions[j]]
  /\ UNCHANGED <<told, submitted, exchanged, lost>>

\* A new PIN replaces the one before it.
MayIssue(i) == i \in Stored /\ sessions[i].left > 0 /\ sessions[i].status = "pending"

\* POST /admin/oauth/sessions/<id>/pin
IssuePin(i) ==
  /\ MayIssue(i)
  /\ told[i] < MaxPins
  /\ told' = [told EXCEPT ![i] = @ + 1]
  /\ sessions' = [sessions EXCEPT ![i].pin =
       [number |-> told[i] + 1, left |-> PinTTL, spent |-> FALSE]]
  /\ UNCHANGED <<used, submitted, exchanged, lost>>

\* Mutant of MayApprove: any PIN the operator was ever given will do.
MayApproveAny(i, pin) ==
  /\ i \in Stored /\ sessions[i].left > 0 /\ sessions[i].status = "pending"
  /\ ~sessions[i].pin.spent /\ sessions[i].pin.left > 0

\* The PIN typed in is the one on record, which is neither spent nor expired.
MayApprove(i, pin) ==
  /\ i \in Stored /\ sessions[i].left > 0 /\ sessions[i].status = "pending"
  /\ sessions[i].pin.number = pin /\ ~sessions[i].pin.spent /\ sessions[i].pin.left > 0

\* The PIN is spent and a code minted.
Approved(s) ==
  [s EXCEPT !.pin.spent = TRUE, !.status = "approved", !.code = TRUE, !.codeLeft = CodeTTL]

\* POST /oauth/authorize with a PIN somebody was given.
Approve(i, pin) ==
  /\ pin \in 1..told[i]
  /\ MayApprove(i, pin)
  /\ sessions' = [sessions EXCEPT ![i] = Approved(@)]
  /\ submitted' = [submitted EXCEPT ![i] = [number |-> pin, left |-> sessions[i].pin.left]]
  /\ UNCHANGED <<used, told, exchanged, lost>>

\* drop_session
DropSession(i) ==
  /\ i \in Stored
  /\ sessions' = Without({i})
  /\ lost' = lost \cup {i}
  /\ UNCHANGED <<used, told, submitted, exchanged>>

\* POST /oauth/authorize with action=deny: a pending session is denied, and any
\* is dropped.
Deny(i) == DropSession(i)

\* DELETE /admin/oauth/sessions/<id>
AdminDrop(i) == DropSession(i)

\* verify_pkce_s256
VerifyPkce(v, challenge) == S256(v) = challenge

\* The client that presents the code must be the one it was minted for, name its
\* redirect URI and show its verifier; the session's own deadline is not looked at.
MayExchange(i, c, uri, v) ==
  /\ i \in Stored
  /\ sessions[i].code /\ sessions[i].status = "approved" /\ sessions[i].codeLeft > 0
  /\ sessions[i].client = c /\ sessions[i].uri = uri /\ VerifyPkce(v, sessions[i].challenge)

\* Mutant of Exchange: the code stays exchangeable.
ExchangeAgain(i, c, uri, v) ==
  /\ MayExchange(i, c, uri, v)
  /\ exchanged[i] < 2
  /\ exchanged' = [exchanged EXCEPT ![i] = @ + 1]
  /\ UNCHANGED <<sessions, used, told, submitted, lost>>

\* POST /oauth/token by an authenticated client.
Exchange(i, c, uri, v) ==
  /\ MayExchange(i, c, uri, v)
  /\ sessions' = [sessions EXCEPT
       ![i].status = "consumed", ![i].code = FALSE, ![i].codeLeft = 0]
  /\ exchanged' = [exchanged EXCEPT ![i] = @ + 1]
  /\ UNCHANGED <<used, told, submitted, lost>>

\* Mutant of Sweep: approved sessions are kept.
SweepPending ==
  /\ \E i \in Stored : sessions[i].left = 0
  /\ sessions' = Without({i \in Stored : sessions[i].left = 0 /\ ~sessions[i].code})
  /\ UNCHANGED <<used, told, submitted, exchanged, lost>>

Sweep ==
  /\ \E i \in Stored : sessions[i].left = 0
  /\ sessions' = Without({i \in Stored : sessions[i].left = 0})
  /\ UNCHANGED <<used, told, submitted, exchanged, lost>>

Earlier(n) == IF n = 0 THEN 0 ELSE n - 1

Tick ==
  /\ \E i \in Stored : sessions[i].left > 0 \/ sessions[i].codeLeft > 0
  /\ sessions' = [i \in Stored |->
       [sessions[i] EXCEPT !.left = Earlier(@), !.pin.left = Earlier(@),
                           !.codeLeft = Earlier(@)]]
  /\ UNCHANGED <<used, told, submitted, exchanged, lost>>

Restart ==
  /\ Restarts /\ Stored # {}
  /\ lost' = lost \cup Stored
  /\ sessions' = Without(Stored)
  /\ UNCHANGED <<used, told, submitted, exchanged>>

Next ==
  \/ \E i \in Ids :
       \/ IssuePin(i) \/ Deny(i) \/ AdminDrop(i)
       \/ \E pin \in 1..MaxPins : Approve(i, pin)
       \/ \E c \in Clients, uri \in Uris :
            \/ \E challenge \in Challenges : Create(i, c, uri, challenge)
            \/ \E v \in Verifiers : Exchange(i, c, uri, v)
  \/ Sweep \/ Tick \/ Restart

Spec == Init /\ [][Next]_vars

\* Time goes on, and the sweep is a task that wakes up every minute.
FairSpec == Spec /\ WF_vars(Tick) /\ WF_vars(Sweep)

-----------------------------------------------------------------------------
(* Properties.                                                             *)

TypeOK ==
  /\ Stored \subseteq used /\ used \subseteq Ids /\ lost \subseteq used
  /\ \A i \in Stored : sessions[i] \in Session
  /\ told \in [Ids -> 0..MaxPins] /\ exchanged \in [Ids -> Nat]
  /\ submitted \in [Ids -> Submission]

\* No session yields two exchanges, in whatever order pages are submitted.
ExchangedOnce == \A i \in Ids : exchanged[i] <= 1

\* A code exists only in a session nobody has removed, into which the newest PIN
\* its operator was given has been typed before that PIN expired: not one that was
\* re-issued while the page was open.
CodeIsEarned ==
  \A i \in Stored : sessions[i].code =>
    /\ sessions[i].status = "approved" /\ i \notin lost
    /\ submitted[i].number = told[i] /\ submitted[i].number > 0
    /\ submitted[i].left > 0

\* Every session leaves the store.
Evicted == \A i \in Ids : i \in Stored ~> i \notin Stored
=============================================================================
