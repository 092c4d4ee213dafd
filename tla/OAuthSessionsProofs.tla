-------------------------- MODULE OAuthSessionsProofs --------------------------
(***************************************************************************)
(* Proofs about OAuthSessions, for every set of sessions, clients, URIs    *)
(* and verifiers and every choice of the deadlines.  A session that has    *)
(* been exchanged never becomes pending or approved again, and one that    *)
(* was removed does not come back because ids are not drawn twice: that is *)
(* what the invariant adds to the two properties.                          *)
(***************************************************************************)
EXTENDS OAuthSessions, TLAPS

\* The PIN a session holds is the last the operator was given for it.
NewestPin == \A i \in Stored : sessions[i].pin.number = told[i]

\* A code goes with an approval, which spent the PIN.
CodeApproved ==
  \A i \in Stored : sessions[i].code => sessions[i].status = "approved" /\ sessions[i].pin.spent

\* It goes with the PIN that was typed in, the newest one, which had time left.
PinSubmitted ==
  \A i \in Stored : sessions[i].code =>
    /\ submitted[i].number = told[i] /\ submitted[i].number > 0
    /\ submitted[i].left > 0

\* Nothing has been exchanged for a session that may still yield a code, nor for
\* one that does not exist yet.
NotYetExchanged ==
  /\ \A i \in Stored : sessions[i].status \in {"pending", "approved"} => exchanged[i] = 0
  /\ \A i \in Ids \ used : exchanged[i] = 0 /\ told[i] = 0

IInv == /\ TypeOK
        /\ Stored \cap lost = {}
        /\ NewestPin
        /\ CodeApproved
        /\ PinSubmitted
        /\ NotYetExchanged
        /\ ExchangedOnce

Pins == [number : 0..MaxPins, left : 0..PinTTL, spent : BOOLEAN]

\* What a change of one field leaves as it is.
LEMMA SetPin ==
  ASSUME NEW s \in Session, NEW x \in Pins, NEW t, t = [s EXCEPT !.pin = x]
  PROVE  /\ t \in Session /\ t.pin = x
         /\ t.status = s.status /\ t.code = s.code /\ t.codeLeft = s.codeLeft
BY DEF Session, Pins

LEMMA SetStatus ==
  ASSUME NEW s \in Session, NEW x \in Statuses, NEW t, t = [s EXCEPT !.status = x]
  PROVE  t \in Session /\ t.status = x /\ t.pin = s.pin /\ t.code = s.code
BY DEF Session

LEMMA SetCode ==
  ASSUME NEW s \in Session, NEW x \in BOOLEAN, NEW t, t = [s EXCEPT !.code = x]
  PROVE  t \in Session /\ t.code = x /\ t.pin = s.pin /\ t.status = s.status
BY DEF Session

LEMMA SetCodeLeft ==
  ASSUME NEW s \in Session, NEW x \in 0..CodeTTL, NEW t, t = [s EXCEPT !.codeLeft = x]
  PROVE  t \in Session /\ t.pin = s.pin /\ t.status = s.status /\ t.code = s.code
BY DEF Session

LEMMA SetLeft ==
  ASSUME NEW s \in Session, NEW x \in 0..SessionTTL, NEW t, t = [s EXCEPT !.left = x]
  PROVE  /\ t \in Session /\ t.pin = s.pin
         /\ t.status = s.status /\ t.code = s.code /\ t.codeLeft = s.codeLeft
BY DEF Session

\* Time passes: a deadline comes nearer and stays one.
LEMMA EarlierDeadline ==
  ASSUME NEW max \in Nat, NEW n \in 0..max
  PROVE  Earlier(n) \in 0..max
BY DEF Earlier

LEMMA NewSessionHolds ==
  ASSUME NEW c \in Clients, NEW uri \in Uris, NEW challenge \in Challenges
  PROVE  /\ NewSession(c, uri, challenge) \in Session
         /\ NewSession(c, uri, challenge).pin.number = 0
         /\ NewSession(c, uri, challenge).code = FALSE
BY SessionsAssumption DEF NewSession, Session, NoPin, Statuses

LEMMA InitHolds == Init => IInv
<1>1. [number |-> 0, left |-> 0] \in Submission
  BY SessionsAssumption DEF Submission
<1>. QED
  BY <1>1, SessionsAssumption
  DEF Init, IInv, TypeOK, Stored, NewestPin, CodeApproved, PinSubmitted, NotYetExchanged, ExchangedOnce

LEMMA CreateKeeps ==
  ASSUME IInv, NEW i \in Ids, NEW c \in Clients, NEW uri \in Uris, NEW challenge \in Challenges,
         Create(i, c, uri, challenge)
  PROVE  IInv'
<1>1. PICK s \in Session : s = NewSession(c, uri, challenge) /\ s.pin.number = 0 /\ s.code = FALSE
  BY NewSessionHolds
<1>2. Stored' = Stored \cup {i} /\ i \notin Stored
  BY DEF Create, Stored, IInv, TypeOK
<1>3. sessions'[i] = s /\ \A j \in Stored : sessions'[j] = sessions[j]
  BY <1>1, <1>2 DEF Create
<1>4. i \notin used /\ used' = used \cup {i} /\ UNCHANGED <<told, submitted, exchanged, lost>>
  BY DEF Create
<1>5. TypeOK'
  BY <1>2, <1>3, <1>4 DEF IInv, TypeOK
<1>6. (NewestPin /\ CodeApproved /\ PinSubmitted /\ NotYetExchanged)'
  BY <1>1, <1>2, <1>3, <1>4 DEF IInv, NewestPin, CodeApproved, PinSubmitted, NotYetExchanged
<1>. QED
  BY <1>2, <1>4, <1>5, <1>6 DEF IInv, ExchangedOnce, TypeOK

LEMMA IssuePinKeeps ==
  ASSUME IInv, NEW i \in Ids, IssuePin(i)
  PROVE  IInv'
<1>1. /\ i \in Stored /\ Stored' = Stored
      /\ \A j \in Stored \ {i} : sessions'[j] = sessions[j] /\ told'[j] = told[j]
  BY DEF IssuePin, MayIssue, Stored, IInv, TypeOK
<1>2. sessions[i] \in Session /\ sessions[i].status = "pending"
  BY <1>1 DEF IssuePin, MayIssue, IInv, TypeOK
<1>3. told'[i] \in 0..MaxPins /\ told'[i] = told[i] + 1
  BY SessionsAssumption DEF IssuePin, IInv, TypeOK
<1>4. /\ sessions'[i] \in Session /\ sessions'[i].pin.number = told'[i]
      /\ sessions'[i].status = sessions[i].status /\ sessions'[i].code = sessions[i].code
  <2>1. PICK pin : pin = [number |-> told[i] + 1, left |-> PinTTL, spent |-> FALSE]
    OBVIOUS
  <2>2. pin \in Pins /\ pin.number = told'[i]
    BY <1>3, <2>1, SessionsAssumption DEF Pins
  <2>3. sessions'[i] = [sessions[i] EXCEPT !.pin = pin]
    BY <1>1, <2>1, Zenon DEF IssuePin, Stored
  <2>. QED
    BY <1>2, <2>2, <2>3, SetPin
<1>5. UNCHANGED <<used, submitted, exchanged, lost>>
  BY DEF IssuePin
<1>6. TypeOK'
  BY <1>1, <1>3, <1>4, <1>5 DEF IInv, TypeOK, IssuePin
<1>7. (NewestPin /\ CodeApproved /\ PinSubmitted /\ NotYetExchanged)'
  BY <1>1, <1>2, <1>4, <1>5 DEF IInv, TypeOK, NewestPin, CodeApproved, PinSubmitted, NotYetExchanged, IssuePin
<1>. QED
  BY <1>1, <1>5, <1>6, <1>7 DEF IInv, ExchangedOnce

LEMMA ApproveKeeps ==
  ASSUME IInv, NEW i \in Ids, NEW pin, Approve(i, pin)
  PROVE  IInv'
<1>1. /\ i \in Stored /\ Stored' = Stored
      /\ \A j \in Stored \ {i} : sessions'[j] = sessions[j]
  BY DEF Approve, MayApprove, Stored, IInv, TypeOK
<1>2. sessions[i] \in Session /\ sessions[i].status = "pending"
  BY <1>1 DEF Approve, MayApprove, IInv, TypeOK
<1>3. sessions'[i] = Approved(sessions[i])
  BY <1>1 DEF Approve, Stored
<1>4. /\ sessions'[i] \in Session /\ sessions'[i].pin.number = sessions[i].pin.number
      /\ sessions'[i].status = "approved" /\ sessions'[i].pin.spent
  <2>1. PICK p : p = [sessions[i].pin EXCEPT !.spent = TRUE]
    OBVIOUS
  <2>2. PICK s : s = [sessions[i] EXCEPT !.pin = p]
    OBVIOUS
  <2>3. PICK t : t = [s EXCEPT !.status = "approved"]
    OBVIOUS
  <2>4. PICK u : u = [t EXCEPT !.code = TRUE]
    OBVIOUS
  <2>5. sessions'[i] = [u EXCEPT !.codeLeft = CodeTTL]
    BY <1>3, <2>1, <2>2, <2>3, <2>4, Zenon DEF Approved
  <2>6. p \in Pins /\ p.number = sessions[i].pin.number /\ p.spent
    BY <1>2, <2>1 DEF Session, Pins
  <2>7. s \in Session /\ s.pin = p
    BY <1>2, <2>2, <2>6, SetPin
  <2>8. t \in Session /\ t.pin = p /\ t.status = "approved"
    BY <2>3, <2>7, SetStatus DEF Statuses
  <2>9. u \in Session /\ u.pin = p /\ u.status = "approved"
    BY <2>4, <2>8, SetCode
  <2>10. CodeTTL \in 0..CodeTTL
    BY SessionsAssumption
  <2>. QED
    BY <2>5, <2>6, <2>9, <2>10, SetCodeLeft
<1>5. UNCHANGED <<used, told, exchanged, lost>>
  BY DEF Approve
<1>6. /\ submitted' \in [Ids -> Submission]
      /\ \A j \in Stored \ {i} : submitted'[j] = submitted[j]
      /\ submitted'[i].number = told[i] /\ submitted'[i].number > 0 /\ submitted'[i].left > 0
  <2>1. PICK r : r = [number |-> pin, left |-> sessions[i].pin.left]
    OBVIOUS
  <2>2. /\ pin = sessions[i].pin.number /\ pin = told[i] /\ pin > 0
        /\ sessions[i].pin.left > 0
    BY <1>1 DEF Approve, MayApprove, IInv, NewestPin
  <2>3. r \in Submission /\ r.number = told[i] /\ r.number > 0 /\ r.left > 0
    BY <1>2, <2>1, <2>2 DEF Session, Submission
  <2>4. submitted' = [submitted EXCEPT ![i] = r]
    BY <2>1 DEF Approve
  <2>. QED
    BY <2>3, <2>4, <1>1 DEF IInv, TypeOK
<1>7. TypeOK'
  BY <1>1, <1>4, <1>5, <1>6 DEF IInv, TypeOK, Approve
<1>8. (NewestPin /\ CodeApproved /\ PinSubmitted /\ NotYetExchanged)'
  BY <1>1, <1>2, <1>4, <1>5, <1>6 DEF IInv, NewestPin, CodeApproved, PinSubmitted, NotYetExchanged
<1>. QED
  BY <1>1, <1>5, <1>7, <1>8 DEF IInv, ExchangedOnce

LEMMA ExchangeKeeps ==
  ASSUME IInv, NEW i \in Ids, NEW c, NEW uri, NEW v, Exchange(i, c, uri, v)
  PROVE  IInv'
<1>1. /\ i \in Stored /\ Stored' = Stored
      /\ \A j \in Stored \ {i} : sessions'[j] = sessions[j]
      /\ \A j \in Ids \ {i} : exchanged'[j] = exchanged[j]
  BY DEF Exchange, MayExchange, Stored, IInv, TypeOK
<1>2. sessions[i] \in Session /\ sessions[i].status = "approved"
  BY <1>1 DEF Exchange, MayExchange, IInv, TypeOK
<1>3. /\ sessions'[i] = [sessions[i] EXCEPT !.status = "consumed", !.code = FALSE, !.codeLeft = 0]
      /\ exchanged[i] = 0 /\ exchanged'[i] = 1 /\ exchanged' \in [Ids -> Nat]
  BY <1>1, <1>2 DEF Exchange, Stored, IInv, TypeOK, NotYetExchanged
<1>4. /\ sessions'[i] \in Session /\ sessions'[i].pin.number = sessions[i].pin.number
      /\ sessions'[i].status = "consumed" /\ ~sessions'[i].code
  <2>1. PICK s : s = [sessions[i] EXCEPT !.status = "consumed"]
    OBVIOUS
  <2>2. PICK t : t = [s EXCEPT !.code = FALSE]
    OBVIOUS
  <2>3. sessions'[i] = [t EXCEPT !.codeLeft = 0]
    BY <1>3, <2>1, <2>2, Zenon
  <2>4. s \in Session /\ s.status = "consumed" /\ s.pin = sessions[i].pin
    BY <1>2, <2>1, SetStatus DEF Statuses
  <2>5. t \in Session /\ t.status = "consumed" /\ t.pin = sessions[i].pin /\ ~t.code
    BY <2>2, <2>4, SetCode
  <2>6. 0 \in 0..CodeTTL
    BY SessionsAssumption
  <2>. QED
    BY <2>3, <2>5, <2>6, SetCodeLeft
<1>5. UNCHANGED <<used, told, submitted, lost>>
  BY DEF Exchange
<1>6. TypeOK'
  BY <1>1, <1>3, <1>4, <1>5 DEF IInv, TypeOK
<1>7. (NewestPin /\ CodeApproved /\ PinSubmitted /\ NotYetExchanged)'
  BY <1>1, <1>4, <1>5 DEF IInv, TypeOK, NewestPin, CodeApproved, PinSubmitted, NotYetExchanged
<1>. QED
  BY <1>1, <1>3, <1>5, <1>6, <1>7 DEF IInv, ExchangedOnce

\* Whoever takes sessions out leaves the rest as they are; those that are lost
\* are not among the rest.
LEMMA WithoutKeeps ==
  ASSUME IInv, NEW S, sessions' = Without(S), UNCHANGED <<used, told, submitted, exchanged>>,
         lost' \subseteq lost \cup (S \cap Stored)
  PROVE  IInv'
<1>1. Stored' = Stored \ S /\ \A j \in Stored' : sessions'[j] = sessions[j]
  BY DEF Without, Stored
<1>2. TypeOK'
  BY <1>1 DEF IInv, TypeOK
<1>3. (NewestPin /\ CodeApproved /\ PinSubmitted /\ NotYetExchanged)'
  BY <1>1 DEF IInv, NewestPin, CodeApproved, PinSubmitted, NotYetExchanged
<1>. QED
  BY <1>1, <1>2, <1>3 DEF IInv, ExchangedOnce

LEMMA TickKeeps ==
  ASSUME IInv, Tick
  PROVE  IInv'
<1>1. Stored' = Stored /\ UNCHANGED <<used, told, submitted, exchanged, lost>>
  BY DEF Tick, Stored
<1>2. ASSUME NEW j \in Stored
      PROVE  /\ sessions'[j] \in Session
             /\ sessions'[j].pin.number = sessions[j].pin.number
             /\ sessions'[j].pin.spent = sessions[j].pin.spent
             /\ sessions'[j].code = sessions[j].code /\ sessions'[j].status = sessions[j].status
  <2>1. sessions[j] \in Session
    BY DEF IInv, TypeOK
  <2>2. sessions'[j] = [sessions[j] EXCEPT !.left = Earlier(@), !.pin.left = Earlier(@),
                                           !.codeLeft = Earlier(@)]
    BY DEF Tick
  <2>3. PICK t : t = [sessions[j] EXCEPT !.left = Earlier(@)]
    OBVIOUS
  <2>4. PICK pin : pin = [t.pin EXCEPT !.left = Earlier(@)]
    OBVIOUS
  <2>5. PICK u : u = [t EXCEPT !.pin = pin]
    OBVIOUS
  <2>6. sessions'[j] = [u EXCEPT !.codeLeft = Earlier(u.codeLeft)]
    BY <2>2, <2>3, <2>4, <2>5, Zenon
  <2>7. Earlier(sessions[j].left) \in 0..SessionTTL /\ Earlier(sessions[j].codeLeft) \in 0..CodeTTL
    BY <2>1, EarlierDeadline, SessionsAssumption DEF Session
  <2>8. /\ t \in Session /\ t.pin = sessions[j].pin /\ t.status = sessions[j].status
        /\ t.code = sessions[j].code /\ t.codeLeft = sessions[j].codeLeft
    BY <2>1, <2>3, <2>7, SetLeft
  <2>9. pin \in Pins /\ pin.number = sessions[j].pin.number /\ pin.spent = sessions[j].pin.spent
    BY <2>4, <2>8, SessionsAssumption DEF Session, Pins, Earlier
  <2>10. /\ u \in Session /\ u.pin = pin /\ u.status = sessions[j].status
         /\ u.code = sessions[j].code /\ u.codeLeft = sessions[j].codeLeft
    BY <2>5, <2>8, <2>9, SetPin
  <2>11. PICK n \in 0..CodeTTL : sessions'[j] = [u EXCEPT !.codeLeft = n]
    BY <2>6, <2>7, <2>10
  <2>12. /\ sessions'[j] \in Session /\ sessions'[j].pin = u.pin
         /\ sessions'[j].status = u.status /\ sessions'[j].code = u.code
    BY <2>10, <2>11, SetCodeLeft
  <2>. QED
    BY <2>9, <2>10, <2>12
<1>3. TypeOK'
  BY <1>1, <1>2 DEF IInv, TypeOK
<1>4. (NewestPin /\ CodeApproved /\ PinSubmitted /\ NotYetExchanged)'
  BY <1>1, <1>2 DEF IInv, NewestPin, CodeApproved, PinSubmitted, NotYetExchanged
<1>. QED
  BY <1>1, <1>3, <1>4 DEF IInv, ExchangedOnce

LEMMA StepKeeps == IInv /\ [Next]_vars => IInv'
<1> SUFFICES ASSUME IInv, [Next]_vars PROVE IInv'
  OBVIOUS
<1>1. CASE UNCHANGED vars
  BY <1>1 DEF vars, IInv, TypeOK, Stored, NewestPin, CodeApproved, PinSubmitted, NotYetExchanged, ExchangedOnce
<1>2. CASE \E i \in Ids, c \in Clients, uri \in Uris, challenge \in Challenges :
             Create(i, c, uri, challenge)
  BY <1>2, CreateKeeps
<1>3. CASE \E i \in Ids : IssuePin(i)
  BY <1>3, IssuePinKeeps
<1>4. CASE \E i \in Ids, pin \in 1..MaxPins : Approve(i, pin)
  BY <1>4, ApproveKeeps
<1>5. CASE \E i \in Ids, c \in Clients, uri \in Uris, v \in Verifiers : Exchange(i, c, uri, v)
  BY <1>5, ExchangeKeeps
<1>6. CASE \E i \in Ids : Deny(i) \/ AdminDrop(i)
  BY <1>6, WithoutKeeps DEF Deny, AdminDrop, DropSession
<1>7. CASE Sweep
  BY <1>7, WithoutKeeps DEF Sweep
<1>8. CASE Tick
  BY <1>8, TickKeeps
<1>9. CASE Restart
  BY <1>9, WithoutKeeps DEF Restart
<1>. QED
  BY <1>1, <1>2, <1>3, <1>4, <1>5, <1>6, <1>7, <1>8, <1>9 DEF Next

LEMMA Inductive == Spec => []IInv
BY InitHolds, StepKeeps, PTL DEF Spec

\* The store, the deadlines and the accounts keep their types.
THEOREM TypeCorrect == Spec => []TypeOK
<1>1. IInv => TypeOK
  BY DEF IInv
<1>. QED
  BY <1>1, Inductive, PTL

\* However pages, exchanges, sweeps and restarts interleave, a session yields one
\* exchange at most.
THEOREM CodesExchangedOnce == Spec => []ExchangedOnce
<1>1. IInv => ExchangedOnce
  BY DEF IInv
<1>. QED
  BY <1>1, Inductive, PTL

\* A code exists only in a session nobody has removed, into which the newest PIN its
\* operator was given was typed before that PIN expired.
THEOREM CodesAreEarned == Spec => []CodeIsEarned
<1>1. IInv => CodeIsEarned
  BY DEF IInv, CodeIsEarned, CodeApproved, PinSubmitted
<1>. QED
  BY <1>1, Inductive, PTL
=============================================================================
