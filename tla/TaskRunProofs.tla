---------------------------- MODULE TaskRunProofs ----------------------------
(***************************************************************************)
(* Theorems about TaskRun and about agent_status beside it (TaskStatus).    *)
(* The invariant says, of every point a run can reach, which end of its     *)
(* outcome is left to store (TodoInv) and what memory therefore holds       *)
(* already (StoredInv); the limits of iterations and spending are           *)
(* invariants of their own (LoopInv, MoneyInv).  A status call takes its    *)
(* facts down at different moments: that they still hold when it answers    *)
(* rests on memory never telling of an end without the facts it speaks of   *)
(* (Backed), which the run may only add to.                                 *)
(***************************************************************************)
EXTENDS TaskStatus, SequenceTheorems, TLAPS

-----------------------------------------------------------------------------
(* What is left of an outcome.                                             *)

R(s) == <<"task_result", s>>
S(s) == <<"task_session", s>>
D == <<"task_deliverable", "agent_result">>

\* The ends of an outcome with status s.
Rest(s) ==
  {<<>>, <<S(s)>>, <<R(s), S(s)>>}
  \cup IF wants THEN {<<D, R(s), S(s)>>, <<Anchor, D, R(s), S(s)>>}
       ELSE {<<Anchor, R(s), S(s)>>}

LEMMA ConcatOneTwo ==
  ASSUME NEW a, NEW b, NEW c
  PROVE  <<a>> \o <<b, c>> = <<a, b, c>>
<1> DEFINE X == {a, b, c}
           u == <<a>> \o <<b, c>>
           v == <<a, b, c>>
<1>1. <<a>> \in Seq(X) /\ <<b, c>> \in Seq(X) /\ v \in Seq(X)
  OBVIOUS
<1>2. u \in Seq(X) /\ Len(u) = 3 /\ Len(v) = 3
  BY <1>1
<1>3. \A i \in 1..3 : u[i] = v[i]
  <2>1. u[1] = a /\ u[2] = b /\ u[3] = c  BY <1>1
  <2>2. v[1] = a /\ v[2] = b /\ v[3] = c  BY <1>1
  <2> QED  BY <2>1, <2>2
<1>4. u = v
  <2> HIDE DEF X, u, v
  <2> QED  BY <1>1, <1>2, <1>3, SeqEqual
<1> QED  BY <1>4

LEMMA ConcatTwoTwo ==
  ASSUME NEW a, NEW b, NEW c, NEW d
  PROVE  (<<a>> \o <<b>>) \o <<c, d>> = <<a, b, c, d>>
<1> DEFINE X == {a, b, c, d}
           u == (<<a>> \o <<b>>) \o <<c, d>>
           v == <<a, b, c, d>>
<1>1. <<a>> \in Seq(X) /\ <<b>> \in Seq(X) /\ <<c, d>> \in Seq(X) /\ v \in Seq(X)
  OBVIOUS
<1>2. <<a>> \o <<b>> \in Seq(X) /\ Len(<<a>> \o <<b>>) = 2
  BY <1>1
<1>3. (<<a>> \o <<b>>)[1] = a /\ (<<a>> \o <<b>>)[2] = b
  BY <1>1
<1>4. u \in Seq(X) /\ Len(u) = 4 /\ Len(v) = 4
  BY <1>1, <1>2
<1>5. \A i \in 1..4 : u[i] = v[i]
  <2>1. u[1] = a /\ u[2] = b /\ u[3] = c /\ u[4] = d  BY <1>1, <1>2, <1>3
  <2>2. v[1] = a /\ v[2] = b /\ v[3] = c /\ v[4] = d  BY <1>1
  <2> QED  BY <2>1, <2>2
<1>6. u = v
  <2> HIDE DEF X, u, v
  <2> QED  BY <1>1, <1>4, <1>5, SeqEqual
<1> QED  BY <1>6

\* What persist_results has to store for an answer, and for none.
LEMMA OutcomeIs ==
  ASSUME NEW given, NEW s
  PROVE  Outcome(given, s) =
           CASE given = None -> <<R(s), S(s)>>
             [] given # None /\ wants -> <<Anchor, D, R(s), S(s)>>
             [] OTHER -> <<Anchor, R(s), S(s)>>
<1> DEFINE r == R(s)
           e == S(s)
           X == {r, e, Anchor}
<1>1. <<r, e>> \in Seq(X) /\ <<Anchor>> \in Seq(X)
  OBVIOUS
<1>2. <<>> \o <<r, e>> = <<r, e>> /\ <<Anchor>> \o <<>> = <<Anchor>>
  BY <1>1, ConcatEmptySeq
<1>3. <<Anchor>> \o <<r, e>> = <<Anchor, r, e>>
  BY ConcatOneTwo
<1>4. (<<Anchor>> \o <<D>>) \o <<r, e>> = <<Anchor, D, r, e>>
  BY ConcatTwoTwo
<1>5. given # None /\ wants
      => Outcome(given, s) = (<<Anchor>> \o <<D>>) \o <<r, e>>
  BY DEF Outcome, Deliverable, D, R, S
<1>6. given # None /\ ~wants
      => Outcome(given, s) = (<<Anchor>> \o <<>>) \o <<r, e>>
  BY DEF Outcome, Deliverable, R, S
<1>7. given = None => Outcome(given, s) = <<>> \o <<r, e>>
  BY DEF Outcome, R, S
<1> QED  BY <1>2, <1>3, <1>4, <1>5, <1>6, <1>7

\* Sequences of up to four members.
LEMMA Short ==
  ASSUME NEW X, NEW a \in X, NEW b \in X, NEW c \in X, NEW d \in X
  PROVE  /\ Len(<<>>) = 0 /\ <<>> \in Seq(X)
         /\ Len(<<a>>) = 1 /\ Head(<<a>>) = a /\ Tail(<<a>>) = <<>> /\ <<a>> \in Seq(X)
         /\ Len(<<a, b>>) = 2 /\ Head(<<a, b>>) = a /\ Tail(<<a, b>>) = <<b>>
         /\ <<a, b>> \in Seq(X)
         /\ Len(<<a, b, c>>) = 3 /\ Head(<<a, b, c>>) = a /\ Tail(<<a, b, c>>) = <<b, c>>
         /\ <<a, b, c>> \in Seq(X)
         /\ Len(<<a, b, c, d>>) = 4 /\ Head(<<a, b, c, d>>) = a
         /\ Tail(<<a, b, c, d>>) = <<b, c, d>> /\ <<a, b, c, d>> \in Seq(X)
OBVIOUS

LEMMA FactsAre ==
  ASSUME NEW s \in Terminal \cup {"running"}
  PROVE  R(s) \in Facts /\ S(s) \in Facts /\ D \in Facts /\ Anchor \in Facts
BY DEF R, S, D, Anchor, Facts, Kinds, Terminal

\* The first of the facts that are left, and what is left after it.
LEMMA RestCases ==
  ASSUME NEW s \in Terminal \cup {"running"}, NEW t \in Rest(s)
  PROVE  /\ t \in Seq(Facts)
         /\ \/ t = <<>> /\ Len(t) = 0
            \/ Len(t) = 1 /\ Head(t) = S(s) /\ Tail(t) = <<>>
            \/ Len(t) = 2 /\ Head(t) = R(s) /\ Tail(t) = <<S(s)>>
            \/ wants /\ Len(t) = 3 /\ Head(t) = D /\ Tail(t) = <<R(s), S(s)>>
            \/ wants /\ Len(t) = 4 /\ Head(t) = Anchor /\ Tail(t) = <<D, R(s), S(s)>>
            \/ ~wants /\ Len(t) = 3 /\ Head(t) = Anchor /\ Tail(t) = <<R(s), S(s)>>
<1> DEFINE r == R(s)
           e == S(s)
           DRS == <<D, r, e>>
           ADRS == <<Anchor, D, r, e>>
           ARS == <<Anchor, r, e>>
<1>1. r \in Facts /\ e \in Facts /\ D \in Facts /\ Anchor \in Facts
  BY FactsAre
<1>2. Len(DRS) = 3 /\ Head(DRS) = D /\ Tail(DRS) = <<r, e>> /\ DRS \in Seq(Facts)
  <2> HIDE DEF r, e, D, Anchor
  <2> QED  BY <1>1, Short
<1>3. Len(ADRS) = 4 /\ Head(ADRS) = Anchor /\ Tail(ADRS) = DRS /\ ADRS \in Seq(Facts)
  <2> HIDE DEF r, e, D, Anchor
  <2> QED  BY <1>1, Short
<1>4. Len(ARS) = 3 /\ Head(ARS) = Anchor /\ Tail(ARS) = <<r, e>> /\ ARS \in Seq(Facts)
  <2> HIDE DEF r, e, D, Anchor
  <2> QED  BY <1>1, Short
<1>5. /\ Len(<<e>>) = 1 /\ Head(<<e>>) = e /\ Tail(<<e>>) = <<>> /\ <<e>> \in Seq(Facts)
      /\ Len(<<r, e>>) = 2 /\ Head(<<r, e>>) = r /\ Tail(<<r, e>>) = <<e>>
      /\ <<r, e>> \in Seq(Facts) /\ Len(<<>>) = 0 /\ <<>> \in Seq(Facts)
  <2> HIDE DEF r, e
  <2> QED  BY <1>1, Short
<1>6. \/ t \in {<<>>, <<e>>, <<r, e>>}
      \/ wants /\ t \in {DRS, ADRS}
      \/ ~wants /\ t = ARS
  BY DEF Rest
<1> HIDE DEF D, Anchor, R, S
<1> QED  BY <1>2, <1>3, <1>4, <1>5, <1>6

\* An outcome is one of its ends, and begins with the anchor or the result.
LEMMA OutcomeInRest ==
  ASSUME NEW s \in Terminal, NEW given
  PROVE  /\ Outcome(given, s) \in Rest(s)
         /\ Outcome(given, s) # <<>>
         /\ Len(Outcome(given, s)) > 1
         /\ Head(Outcome(given, s)) # D
         /\ given # None /\ wants => Len(Outcome(given, s)) > 2
<1> DEFINE o == Outcome(given, s)
<1>1. R(s) \in Facts /\ S(s) \in Facts /\ D \in Facts /\ Anchor \in Facts
  BY FactsAre
<1>2. Anchor # D /\ R(s) # D
  BY DEF Anchor, R, D
<1>3. CASE given = None
  <2>1. o = <<R(s), S(s)>>  BY <1>3, OutcomeIs
  <2>2. o \in Rest(s)  BY <2>1 DEF Rest
  <2> HIDE DEF o
  <2>3. Len(o) = 2 /\ Head(o) = R(s)  BY <1>1, <2>1, Short
  <2> QED  BY <1>2, <1>3, <2>2, <2>3 DEF o
<1>4. CASE given # None /\ wants
  <2>1. o = <<Anchor, D, R(s), S(s)>>  BY <1>4, OutcomeIs
  <2>2. o \in Rest(s)  BY <1>4, <2>1 DEF Rest
  <2> HIDE DEF o
  <2>3. Len(o) = 4 /\ Head(o) = Anchor  BY <1>1, <2>1, Short
  <2> QED  BY <1>2, <1>4, <2>2, <2>3 DEF o
<1>5. CASE given # None /\ ~wants
  <2>1. o = <<Anchor, R(s), S(s)>>  BY <1>5, OutcomeIs
  <2>2. o \in Rest(s)  BY <1>5, <2>1 DEF Rest
  <2> HIDE DEF o
  <2>3. Len(o) = 3 /\ Head(o) = Anchor  BY <1>1, <2>1, Short
  <2> QED  BY <1>2, <1>5, <2>2, <2>3 DEF o
<1> QED  BY <1>3, <1>4, <1>5

\* What is left after the first fact is an end of the outcome too.
LEMMA TailInRest ==
  ASSUME NEW s \in Terminal, NEW t \in Rest(s), t # <<>>
  PROVE  /\ Tail(t) \in Rest(s)
         /\ Len(Tail(t)) = Len(t) - 1
         /\ Tail(t) = <<>> <=> Len(t) = 1
         /\ Len(t) \in 1..4 /\ Head(t) \in Facts
         /\ Len(t) = 1 => Head(t) = S(s)
         /\ Len(t) = 2 => Head(t) = R(s)
         /\ Len(t) = 3 /\ wants => Head(t) = D
         /\ Len(t) > 2 => (Head(t) = Anchor \/ Head(t) = D)
<1>1. Tail(t) \in Rest(s)
  BY RestCases DEF Rest
<1>2. t \in Seq(Facts) /\ Len(t) \in 1..4
  BY RestCases
<1>3. Len(Tail(t)) = Len(t) - 1 /\ Tail(t) \in Seq(Facts) /\ Head(t) \in Facts
  BY <1>2
<1>4. Tail(t) = <<>> <=> Len(Tail(t)) = 0
  BY <1>3, EmptySeq
<1>5. s \in Terminal \cup {"running"}
  OBVIOUS
<1>6. \/ Len(t) = 0
      \/ Len(t) = 1 /\ Head(t) = S(s)
      \/ Len(t) = 2 /\ Head(t) = R(s)
      \/ wants /\ Len(t) = 3 /\ Head(t) = D
      \/ wants /\ Len(t) = 4 /\ Head(t) = Anchor
      \/ ~wants /\ Len(t) = 3 /\ Head(t) = Anchor
  BY <1>5, RestCases
<1>7. Len(t) = 1 => Head(t) = S(s)
  BY <1>6
<1>8. Len(t) = 2 => Head(t) = R(s)
  BY <1>6
<1>9. Len(t) = 3 /\ wants => Head(t) = D
  BY <1>6
<1>10. Len(t) > 2 => Head(t) = Anchor \/ Head(t) = D
  <2>1. Len(t) \in {0, 1, 2} => ~(Len(t) > 2)
    OBVIOUS
  <2>2. Len(t) \in {0, 1, 2} \/ Head(t) = Anchor \/ Head(t) = D
    BY <1>6
  <2> QED  BY <2>1, <2>2
<1>11. Tail(t) = <<>> <=> Len(t) = 1
  BY <1>2, <1>3, <1>4
<1> QED  BY <1>1, <1>2, <1>3, <1>7, <1>8, <1>9, <1>10, <1>11

-----------------------------------------------------------------------------
(* The invariant.                                                          *)

Early == {"resolve", "recall", "plan", "prepare"}
Reviewing == {"review", "repair", "record_review"}
Storing == {"sanitise", "write", "verify"}

\* Attempts and retries go together, and only an attempt that has ended with an
\* error has passed the iteration limit.
LoopInv ==
  /\ attempt <= retries + 1 /\ retries <= MaxRetries
  /\ iteration <= MaxIterations + 1
  /\ at \in Early => iteration = 0
  /\ at \in {"call", "validate"} \cup Reviewing => iteration <= MaxIterations
  /\ at = "record" => iteration <= MaxIterations \/ verdict = "error"

\* A backend that charges nothing has been charged nothing, and what a repair
\* may add comes on top of one call that was affordable.
FreeOfCharge == OnCli \/ Price(plan) = "free"
MoneyInv ==
  /\ at \in Early => spent = 0
  /\ FreeOfCharge => spent = 0
  /\ at = "repair" /\ ~FreeOfCharge =>
       \E e \in Estimates, c \in Costs : spent + e <= Budget + c
  /\ SpentBounded

\* What is true at a point whatever memory does.
ControlInv ==
  /\ at \in {"aborted", "returned"} \/ closed = 0
  /\ at = "validate" => verdict \in Answers
  /\ at \in Reviewing => result \in Answers
  /\ at \in Storing \cup {"remedy", "returned"} => status \in Terminal
  /\ at \in Storing \cup {"remedy", "returned"} =>
       pass = "first" \/ (status = "failed" /\ artifact # None)
  /\ at = "remedy" => pass = "first"

\* What is left to store.
TodoInv ==
  /\ todo \in Rest(status)
  /\ at \in Storing <=> todo # <<>>
  /\ at = "sanitise" => Len(todo) > 1
  /\ at = "sanitise" /\ status = "done" /\ wants => Len(todo) > 2
  /\ OnCli /\ at \in Storing /\ Head(todo) = D => at = "write" /\ tries = 0

\* What has been stored when this much is left.
DeliverableFirst ==
  at \in Storing /\ status = "done" /\ wants /\ Len(todo) <= 2
    => memory["task_deliverable"] # None
ResultFirst ==
  at \in Storing /\ Len(todo) = 1 =>
    /\ memory["task_result"] # None
    /\ ~overtaken => memory["task_result"] = status

\* A CLI has delivered by itself before its answer counts.
AnswerCounts ==
  \/ at = "record" /\ verdict \in Answers
  \/ at \in Reviewing
  \/ at \in Storing /\ status = "done"
CliDelivered ==
  OnCli /\ wants /\ ~overtaken /\ AnswerCounts
    => memory["task_deliverable"] = "external_cli"

\* A late result that is done finds its deliverable.
LateDelivered ==
  wants /\ <<"task_result", "done">> \in inflight => memory["task_deliverable"] # None

StoredInv ==
  /\ DeliverableFirst /\ ResultFirst /\ CliDelivered /\ LateDelivered
  /\ DoneHasDeliverable /\ DoneIsStored /\ OutcomeKept

Inv == TypeOK /\ LoopInv /\ MoneyInv /\ ControlInv /\ TodoInv /\ StoredInv
-----------------------------------------------------------------------------
(* TodoInv is kept.                                                        *)

\* Nothing is being stored.
LEMMA TodoIdle ==
  ASSUME todo' = <<>>, at' \notin Storing
  PROVE  TodoInv'
<1>1. todo' \in Rest(status)'
  BY DEF Rest
<1> QED  BY <1>1 DEF TodoInv, Storing

\* persist_results begins.
LEMMA TodoBegins ==
  ASSUME NEW s \in Terminal, NEW given, NEW p, BeginPersist(p, given, s),
         s = "done" => given # None, wants' = wants, status' = s
  PROVE  TodoInv'
<1> DEFINE o == Outcome(given, s)
<1>1. at' = "sanitise" /\ todo' = o
  BY DEF BeginPersist
<1>2. Rest(status)' = Rest(s)
  BY DEF Rest, Anchor, D, R, S
<1>3. o \in Rest(s) /\ o # <<>> /\ Len(o) > 1 /\ Head(o) # D
  BY OutcomeInRest
<1>4. status' = "done" /\ wants' => Len(o) > 2
  BY OutcomeInRest
<1> HIDE DEF o
<1> QED  BY <1>1, <1>2, <1>3, <1>4 DEF TodoInv, Storing, D

\* The same fact, at another point.
LEMMA TodoStays ==
  ASSUME TodoInv, todo' = todo, UNCHANGED <<status, wants, plan>>,
         at \in Storing, at' \in {"write", "verify"},
         OnCli /\ Head(todo) = D => at' = "write" /\ tries' = 0
  PROVE  TodoInv'
<1>1. Rest(status)' = Rest(status)
  BY DEF Rest, Anchor, D, R, S
<1> QED  BY <1>1 DEF TodoInv, Storing, D, OnCli

\* A fact is done with.
LEMMA TodoAdvances ==
  ASSUME TodoInv, status \in Terminal, at \in {"write", "verify"}, NextFact,
         UNCHANGED <<status, wants, plan>>
  PROVE  TodoInv'
<1>1. Rest(status)' = Rest(status)
  BY DEF Rest, Anchor, D, R, S
<1>2. todo \in Rest(status) /\ todo # <<>>
  BY DEF TodoInv, Storing
<1>3. Tail(todo) \in Rest(status) /\ (Tail(todo) = <<>> <=> Len(todo) = 1) /\ Len(todo) \in 1..4
  BY <1>2, TailInRest
<1>4. CASE Len(todo) > 1 /\ at' = "write"
  <2>1. todo' # <<>> /\ todo' \in Rest(status)' /\ tries' = 0
    BY <1>1, <1>3, <1>4 DEF NextFact
  <2> QED  BY <1>4, <2>1 DEF TodoInv, Storing
<1>5. CASE Len(todo) = 1 /\ Return(TRUE)
  BY <1>3, <1>5, TodoIdle DEF NextFact, Return, Storing
<1> QED  BY <1>4, <1>5 DEF NextFact

LEMMA TodoStep ==
  ASSUME Inv, [Next]_vars
  PROVE  TodoInv'
<1>1. at \notin Storing => todo = <<>>
  BY DEF Inv, TodoInv
<1>2. TodoInv /\ (at \in Storing => status \in Terminal)
  BY DEF Inv, ControlInv
<1>3. CASE Resolve
  BY <1>1, <1>3, TodoIdle DEF Resolve, Step, taskVars, loopVars, persistVars, Storing
<1>4. CASE Recall
  BY <1>1, <1>4, TodoIdle DEF Recall, Step, taskVars, loopVars, persistVars, Storing
<1>5. CASE Plan
  BY <1>1, <1>5, TodoIdle DEF Plan, Step, taskVars, loopVars, persistVars, Storing
<1>6. CASE Prepare
  BY <1>1, <1>6, TodoIdle DEF Prepare, loopVars, persistVars, Storing
<1>7. CASE IterationLimit
  BY <1>1, <1>7, TodoIdle DEF IterationLimit, EndAttempt, taskVars, persistVars, Storing
<1>8. CASE BudgetExhausted
  BY <1>1, <1>8, TodoIdle DEF BudgetExhausted, taskVars, persistVars, Storing
<1>9. CASE CallFails
  BY <1>1, <1>9, TodoIdle DEF CallFails, CallAllowed, EndAttempt, taskVars, persistVars,
       Storing
<1>10. CASE CallTools
  BY <1>1, <1>10, TodoIdle DEF CallTools, CallAllowed, taskVars, persistVars, Storing
<1>11. CASE CallRecovers
  BY <1>1, <1>11, TodoIdle DEF CallRecovers, CallAllowed, taskVars, persistVars, Storing
<1>12. CASE CallInvalid
  BY <1>1, <1>12, TodoIdle DEF CallInvalid, CallAllowed, EndAttempt, taskVars, persistVars,
       Storing
<1>13. CASE CallAnswers
  BY <1>1, <1>13, TodoIdle DEF CallAnswers, CallAllowed, taskVars, persistVars, Storing
<1>14. CASE Validate
  BY <1>1, <1>14, TodoIdle DEF Validate, taskVars, persistVars, Storing
<1>15. CASE RecordFails
  BY <1>1, <1>15, TodoIdle DEF RecordFails, taskVars, loopVars, persistVars, Storing
<1>16. CASE Accept
  BY <1>1, <1>16, TodoIdle DEF Accept, taskVars, loopVars, persistVars, Storing
<1>17. CASE ReviewSkipped
  BY <1>1, <1>17, TodoIdle DEF ReviewSkipped, EndReview, taskVars, persistVars, Storing
<1>18. CASE ReviewRejects
  BY <1>1, <1>18, TodoIdle DEF ReviewRejects, EndReview, taskVars, persistVars, Storing
<1>19. CASE ReviewAnswers
  BY <1>1, <1>19, TodoIdle DEF ReviewAnswers, ReviewCall, EndReview, taskVars, persistVars,
       Storing
<1>20. CASE ReviewFails
  BY <1>1, <1>20, TodoIdle DEF ReviewFails, ReviewCall, EndReview, taskVars, persistVars,
       Storing
<1>21. CASE ReportAbort
  BY <1>1, <1>21, TodoIdle DEF ReportAbort, taskVars, loopVars, persistVars, Storing
<1>22. CASE RunAgain
  BY <1>1, <1>22, TodoIdle DEF RunAgain, Storing
<1>23. CASE BootstrapFailure
  BY <1>23, TodoBegins DEF BootstrapFailure, FailEarly, taskVars, Terminal
<1>24. CASE PrepareFails
  BY <1>24, TodoBegins DEF PrepareFails, FailEarly, taskVars, Terminal
<1>25. CASE Retry
  BY <1>1, <1>25, TodoIdle, TodoBegins DEF Retry, TryAgain, Decide, taskVars, Terminal, Storing
<1>26. CASE Fail
  BY <1>26, TodoBegins DEF Fail, Decide, taskVars, Terminal
<1>27. CASE Reviewed
  BY <1>1, <1>27, TodoIdle, TodoBegins DEF Reviewed, TryAgain, Decide, taskVars, Terminal,
       Storing, Inv, ControlInv, Reviewing, Answers, None
<1>28. CASE Remedy
  BY <1>1, <1>28, TodoIdle, TodoBegins DEF Remedy, Return, taskVars, Terminal, Storing
<1>29. CASE Sanitise
  BY <1>2, <1>29, TodoIdle, TodoStays DEF Sanitise, PersistError, Return, taskVars, Storing,
       TodoInv
<1>30. CASE HasDeliverable
  BY <1>2, <1>30, TodoAdvances DEF HasDeliverable, taskVars, Storing
<1>31. CASE LacksDeliverable
  BY <1>31, TodoIdle DEF LacksDeliverable, PersistError, Return, Storing
<1>32. CASE WriteFact
  BY <1>2, <1>32, TodoStays DEF WriteFact, taskVars, persistVars, Storing, TodoInv, Writable, D
<1>33. CASE WriteFails
  BY <1>33, TodoIdle DEF WriteFails, PersistError, Return, Storing
<1>34. CASE VerifySucceeds
  BY <1>2, <1>34, TodoAdvances DEF VerifySucceeds, Visible, taskVars, Storing
<1>35. CASE VerifyFails
  BY <1>2, <1>35, TodoIdle, TodoStays DEF VerifyFails, PersistError, Return, taskVars,
       Storing, TodoInv
<1>36. CASE LateWrite
  BY <1>2, <1>36 DEF LateWrite, taskVars, budgetVars, persistVars, TodoInv, Rest, R, S, D,
       Anchor, OnCli
<1>37. CASE UNCHANGED vars
  BY <1>2, <1>37 DEF vars, taskVars, budgetVars, persistVars, TodoInv, Rest, R, S, D,
       Anchor, OnCli
<1> QED
  BY <1>3, <1>4, <1>5, <1>6, <1>7, <1>8, <1>9, <1>10, <1>11, <1>12, <1>13, <1>14, <1>15,
       <1>16, <1>17, <1>18, <1>19, <1>20, <1>21, <1>22, <1>23, <1>24, <1>25, <1>26, <1>27,
       <1>28, <1>29, <1>30, <1>31, <1>32, <1>33, <1>34, <1>35, <1>36, <1>37 DEF Next,
       RunStep
-----------------------------------------------------------------------------
(* StoredInv is kept.                                                      *)

\* The fact that is being stored.
LEMMA HeadOfTodo ==
  ASSUME Inv, at \in {"write", "verify"}
  PROVE  /\ Len(todo) \in 1..4 /\ Head(todo) \in Facts
         /\ \/ Len(todo) = 1 /\ Head(todo) = S(status)
            \/ Len(todo) = 2 /\ Head(todo) = R(status)
            \/ Len(todo) > 2 /\ (Head(todo) = Anchor \/ Head(todo) = D)
         /\ Len(todo) = 1 => Head(todo) = S(status)
         /\ Len(todo) = 2 => Head(todo) = R(status)
         /\ Len(todo) = 3 /\ wants => Head(todo) = D
         /\ Len(Tail(todo)) = Len(todo) - 1
<1>1. status \in Terminal /\ todo \in Rest(status) /\ todo # <<>>
  BY DEF Inv, ControlInv, TodoInv, Storing
<1>2. /\ Len(todo) \in 1..4 /\ Head(todo) \in Facts
      /\ Len(Tail(todo)) = Len(todo) - 1
      /\ Len(todo) = 1 => Head(todo) = S(status)
      /\ Len(todo) = 2 => Head(todo) = R(status)
      /\ Len(todo) = 3 /\ wants => Head(todo) = D
      /\ Len(todo) > 2 => Head(todo) = Anchor \/ Head(todo) = D
  BY <1>1, TailInRest
<1>3. Len(todo) = 1 \/ Len(todo) = 2 \/ Len(todo) > 2
  BY <1>2
<1> QED  BY <1>2, <1>3

\* What memory holds after a write.
LEMMA StoreHead ==
  ASSUME Inv, at = "write", Store(Head(todo)[1], Head(todo)[2])
  PROVE  \/ /\ Head(todo) = S(status) \/ Head(todo) = Anchor
            /\ memory'["task_result"] = memory["task_result"]
            /\ memory'["task_deliverable"] = memory["task_deliverable"]
         \/ /\ Head(todo) = R(status) /\ Len(todo) = 2
            /\ memory'["task_result"] = status
            /\ memory'["task_deliverable"] = memory["task_deliverable"]
         \/ /\ Head(todo) = D
            /\ memory'["task_result"] = memory["task_result"]
            /\ memory'["task_deliverable"] = "agent_result"
<1>1. DOMAIN memory = Kinds
  BY DEF Inv, TypeOK
<1>2. memory' = [memory EXCEPT ![Head(todo)[1]] = Head(todo)[2]]
  BY DEF Store
<1>3. CASE Head(todo) = S(status) \/ Head(todo) = Anchor
  <2>1. Head(todo)[1] = "task_session"
    BY <1>3 DEF S, Anchor
  <2> QED  BY <1>1, <1>2, <1>3, <2>1 DEF Kinds
<1>4. CASE Head(todo) = R(status) /\ Len(todo) = 2
  <2>1. Head(todo)[1] = "task_result" /\ Head(todo)[2] = status
    BY <1>4 DEF R
  <2> QED  BY <1>1, <1>2, <1>4, <2>1 DEF Kinds
<1>5. CASE Head(todo) = D
  <2>1. Head(todo)[1] = "task_deliverable" /\ Head(todo)[2] = "agent_result"
    BY <1>5 DEF D
  <2> QED  BY <1>1, <1>2, <1>5, <2>1 DEF Kinds
<1> QED  BY <1>3, <1>4, <1>5, HeadOfTodo
\* A write leaves what has been stored before it, and a deliverable is there
\* before a result that is done is written.
LEMMA WriteEffect ==
  ASSUME Inv, Writable, Store(Head(todo)[1], Head(todo)[2]) \/ UNCHANGED memory,
         UNCHANGED wants
  PROVE  /\ \/ memory'["task_result"] = memory["task_result"]
            \/ Len(todo) = 2 /\ memory'["task_result"] = status
         /\ \/ memory'["task_deliverable"] = memory["task_deliverable"]
            \/ ~OnCli /\ memory'["task_deliverable"] = "agent_result"
         /\ DoneHasDeliverable'
<1> USE DEF None
<1>1. at = "write" /\ DeliverableFirst /\ DoneHasDeliverable
  BY DEF Inv, StoredInv, Writable
<1>2. Len(todo) = 2 /\ status = "done" /\ wants => memory["task_deliverable"] # None
  BY <1>1 DEF DeliverableFirst, Storing
<1>3. CASE UNCHANGED memory
  BY <1>1, <1>3 DEF DoneHasDeliverable
<1>4. CASE Store(Head(todo)[1], Head(todo)[2])
  <2>1. CASE /\ memory'["task_result"] = memory["task_result"]
             /\ memory'["task_deliverable"] = memory["task_deliverable"]
    BY <1>1, <2>1 DEF DoneHasDeliverable
  <2>2. CASE /\ Len(todo) = 2
             /\ memory'["task_result"] = status
             /\ memory'["task_deliverable"] = memory["task_deliverable"]
    BY <1>2, <2>2 DEF DoneHasDeliverable
  <2>3. CASE /\ Head(todo) = D
             /\ memory'["task_result"] = memory["task_result"]
             /\ memory'["task_deliverable"] = "agent_result"
    <3>1. ~OnCli
      BY <1>1, <2>3 DEF Inv, TodoInv, Storing, Writable, D
    <3> QED  BY <2>3, <3>1 DEF DoneHasDeliverable
  <2> QED  BY <1>1, <1>4, <2>1, <2>2, <2>3, StoreHead
<1> QED  BY <1>3, <1>4

\* The end of persist_results with an error says nothing of memory.
LEMMA StoredAfterError ==
  ASSUME Inv, PersistError, LateDelivered', DoneHasDeliverable', UNCHANGED <<status, artifact>>,
         at \in Storing
  PROVE  StoredInv'
<1>1. \/ at' = "remedy"
      \/ at' = "returned" /\ status = "failed" /\ artifact # None
  BY DEF Inv, ControlInv, PersistError, Return
<1> QED  BY <1>1 DEF StoredInv, DeliverableFirst, ResultFirst, CliDelivered, AnswerCounts,
                     DoneIsStored, OutcomeKept, Storing, Reviewing

LEMMA StoredAfterWrite ==
  ASSUME Inv, WriteFact
  PROVE  StoredInv'
<1> USE DEF None
<1>1. /\ at \in Storing /\ at' = "verify" /\ todo' = todo /\ status' = status
      /\ UNCHANGED <<wants, plan, overtaken, inflight>>
  BY DEF WriteFact, Writable, taskVars, persistVars, Storing
<1>2. DeliverableFirst /\ ResultFirst /\ CliDelivered /\ LateDelivered
  BY DEF Inv, StoredInv
<1>3. /\ \/ memory'["task_result"] = memory["task_result"]
         \/ Len(todo) = 2 /\ memory'["task_result"] = status
      /\ \/ memory'["task_deliverable"] = memory["task_deliverable"]
         \/ ~OnCli /\ memory'["task_deliverable"] = "agent_result"
      /\ DoneHasDeliverable'
  BY <1>1, WriteEffect DEF WriteFact
<1>4. DeliverableFirst' /\ ResultFirst'
  BY <1>1, <1>2, <1>3 DEF DeliverableFirst, ResultFirst, Storing
<1>5. CliDelivered' /\ LateDelivered'
  BY <1>1, <1>2, <1>3 DEF CliDelivered, AnswerCounts, LateDelivered, Storing, Reviewing, OnCli
<1>6. DoneIsStored' /\ OutcomeKept'
  BY <1>1 DEF DoneIsStored, OutcomeKept
<1> QED  BY <1>3, <1>4, <1>5, <1>6 DEF StoredInv

LEMMA StoredAfterFailedWrite ==
  ASSUME Inv, WriteFails
  PROVE  StoredInv'
<1> USE DEF None
<1>1. /\ at = "write" /\ UNCHANGED <<wants, plan, overtaken, status, artifact>>
      /\ inflight' \subseteq inflight \cup {Head(todo)}
      /\ PersistError /\ Writable
      /\ Store(Head(todo)[1], Head(todo)[2]) \/ UNCHANGED memory
  BY DEF WriteFails, Writable, taskVars, storeVars
<1>2. /\ \/ memory'["task_deliverable"] = memory["task_deliverable"]
         \/ ~OnCli /\ memory'["task_deliverable"] = "agent_result"
      /\ DoneHasDeliverable'
  BY <1>1, WriteEffect
<1>3. Head(todo) = <<"task_result", "done">> /\ wants => memory["task_deliverable"] # None
  <2> SUFFICES ASSUME Head(todo) = <<"task_result", "done">>, wants
               PROVE  memory["task_deliverable"] # None
    OBVIOUS
  <2>1. Head(todo)[1] = "task_result" /\ Head(todo)[2] = "done"
    OBVIOUS
  <2>2. S(status)[1] # "task_result" /\ D[1] # "task_result" /\ Anchor[1] # "task_result"
    BY DEF S, D, Anchor
  <2>3. Len(todo) = 2 /\ Head(todo) = R(status)
    BY <1>1, <2>1, <2>2, HeadOfTodo
  <2>4. status = "done"
    BY <2>1, <2>3 DEF R
  <2> QED  BY <1>1, <2>3, <2>4 DEF Inv, StoredInv, DeliverableFirst, Storing
<1>4. LateDelivered'
  BY <1>1, <1>2, <1>3 DEF LateDelivered, Inv, StoredInv
<1> QED  BY <1>1, <1>2, <1>4, StoredAfterError DEF Storing

\* A fact is done with.
LEMMA StoredAfterFact ==
  ASSUME Inv, at \in {"write", "verify"}, NextFact,
         Head(todo) = D => memory["task_deliverable"] # None,
         Head(todo) # D => memory[Head(todo)[1]] = Head(todo)[2],
         UNCHANGED <<status, result, wants, plan, overtaken, inflight, memory, artifact>>
  PROVE  StoredInv'
<1> USE DEF None
<1>1. /\ DeliverableFirst /\ ResultFirst /\ CliDelivered /\ LateDelivered
      /\ DoneHasDeliverable /\ at \in Storing
  BY DEF Inv, StoredInv, Storing
<1>2. /\ Len(todo) = 1 => Head(todo) = S(status)
      /\ Len(todo) = 2 => Head(todo) = R(status)
      /\ Len(todo) = 3 /\ wants => Head(todo) = D
  BY HeadOfTodo
<1>5. Len(todo) \in 1..4 /\ Len(todo') = Len(todo) - 1
  BY HeadOfTodo DEF NextFact
<1>3. CASE Len(todo) > 1 /\ at' = "write"
  <2>1. DeliverableFirst'
    <3>1. Len(todo) = 2 \/ Len(todo) = 3 \/ Len(todo) = 4
      BY <1>3, <1>5
    <3>2. CASE Len(todo) = 2
      BY <1>1, <3>2 DEF DeliverableFirst
    <3>3. CASE Len(todo) = 3
      BY <1>2, <3>3 DEF DeliverableFirst
    <3>4. CASE Len(todo) = 4
      BY <1>5, <3>4 DEF DeliverableFirst
    <3> QED  BY <3>1, <3>2, <3>3, <3>4
  <2>2. ResultFirst'
    <3>1. R(status)[1] = "task_result" /\ R(status)[2] = status /\ R(status) # D
      BY DEF R, D
    <3>2. Len(todo) = 2 => memory["task_result"] = status
      BY <1>2, <3>1
    <3>3. Len(todo') = 1 => Len(todo) = 2
      <4>1. \A n \in 1..4 : n - 1 = 1 => n = 2
        OBVIOUS
      <4> QED  BY <1>5, <4>1
    <3>4. status # None
      BY <1>1 DEF Inv, ControlInv, Terminal
    <3> QED  BY <3>2, <3>3, <3>4 DEF ResultFirst
  <2>3. CliDelivered' /\ LateDelivered' /\ DoneHasDeliverable'
    BY <1>1, <1>3 DEF CliDelivered, AnswerCounts, LateDelivered, DoneHasDeliverable,
         Storing, Reviewing, OnCli
  <2>4. DoneIsStored' /\ OutcomeKept'
    BY <1>3 DEF DoneIsStored, OutcomeKept
  <2> QED  BY <2>1, <2>2, <2>3, <2>4 DEF StoredInv
<1>4. CASE Len(todo) = 1 /\ at' = "returned"
  <2>1. memory["task_session"] = status /\ (~overtaken => memory["task_result"] = status)
    BY <1>1, <1>2, <1>4 DEF S, D, ResultFirst
  <2>2. status = "done" /\ wants => memory["task_deliverable"] # None
    BY <1>1, <1>4 DEF DeliverableFirst
  <2>3. status = "done" /\ wants /\ OnCli /\ ~overtaken
          => memory["task_deliverable"] = "external_cli"
    BY <1>1 DEF CliDelivered, AnswerCounts
  <2>4. DoneIsStored' /\ OutcomeKept'
    BY <2>1, <2>2, <2>3 DEF DoneIsStored, OutcomeKept, OnCli
  <2>5. DeliverableFirst' /\ ResultFirst' /\ CliDelivered' /\ LateDelivered' /\ DoneHasDeliverable'
    BY <1>1, <1>4 DEF DeliverableFirst, ResultFirst, CliDelivered, AnswerCounts, LateDelivered,
                      DoneHasDeliverable, Storing, Reviewing
  <2> QED  BY <2>4, <2>5 DEF StoredInv
<1> QED  BY <1>3, <1>4 DEF NextFact, Return
\* The only deliverable that is stored is the agent's own.
LEMMA HeadIsDeliverable ==
  ASSUME Inv, at \in {"write", "verify"}, Head(todo)[1] = "task_deliverable"
  PROVE  Head(todo) = D
<1>1. /\ S(status)[1] # "task_deliverable" /\ R(status)[1] # "task_deliverable"
      /\ Anchor[1] # "task_deliverable"
  BY DEF S, R, Anchor
<1> QED  BY <1>1, HeadOfTodo

\* persist_results begins: nothing of this outcome is stored yet.
LEMMA StoredBegins ==
  ASSUME Inv, TodoInv', at' = "sanitise", status' \in Terminal,
         status' = "done" => at = "record_review",
         UNCHANGED <<wants, plan, overtaken, inflight, memory>>
  PROVE  StoredInv'
<1>1. Rest(status)' = Rest(status')
  BY DEF Rest, Anchor, D, R, S
<1>2. todo' \in Seq(Facts)
  BY <1>1, RestCases DEF TodoInv
<1>3. /\ Len(todo') \in Nat /\ Len(todo') > 1
      /\ status' = "done" /\ wants' => Len(todo') > 2
  BY <1>2 DEF TodoInv
<1>4. Len(todo') # 1 /\ (status' = "done" /\ wants' => ~(Len(todo') <= 2))
  <2>1. \A n \in Nat : (n > 1 => n # 1) /\ (n > 2 => ~(n <= 2))
    OBVIOUS
  <2> QED  BY <1>3, <2>1
<1>7. DeliverableFirst' /\ ResultFirst'
  BY <1>4 DEF DeliverableFirst, ResultFirst
<1>5. CliDelivered' /\ LateDelivered' /\ DoneHasDeliverable'
  BY DEF CliDelivered, AnswerCounts, LateDelivered, DoneHasDeliverable, Inv, StoredInv,
       OnCli, Reviewing, Storing
<1>6. DoneIsStored' /\ OutcomeKept'
  BY DEF DoneIsStored, OutcomeKept
<1> QED  BY <1>5, <1>6, <1>7 DEF StoredInv

\* A write that had timed out takes effect.
LEMMA StoredAfterLateWrite ==
  ASSUME Inv, TodoInv', LateWrite
  PROVE  StoredInv'
<1> USE DEF None
<1>1. UNCHANGED <<at, status, wants, plan, todo, verdict, artifact>> /\ inflight' \subseteq inflight
  BY DEF LateWrite, budgetVars, loopVars, persistVars
<1>2. CASE UNCHANGED <<memory, overtaken>>
  BY <1>1, <1>2 DEF Inv, StoredInv, DeliverableFirst, ResultFirst, CliDelivered, AnswerCounts,
                    LateDelivered, DoneHasDeliverable, DoneIsStored, OutcomeKept, OnCli
<1>3. CASE overtaken' = TRUE /\ \E f \in inflight : Store(f[1], f[2])
  <2>1. PICK f \in inflight : Store(f[1], f[2])
    BY <1>3
  <2>2. f \in Facts /\ DOMAIN memory = Kinds
    BY DEF Inv, TypeOK
  <2>3. f = <<f[1], f[2]>> /\ f[1] \in Kinds
        /\ f[2] \in Terminal \cup {"running", "agent_result", "external_cli"}
    BY <2>2 DEF Facts
  <2>4. memory'["task_result"] = IF f[1] = "task_result" THEN f[2] ELSE memory["task_result"]
    BY <2>1, <2>2 DEF Store, Kinds
  <2>5. memory'["task_deliverable"]
          = IF f[1] = "task_deliverable" THEN f[2] ELSE memory["task_deliverable"]
    BY <2>1, <2>2 DEF Store, Kinds
  <2>6. memory["task_deliverable"] # None => memory'["task_deliverable"] # None
    BY <2>3, <2>5 DEF Terminal
  <2>7. f[1] = "task_result" /\ f[2] = "done" => f = <<"task_result", "done">>
    BY <2>3
  <2>8. DoneHasDeliverable'
    BY <1>1, <2>4, <2>6, <2>7 DEF DoneHasDeliverable, Inv, StoredInv, LateDelivered
  <2>9. DeliverableFirst' /\ LateDelivered'
    BY <1>1, <2>6 DEF DeliverableFirst, LateDelivered, Inv, StoredInv
  <2>10. memory["task_result"] # None => memory'["task_result"] # None
    BY <2>3, <2>4 DEF Terminal
  <2>11. ResultFirst'
    BY <1>1, <1>3, <2>10 DEF ResultFirst, Inv, StoredInv
  <2>12. CliDelivered' /\ DoneIsStored' /\ OutcomeKept'
    BY <1>3 DEF CliDelivered, DoneIsStored, OutcomeKept
  <2> QED  BY <2>8, <2>9, <2>11, <2>12 DEF StoredInv
<1> QED  BY <1>2, <1>3 DEF LateWrite

LEMMA StoredStep ==
  ASSUME Inv, TodoInv', [Next]_vars
  PROVE  StoredInv'
<1>1. StoredInv /\ TypeOK /\ ControlInv /\ TodoInv
  BY DEF Inv
<1>2. CASE BootstrapFailure
  BY <1>2, StoredBegins DEF BootstrapFailure, FailEarly, BeginPersist, taskVars, storeVars,
       Terminal
<1>3. CASE PrepareFails
  BY <1>3, StoredBegins DEF PrepareFails, FailEarly, BeginPersist, taskVars, storeVars, Terminal
<1>4. CASE Retry
  <2>1. CASE at' = "sanitise"
    BY <1>4, <2>1, StoredBegins DEF Retry, TryAgain, Decide, BeginPersist, taskVars,
         storeVars, Terminal
  <2>2. CASE at' = "call"
    BY <1>1, <1>4, <2>2 DEF Retry, TryAgain, Decide, BeginPersist, taskVars, storeVars,
         StoredInv, DeliverableFirst, ResultFirst, CliDelivered, AnswerCounts,
         LateDelivered, DoneHasDeliverable, DoneIsStored, OutcomeKept, Storing, Reviewing,
         OnCli, None, Answers
  <2> QED  BY <1>4, <2>1, <2>2 DEF Retry, TryAgain, Decide, BeginPersist
<1>5. CASE Fail
  BY <1>5, StoredBegins DEF Fail, Decide, BeginPersist, taskVars, storeVars, Terminal
<1>6. CASE Reviewed
  <2>1. CASE at' = "sanitise"
    BY <1>6, <2>1, StoredBegins DEF Reviewed, TryAgain, Decide, BeginPersist, taskVars,
         storeVars, Terminal
  <2>2. CASE at' = "call"
    BY <1>1, <1>6, <2>2 DEF Reviewed, TryAgain, Decide, BeginPersist, taskVars,
         storeVars, StoredInv, DeliverableFirst, ResultFirst, CliDelivered, AnswerCounts,
         LateDelivered, DoneHasDeliverable, DoneIsStored, OutcomeKept, Storing, Reviewing,
         OnCli, None, Answers
  <2> QED  BY <1>6, <2>1, <2>2 DEF Reviewed, TryAgain, Decide, BeginPersist
<1>7. CASE Sanitise
  <2>1. CASE PersistError
    BY <1>1, <1>7, <2>1, StoredAfterError DEF Sanitise, taskVars, storeVars, Storing,
         StoredInv, LateDelivered, DoneHasDeliverable
  <2>2. CASE at' = "write" /\ UNCHANGED todo
    BY <1>1, <1>7, <2>2 DEF Sanitise, taskVars, storeVars, StoredInv, DeliverableFirst,
         ResultFirst, CliDelivered, AnswerCounts, LateDelivered, DoneHasDeliverable,
         DoneIsStored, OutcomeKept, Storing, Reviewing, OnCli, None, Answers
  <2> QED  BY <1>7, <2>1, <2>2 DEF Sanitise
<1>8. CASE HasDeliverable
  <2>1. Head(todo) = D /\ memory["task_deliverable"] # None
    BY <1>8, HeadIsDeliverable DEF HasDeliverable
  <2> QED  BY <1>8, <2>1, StoredAfterFact DEF HasDeliverable, taskVars, storeVars
<1>9. CASE LacksDeliverable
  BY <1>1, <1>9, StoredAfterError DEF LacksDeliverable, taskVars, storeVars, Storing,
       StoredInv, LateDelivered, DoneHasDeliverable
<1>10. CASE WriteFact
  BY <1>10, StoredAfterWrite
<1>11. CASE WriteFails
  BY <1>11, StoredAfterFailedWrite
<1>12. CASE VerifySucceeds
  <2>1. Head(todo) # D => memory[Head(todo)[1]] = Head(todo)[2]
    BY <1>12, HeadIsDeliverable DEF VerifySucceeds, Visible
  <2>2. Head(todo) = D => memory["task_deliverable"] # None
    BY <1>12 DEF VerifySucceeds, Visible, D, None
  <2> QED  BY <1>12, <2>1, <2>2, StoredAfterFact DEF VerifySucceeds, Visible, taskVars
<1>13. CASE VerifyFails
  <2>1. CASE PersistError
    BY <1>1, <1>13, <2>1, StoredAfterError DEF VerifyFails, taskVars, storeVars, Storing,
         StoredInv, LateDelivered, DoneHasDeliverable
  <2>2. CASE at' = "write" /\ UNCHANGED todo
    BY <1>1, <1>13, <2>2 DEF VerifyFails, taskVars, storeVars, StoredInv,
         DeliverableFirst, ResultFirst, CliDelivered, AnswerCounts, LateDelivered,
         DoneHasDeliverable, DoneIsStored, OutcomeKept, Storing, Reviewing, OnCli, None,
         Answers
  <2> QED  BY <1>13, <2>1, <2>2 DEF VerifyFails
<1>14. CASE Remedy
  <2>1. CASE at' = "sanitise"
    BY <1>14, <2>1, StoredBegins DEF Remedy, Return, BeginPersist, taskVars, storeVars, Terminal
  <2>2. CASE at' = "returned"
    BY <1>1, <1>14, <2>2 DEF Remedy, Return, WriteArtifact, BeginPersist, taskVars,
         storeVars, StoredInv, DeliverableFirst, ResultFirst, CliDelivered, AnswerCounts,
         LateDelivered, DoneHasDeliverable, DoneIsStored, OutcomeKept, Storing, Reviewing,
         OnCli, None, Answers
  <2> QED  BY <1>14, <2>1, <2>2 DEF Remedy, Return, BeginPersist
<1>15. CASE LateWrite
  BY <1>15, StoredAfterLateWrite
<1> USE DEF StoredInv, DeliverableFirst, ResultFirst, CliDelivered, AnswerCounts,
     LateDelivered, DoneHasDeliverable, DoneIsStored, OutcomeKept, Storing, Reviewing, OnCli,
     None, Answers
<1>16. CASE Resolve
  BY <1>1, <1>16 DEF Resolve, Step, taskVars, loopVars, persistVars, storeVars
<1>17. CASE Recall
  BY <1>1, <1>17 DEF Recall, Step, taskVars, loopVars, persistVars, storeVars
<1>18. CASE Plan
  BY <1>1, <1>18 DEF Plan, Step, taskVars, loopVars, persistVars, storeVars
<1>19. CASE Prepare
  BY <1>1, <1>19 DEF Prepare, loopVars, persistVars, storeVars
<1>20. CASE IterationLimit
  BY <1>1, <1>20 DEF IterationLimit, EndAttempt, taskVars, persistVars, storeVars
<1>21. CASE BudgetExhausted
  BY <1>1, <1>21 DEF BudgetExhausted, taskVars, persistVars, storeVars
<1>22. CASE CallFails
  BY <1>1, <1>22 DEF CallFails, CallAllowed, EndAttempt, taskVars, persistVars, storeVars
<1>23. CASE CallTools
  BY <1>1, <1>23 DEF CallTools, CallAllowed, taskVars, persistVars, storeVars
<1>24. CASE CallRecovers
  BY <1>1, <1>24 DEF CallRecovers, CallAllowed, taskVars, persistVars, storeVars
<1>25. CASE CallInvalid
  BY <1>1, <1>25 DEF CallInvalid, CallAllowed, EndAttempt, taskVars, persistVars, storeVars
<1>26. CASE CallAnswers
  BY <1>1, <1>26 DEF CallAnswers, CallAllowed, Store, taskVars, persistVars, TypeOK, Kinds
<1>27. CASE Validate
  BY <1>1, <1>27 DEF Validate, Undelivered, taskVars, persistVars, storeVars
<1>28. CASE RecordFails
  BY <1>1, <1>28 DEF RecordFails, taskVars, loopVars, persistVars, storeVars
<1>29. CASE Accept
  BY <1>1, <1>29 DEF Accept, taskVars, loopVars, persistVars, storeVars
<1>30. CASE ReviewSkipped
  BY <1>1, <1>30 DEF ReviewSkipped, EndReview, taskVars, persistVars, storeVars
<1>31. CASE ReviewRejects
  BY <1>1, <1>31 DEF ReviewRejects, EndReview, taskVars, persistVars, storeVars
<1>32. CASE ReviewAnswers
  BY <1>1, <1>32 DEF ReviewAnswers, ReviewCall, EndReview, taskVars, persistVars, storeVars
<1>33. CASE ReviewFails
  BY <1>1, <1>33 DEF ReviewFails, ReviewCall, EndReview, taskVars, persistVars, storeVars
<1>34. CASE ReportAbort
  BY <1>1, <1>34 DEF ReportAbort, taskVars, loopVars, persistVars, storeVars
<1>35. CASE RunAgain
  BY <1>1, <1>35 DEF RunAgain, Ended, storeVars
<1>36. CASE UNCHANGED vars
  BY <1>1, <1>36 DEF vars, taskVars, loopVars, persistVars, storeVars
<1> QED
  BY <1>2, <1>3, <1>4, <1>5, <1>6, <1>7, <1>8, <1>9, <1>10, <1>11, <1>12, <1>13, <1>14,
       <1>15, <1>16, <1>17, <1>18, <1>19, <1>20, <1>21, <1>22, <1>23, <1>24, <1>25, <1>26,
       <1>27, <1>28, <1>29, <1>30, <1>31, <1>32, <1>33, <1>34, <1>35, <1>36 DEF Next,
       RunStep
-----------------------------------------------------------------------------
(* The other parts of the invariant are kept.                              *)

LEMMA LoopStep ==
  ASSUME Inv, [Next]_vars
  PROVE  LoopInv'
<1> USE RunAssumption DEF Inv, TypeOK, ControlInv, LoopInv, Early, Reviewing, Storing,
       Answers, None
<1>1. CASE Resolve
  BY <1>1 DEF Resolve, Step, taskVars, budgetVars, loopVars
<1>2. CASE Recall
  BY <1>2 DEF Recall, Step, taskVars, budgetVars, loopVars
<1>3. CASE Plan
  BY <1>3 DEF Plan, Step, taskVars, budgetVars, loopVars
<1>4. CASE Prepare
  BY <1>4 DEF Prepare, loopVars
<1>5. CASE BootstrapFailure
  BY <1>5 DEF BootstrapFailure, FailEarly, BeginPersist, taskVars, budgetVars, loopVars
<1>6. CASE PrepareFails
  BY <1>6 DEF PrepareFails, FailEarly, BeginPersist, taskVars, budgetVars, loopVars
<1>7. CASE IterationLimit
  BY <1>7 DEF IterationLimit, Iterate, EndAttempt, taskVars
<1>8. CASE BudgetExhausted
  BY <1>8 DEF BudgetExhausted, Iterate, taskVars
<1>9. CASE CallFails
  BY <1>9 DEF CallFails, CallAllowed, Iterate, EndAttempt, taskVars
<1>10. CASE CallTools
  BY <1>10 DEF CallTools, CallAllowed, Iterate, taskVars
<1>11. CASE CallRecovers
  BY <1>11 DEF CallRecovers, CallAllowed, Iterate, taskVars
<1>12. CASE CallInvalid
  BY <1>12 DEF CallInvalid, CallAllowed, Iterate, EndAttempt, taskVars
<1>13. CASE CallAnswers
  BY <1>13 DEF CallAnswers, CallAllowed, Iterate, taskVars
<1>14. CASE Validate
  BY <1>14 DEF Validate, taskVars, budgetVars
<1>15. CASE RecordFails
  BY <1>15 DEF RecordFails, taskVars, budgetVars, loopVars
<1>16. CASE Accept
  BY <1>16 DEF Accept, taskVars, budgetVars, loopVars
<1>17. CASE Retry
  BY <1>17 DEF Retry, TryAgain, Decide, BeginPersist, taskVars
<1>18. CASE Fail
  BY <1>18 DEF Fail, Decide, BeginPersist, taskVars
<1>19. CASE ReviewSkipped
  BY <1>19 DEF ReviewSkipped, EndReview, taskVars, budgetVars
<1>20. CASE ReviewRejects
  BY <1>20 DEF ReviewRejects, EndReview, taskVars, budgetVars
<1>21. CASE ReviewAnswers
  BY <1>21 DEF ReviewAnswers, ReviewCall, EndReview, taskVars
<1>22. CASE ReviewFails
  BY <1>22 DEF ReviewFails, ReviewCall, EndReview, taskVars, budgetVars
<1>23. CASE Reviewed
  BY <1>23 DEF Reviewed, Decide, BeginPersist, TryAgain, taskVars
<1>24. CASE Sanitise
  BY <1>24 DEF Sanitise, PersistError, Return, taskVars, budgetVars, loopVars
<1>25. CASE HasDeliverable
  BY <1>25 DEF HasDeliverable, NextFact, Return, taskVars, budgetVars, loopVars
<1>26. CASE LacksDeliverable
  BY <1>26 DEF LacksDeliverable, PersistError, Return, taskVars, budgetVars, loopVars
<1>27. CASE WriteFact
  BY <1>27 DEF WriteFact, taskVars, budgetVars, loopVars
<1>28. CASE WriteFails
  BY <1>28 DEF WriteFails, PersistError, Return, taskVars, budgetVars, loopVars
<1>29. CASE VerifySucceeds
  BY <1>29 DEF VerifySucceeds, NextFact, Return, taskVars, budgetVars, loopVars
<1>30. CASE VerifyFails
  BY <1>30 DEF VerifyFails, PersistError, Return, taskVars, budgetVars, loopVars
<1>31. CASE Remedy
  BY <1>31 DEF Remedy, BeginPersist, Return, taskVars, budgetVars, loopVars
<1>32. CASE ReportAbort
  BY <1>32 DEF ReportAbort, taskVars, budgetVars, loopVars
<1>33. CASE LateWrite
  BY <1>33 DEF LateWrite, budgetVars, loopVars
<1>34. CASE RunAgain
  BY <1>34 DEF RunAgain, Ended
<1>35. CASE UNCHANGED vars
  BY <1>35 DEF vars, taskVars, budgetVars, loopVars
<1> QED
  BY <1>1, <1>2, <1>3, <1>4, <1>5, <1>6, <1>7, <1>8, <1>9, <1>10, <1>11, <1>12, <1>13,
         <1>14, <1>15, <1>16, <1>17, <1>18, <1>19, <1>20, <1>21, <1>22, <1>23, <1>24, <1>25,
         <1>26, <1>27, <1>28, <1>29, <1>30, <1>31, <1>32, <1>33, <1>34, <1>35 DEF Next,
         RunStep

\* A review and its repair are charged.
LEMMA ReviewCharges ==
  ASSUME Inv, ReviewAnswers
  PROVE  MoneyInv'
<1>1. /\ at \in {"review", "repair"} /\ UNCHANGED plan
      /\ at' \in {"record_review", "repair"} /\ (at' = "repair" => at = "review")
  BY DEF ReviewAnswers, ReviewCall, EndReview, taskVars
<1>2. Budget \in Nat /\ spent \in Nat /\ Estimates \subseteq Nat /\ Costs \subseteq Nat
  BY RunAssumption DEF Inv, TypeOK
<1>3. FreeOfCharge' = FreeOfCharge
  BY <1>1 DEF FreeOfCharge, OnCli
<1>4. CASE FreeOfCharge
  <2>1. spent = 0 /\ Cost = {0}
    BY <1>4 DEF Inv, MoneyInv, FreeOfCharge, Cost
  <2>2. spent' = 0
    BY <2>1 DEF ReviewAnswers, Charge
  <2> QED  BY <1>1, <1>3, <1>4, <2>2 DEF MoneyInv, SpentBounded
<1>5. CASE ~FreeOfCharge
  <2>1. Estimated = Estimates /\ Cost = Costs
    BY <1>5 DEF FreeOfCharge, Estimated, Cost
  <2>2. PICK c \in Costs : spent' = spent + c
    BY <2>1 DEF ReviewAnswers, Charge
  <2>3. CASE at = "review"
    <3>1. PICK e \in Estimates : Budget - spent >= e
      BY <2>1, <2>3 DEF ReviewAnswers, ReviewCall, Affords, ReviewBudget
    <3>2. spent' + e <= Budget + c /\ spent' + e <= Budget + c + c
      BY <1>2, <2>2, <3>1
    <3> QED  BY <1>1, <1>3, <1>5, <3>2 DEF MoneyInv, SpentBounded, Early
  <2>4. CASE at = "repair"
    <3>1. PICK e \in Estimates, d \in Costs : spent + e <= Budget + d
      BY <1>5, <2>4 DEF Inv, MoneyInv
    <3>2. spent' + e <= Budget + d + c
      BY <1>2, <2>2, <3>1
    <3> QED  BY <1>1, <1>3, <1>5, <2>4, <3>2 DEF MoneyInv, SpentBounded, Early
  <2> QED  BY <1>1, <2>3, <2>4
<1> QED  BY <1>4, <1>5


LEMMA MoneyStep ==
  ASSUME Inv, [Next]_vars
  PROVE  MoneyInv'
<1> USE RunAssumption DEF Inv, TypeOK, MoneyInv, FreeOfCharge, SpentBounded, Early, OnCli,
       Estimated, Cost, Affords, ExecutionBudget, ReviewBudget
<1>1. CASE Resolve
  BY <1>1 DEF Resolve, Step, taskVars, budgetVars, loopVars
<1>2. CASE Recall
  BY <1>2 DEF Recall, Step, taskVars, budgetVars, loopVars
<1>3. CASE Plan
  BY <1>3 DEF Plan, Step, taskVars, budgetVars, loopVars
<1>4. CASE Prepare
  BY <1>4 DEF Prepare, loopVars
<1>5. CASE BootstrapFailure
  BY <1>5 DEF BootstrapFailure, FailEarly, BeginPersist, taskVars, budgetVars, loopVars
<1>6. CASE PrepareFails
  BY <1>6 DEF PrepareFails, FailEarly, BeginPersist, taskVars, budgetVars, loopVars
<1>7. CASE IterationLimit
  BY <1>7 DEF IterationLimit, EndAttempt, taskVars
<1>8. CASE BudgetExhausted
  BY <1>8 DEF BudgetExhausted, taskVars
<1>9. CASE CallFails
  BY <1>9 DEF CallFails, CallAllowed, EndAttempt, taskVars
<1>10. CASE CallTools
  BY <1>10 DEF CallTools, CallAllowed, Charge, taskVars
<1>11. CASE CallRecovers
  BY <1>11 DEF CallRecovers, CallAllowed, Charge, taskVars
<1>12. CASE CallInvalid
  BY <1>12 DEF CallInvalid, CallAllowed, Charge, EndAttempt, taskVars
<1>13. CASE CallAnswers
  BY <1>13 DEF CallAnswers, CallAllowed, Charge, taskVars
<1>14. CASE Validate
  BY <1>14 DEF Validate, taskVars, budgetVars
<1>15. CASE RecordFails
  BY <1>15 DEF RecordFails, taskVars, budgetVars, loopVars
<1>16. CASE Accept
  BY <1>16 DEF Accept, taskVars, budgetVars, loopVars
<1>17. CASE Retry
  BY <1>17 DEF Retry, TryAgain, Decide, BeginPersist, taskVars
<1>18. CASE Fail
  BY <1>18 DEF Fail, Decide, BeginPersist, taskVars
<1>19. CASE ReviewSkipped
  BY <1>19 DEF ReviewSkipped, EndReview, taskVars, budgetVars
<1>20. CASE ReviewRejects
  BY <1>20 DEF ReviewRejects, EndReview, taskVars, budgetVars
<1>21. CASE ReviewAnswers
  BY <1>21, ReviewCharges
<1>22. CASE ReviewFails
  BY <1>22 DEF ReviewFails, ReviewCall, EndReview, taskVars, budgetVars
<1>23. CASE Reviewed
  BY <1>23 DEF Reviewed, Decide, BeginPersist, TryAgain, taskVars
<1>24. CASE Sanitise
  BY <1>24 DEF Sanitise, PersistError, Return, taskVars, budgetVars, loopVars
<1>25. CASE HasDeliverable
  BY <1>25 DEF HasDeliverable, NextFact, Return, taskVars, budgetVars, loopVars
<1>26. CASE LacksDeliverable
  BY <1>26 DEF LacksDeliverable, PersistError, Return, taskVars, budgetVars, loopVars
<1>27. CASE WriteFact
  BY <1>27 DEF WriteFact, taskVars, budgetVars, loopVars
<1>28. CASE WriteFails
  BY <1>28 DEF WriteFails, PersistError, Return, taskVars, budgetVars, loopVars
<1>29. CASE VerifySucceeds
  BY <1>29 DEF VerifySucceeds, NextFact, Return, taskVars, budgetVars, loopVars
<1>30. CASE VerifyFails
  BY <1>30 DEF VerifyFails, PersistError, Return, taskVars, budgetVars, loopVars
<1>31. CASE Remedy
  BY <1>31 DEF Remedy, BeginPersist, Return, taskVars, budgetVars, loopVars
<1>32. CASE ReportAbort
  BY <1>32 DEF ReportAbort, taskVars, budgetVars, loopVars
<1>33. CASE LateWrite
  BY <1>33 DEF LateWrite, budgetVars, loopVars
<1>34. CASE RunAgain
  BY <1>34 DEF RunAgain, Ended
<1>35. CASE UNCHANGED vars
  BY <1>35 DEF vars, taskVars, budgetVars, loopVars
<1> QED
  BY <1>1, <1>2, <1>3, <1>4, <1>5, <1>6, <1>7, <1>8, <1>9, <1>10, <1>11, <1>12, <1>13,
         <1>14, <1>15, <1>16, <1>17, <1>18, <1>19, <1>20, <1>21, <1>22, <1>23, <1>24, <1>25,
         <1>26, <1>27, <1>28, <1>29, <1>30, <1>31, <1>32, <1>33, <1>34, <1>35 DEF Next,
         RunStep


LEMMA ControlStep ==
  ASSUME Inv, [Next]_vars
  PROVE  ControlInv'
<1> USE DEF Inv, ControlInv, TypeOK, Early, Reviewing, Storing, Terminal, None, Answers
<1>1. CASE Resolve
  BY <1>1 DEF Resolve, Step, loopVars, persistVars, Emit
<1>2. CASE Recall
  BY <1>2 DEF Recall, Step, loopVars, persistVars, Emit, eventVars
<1>3. CASE Plan
  BY <1>3 DEF Plan, Step, loopVars, persistVars, Emit
<1>4. CASE Prepare
  BY <1>4 DEF Prepare, Emit, loopVars, persistVars
<1>5. CASE BootstrapFailure
  BY <1>5 DEF BootstrapFailure, FailEarly, WriteArtifact, BeginPersist, loopVars, eventVars
<1>6. CASE PrepareFails
  BY <1>6 DEF PrepareFails, FailEarly, WriteArtifact, BeginPersist, loopVars
<1>7. CASE IterationLimit
  BY <1>7 DEF IterationLimit, EndAttempt, persistVars, eventVars
<1>8. CASE BudgetExhausted
  BY <1>8 DEF BudgetExhausted, persistVars, eventVars
<1>9. CASE CallFails
  BY <1>9 DEF CallFails, CallAllowed, EndAttempt, persistVars, eventVars
<1>10. CASE CallTools
  BY <1>10 DEF CallTools, CallAllowed, persistVars, eventVars
<1>11. CASE CallRecovers
  BY <1>11 DEF CallRecovers, CallAllowed, persistVars, eventVars
<1>12. CASE CallInvalid
  BY <1>12 DEF CallInvalid, CallAllowed, EndAttempt, persistVars, eventVars
<1>13. CASE CallAnswers
  BY <1>13 DEF CallAnswers, CallAllowed, persistVars, eventVars
<1>14. CASE Validate
  BY <1>14 DEF Validate, persistVars, eventVars
<1>15. CASE RecordFails
  BY <1>15 DEF RecordFails, loopVars, persistVars, eventVars
<1>16. CASE Accept
  BY <1>16 DEF Accept, Emit, loopVars, persistVars
<1>17. CASE Retry
  BY <1>17 DEF Retry, TryAgain, Decide, BeginPersist, eventVars
<1>18. CASE Fail
  BY <1>18 DEF Fail, Decide, BeginPersist
<1>19. CASE ReviewSkipped
  BY <1>19 DEF ReviewSkipped, EndReview, persistVars, eventVars
<1>20. CASE ReviewRejects
  BY <1>20 DEF ReviewRejects, EndReview, persistVars, eventVars
<1>21. CASE ReviewAnswers
  BY <1>21 DEF ReviewAnswers, ReviewCall, EndReview, persistVars, eventVars
<1>22. CASE ReviewFails
  BY <1>22 DEF ReviewFails, ReviewCall, EndReview, persistVars, eventVars
<1>23. CASE Reviewed
  BY <1>23 DEF Reviewed, Decide, BeginPersist, TryAgain, eventVars
<1>24. CASE Sanitise
  BY <1>24 DEF Sanitise, eventVars, PersistError, Return, loopVars
<1>25. CASE HasDeliverable
  BY <1>25 DEF HasDeliverable, NextFact, eventVars, Return, loopVars
<1>26. CASE LacksDeliverable
  BY <1>26 DEF LacksDeliverable, PersistError, eventVars, Return, loopVars
<1>27. CASE WriteFact
  BY <1>27 DEF WriteFact, Writable, loopVars, persistVars, eventVars
<1>28. CASE WriteFails
  BY <1>28 DEF WriteFails, Writable, PersistError, eventVars, Return, loopVars
<1>29. CASE VerifySucceeds
  BY <1>29 DEF VerifySucceeds, Visible, NextFact, eventVars, Return, loopVars
<1>30. CASE VerifyFails
  BY <1>30 DEF VerifyFails, Visible, eventVars, PersistError, Return, loopVars
<1>31. CASE Remedy
  BY <1>31 DEF Remedy, WriteArtifact, BeginPersist, eventVars, Return, loopVars
<1>32. CASE ReportAbort
  BY <1>32 DEF ReportAbort, loopVars, persistVars
<1>33. CASE LateWrite
  BY <1>33 DEF LateWrite, loopVars, persistVars, eventVars
<1>34. CASE RunAgain
  BY <1>34 DEF RunAgain, Ended
<1>35. CASE UNCHANGED vars
  BY <1>35 DEF vars, loopVars, persistVars, eventVars
<1> QED
  BY <1>1, <1>2, <1>3, <1>4, <1>5, <1>6, <1>7, <1>8, <1>9, <1>10, <1>11, <1>12, <1>13,
         <1>14, <1>15, <1>16, <1>17, <1>18, <1>19, <1>20, <1>21, <1>22, <1>23, <1>24, <1>25,
         <1>26, <1>27, <1>28, <1>29, <1>30, <1>31, <1>32, <1>33, <1>34, <1>35 DEF Next,
         RunStep
-----------------------------------------------------------------------------
(* TypeOK is kept, a part at a time.                                       *)

PlaceTypes ==
  /\ at \in Points /\ status \in Terminal \cup {"running"}
  /\ result \in Answers \cup {None} /\ plan \in Plans \cup {NoPlan} /\ wants \in BOOLEAN

CountTypes ==
  /\ iteration \in Nat /\ attempt \in Nat /\ retries \in Nat /\ spent \in Nat
  /\ recovered \in 0..RecoveryAttempts

BoundTypes ==
  /\ tries \in 0..(PersistAttempts - 1)
  /\ progress \in 1..9 /\ closed \in 0..1 /\ runs \in 1..MaxRuns

FlagTypes ==
  /\ usedTools \in BOOLEAN /\ persisted \in BOOLEAN /\ overtaken \in BOOLEAN
  /\ verdict \in Answers \cup {None, "error", "invalid", "missing", "ok", "retry"}
  /\ pass \in {None, "early", "first", "remedy"}
  /\ artifact \in {None, "written", "refused"}

StoreTypes ==
  /\ memory \in [Kinds -> Terminal \cup {None, "running", "agent_result", "external_cli"}]
  /\ legacy \in [{"task_result", "task_session"} -> Terminal \cup {None}]
  /\ inflight \subseteq Facts

LEMMA PlaceTypesStep ==
  ASSUME Inv, [Next]_vars
  PROVE  PlaceTypes'
<1> USE DEF Inv, ControlInv, TypeOK, PlaceTypes, Early, Reviewing, Storing, Terminal, None,
       Answers, Points
<1>1. CASE Resolve \/ Recall \/ Plan \/ Prepare \/ BootstrapFailure \/ PrepareFails
  BY <1>1 DEF Resolve, Step, taskVars, Recall, Plan, Prepare, BootstrapFailure, FailEarly,
         BeginPersist, PrepareFails
<1>2. CASE IterationLimit \/ BudgetExhausted \/ CallFails \/ CallTools \/ CallRecovers \/
       CallInvalid \/ CallAnswers
  BY <1>2 DEF IterationLimit, EndAttempt, taskVars, BudgetExhausted, CallFails, CallAllowed,
         CallTools, CallRecovers, CallInvalid, CallAnswers
<1>3. CASE Validate \/ RecordFails \/ Accept \/ Retry \/ Fail
  BY <1>3 DEF Validate, taskVars, RecordFails, Accept, Retry, TryAgain, Decide,
         BeginPersist, Fail
<1>4. CASE ReviewSkipped \/ ReviewRejects \/ ReviewAnswers \/ ReviewFails \/ Reviewed
  BY <1>4 DEF ReviewSkipped, EndReview, taskVars, ReviewRejects, ReviewAnswers, ReviewCall,
         ReviewFails, Reviewed, Decide, BeginPersist, TryAgain
<1>5. CASE Sanitise \/ HasDeliverable \/ LacksDeliverable \/ WriteFact \/ WriteFails
  BY <1>5 DEF Sanitise, PersistError, Return, taskVars, HasDeliverable, NextFact,
         LacksDeliverable, WriteFact, Writable, WriteFails
<1>6. CASE VerifySucceeds \/ VerifyFails \/ Remedy
  BY <1>6 DEF VerifySucceeds, Visible, NextFact, Return, taskVars, VerifyFails,
         PersistError, Remedy, BeginPersist
<1>7. CASE ReportAbort \/ LateWrite \/ RunAgain
  BY <1>7 DEF ReportAbort, taskVars, LateWrite, RunAgain, Ended
<1>8. CASE UNCHANGED vars
  BY <1>8 DEF vars, taskVars
<1> QED
  BY <1>1, <1>2, <1>3, <1>4, <1>5, <1>6, <1>7, <1>8 DEF Next, RunStep

LEMMA CountTypesStep ==
  ASSUME Inv, [Next]_vars
  PROVE  CountTypes'
<1> USE RunAssumption DEF Inv, TypeOK, CountTypes, RecoveryAttempts, Estimated, Cost
<1>1. CASE Resolve \/ Recall \/ Plan \/ Prepare \/ BootstrapFailure \/ PrepareFails
  BY <1>1 DEF Resolve, Step, budgetVars, loopVars, Recall, Plan, Prepare, BootstrapFailure,
         FailEarly, BeginPersist, PrepareFails
<1>2. CASE IterationLimit \/ BudgetExhausted \/ CallFails \/ CallTools \/ CallRecovers \/
       CallInvalid \/ CallAnswers
  BY <1>2 DEF IterationLimit, Iterate, EndAttempt, BudgetExhausted, CallFails, CallAllowed,
         CallTools, Charge, CallRecovers, CallInvalid, CallAnswers
<1>3. CASE Validate \/ RecordFails \/ Accept \/ Retry \/ Fail
  BY <1>3 DEF Validate, budgetVars, RecordFails, loopVars, Accept, Retry, TryAgain, Decide,
         BeginPersist, LoopEnds, Fail
<1>4. CASE ReviewSkipped \/ ReviewRejects \/ ReviewAnswers \/ ReviewFails \/ Reviewed
  BY <1>4 DEF ReviewSkipped, EndReview, budgetVars, ReviewRejects, ReviewAnswers,
         ReviewCall, Charge, ReviewFails, Reviewed, Decide, BeginPersist, LoopEnds, TryAgain
<1>5. CASE Sanitise \/ HasDeliverable \/ LacksDeliverable \/ WriteFact \/ WriteFails
  BY <1>5 DEF Sanitise, PersistError, Return, budgetVars, loopVars, HasDeliverable,
         NextFact, LacksDeliverable, WriteFact, WriteFails
<1>6. CASE VerifySucceeds \/ VerifyFails \/ Remedy
  BY <1>6 DEF VerifySucceeds, NextFact, Return, budgetVars, loopVars, VerifyFails,
         PersistError, Remedy, BeginPersist
<1>7. CASE ReportAbort \/ LateWrite \/ RunAgain
  BY <1>7 DEF ReportAbort, budgetVars, loopVars, LateWrite, RunAgain, Ended
<1>8. CASE UNCHANGED vars
  BY <1>8 DEF vars, budgetVars, loopVars
<1> QED
  BY <1>1, <1>2, <1>3, <1>4, <1>5, <1>6, <1>7, <1>8 DEF Next, RunStep

LEMMA BoundTypesStep ==
  ASSUME Inv, [Next]_vars
  PROVE  BoundTypes'
<1> USE RunAssumption DEF Inv, ControlInv, TypeOK, BoundTypes, Early, Reviewing, Storing,
       Terminal
<1>1. CASE Resolve \/ Recall \/ Plan \/ Prepare \/ BootstrapFailure \/ PrepareFails
  BY <1>1 DEF Resolve, Step, taskVars, persistVars, Emit, Recall, eventVars, Plan, Prepare,
         BootstrapFailure, FailEarly, BeginPersist, PrepareFails
<1>2. CASE IterationLimit \/ BudgetExhausted \/ CallFails \/ CallTools \/ CallRecovers \/
       CallInvalid \/ CallAnswers
  BY <1>2 DEF IterationLimit, EndAttempt, taskVars, persistVars, eventVars, BudgetExhausted,
         CallFails, CallAllowed, CallTools, CallRecovers, CallInvalid, CallAnswers
<1>3. CASE Validate \/ RecordFails \/ Accept \/ Retry \/ Fail
  BY <1>3 DEF Validate, taskVars, persistVars, eventVars, RecordFails, Accept, Emit, Retry,
         TryAgain, Decide, BeginPersist, Fail
<1>4. CASE ReviewSkipped \/ ReviewRejects \/ ReviewAnswers \/ ReviewFails \/ Reviewed
  BY <1>4 DEF ReviewSkipped, EndReview, taskVars, persistVars, eventVars, ReviewRejects,
         ReviewAnswers, ReviewCall, ReviewFails, Reviewed, Decide, BeginPersist, TryAgain
<1>5. CASE Sanitise \/ HasDeliverable \/ LacksDeliverable \/ WriteFact \/ WriteFails
  BY <1>5 DEF Sanitise, eventVars, PersistError, Return, taskVars, HasDeliverable, NextFact,
         LacksDeliverable, WriteFact, Writable, persistVars, WriteFails
<1>6. CASE VerifySucceeds \/ VerifyFails \/ Remedy
  BY <1>6 DEF VerifySucceeds, Visible, NextFact, eventVars, Return, taskVars, VerifyFails,
         PersistError, Remedy, BeginPersist
<1>7. CASE ReportAbort \/ LateWrite \/ RunAgain
  BY <1>7 DEF ReportAbort, taskVars, persistVars, LateWrite, eventVars, RunAgain, Ended
<1>8. CASE UNCHANGED vars
  BY <1>8 DEF vars, taskVars, persistVars, eventVars
<1> QED
  BY <1>1, <1>2, <1>3, <1>4, <1>5, <1>6, <1>7, <1>8 DEF Next, RunStep

LEMMA FlagTypesStep ==
  ASSUME Inv, [Next]_vars
  PROVE  FlagTypes'
<1> USE DEF Inv, TypeOK, FlagTypes, None, Answers
<1>1. CASE Resolve \/ Recall \/ Plan \/ Prepare \/ BootstrapFailure \/ PrepareFails
  BY <1>1 DEF Resolve, Step, taskVars, loopVars, persistVars, Recall, Plan, Prepare,
         BootstrapFailure, FailEarly, WriteArtifact, BeginPersist, PrepareFails
<1>2. CASE IterationLimit \/ BudgetExhausted \/ CallFails \/ CallTools \/ CallRecovers \/
       CallInvalid \/ CallAnswers
  <2>1. CASE IterationLimit
    BY <2>1 DEF IterationLimit, EndAttempt, taskVars, persistVars
  <2>2. CASE BudgetExhausted
    BY <2>2 DEF BudgetExhausted, taskVars, persistVars
  <2>3. CASE CallFails
    BY <2>3 DEF CallFails, CallAllowed, EndAttempt, taskVars, persistVars
  <2>4. CASE CallTools
    BY <2>4 DEF CallTools, CallAllowed, taskVars, persistVars
  <2>5. CASE CallRecovers
    BY <2>5 DEF CallRecovers, CallAllowed, taskVars, persistVars
  <2>6. CASE CallInvalid
    BY <2>6 DEF CallInvalid, CallAllowed, EndAttempt, taskVars, persistVars
  <2>7. CASE CallAnswers
    BY <2>7 DEF CallAnswers, CallAllowed, taskVars, persistVars
  <2> QED  BY <1>2, <2>1, <2>2, <2>3, <2>4, <2>5, <2>6, <2>7
<1>3. CASE Validate \/ RecordFails \/ Accept \/ Retry \/ Fail
  <2>1. CASE Validate
    BY <2>1 DEF Validate, Undelivered, taskVars, persistVars
  <2>2. CASE RecordFails
    BY <2>2 DEF RecordFails, taskVars, loopVars, persistVars
  <2>3. CASE Accept
    BY <2>3 DEF Accept, taskVars, loopVars, persistVars
  <2>4. CASE Retry
    BY <2>4 DEF Retry, TryAgain, Decide, BeginPersist, LoopEnds, taskVars
  <2>5. CASE Fail
    BY <2>5 DEF Fail, Decide, BeginPersist, LoopEnds, taskVars
  <2> QED  BY <1>3, <2>1, <2>2, <2>3, <2>4, <2>5
<1>4. CASE ReviewSkipped \/ ReviewRejects \/ ReviewAnswers \/ ReviewFails \/ Reviewed
  <2>1. CASE ReviewSkipped
    BY <2>1 DEF ReviewSkipped, EndReview, taskVars, persistVars
  <2>2. CASE ReviewRejects
    BY <2>2 DEF ReviewRejects, EndReview, taskVars, persistVars
  <2>3. CASE ReviewAnswers
    BY <2>3 DEF ReviewAnswers, ReviewCall, EndReview, taskVars, persistVars
  <2>4. CASE ReviewFails
    BY <2>4 DEF ReviewFails, ReviewCall, EndReview, taskVars, persistVars
  <2>5. CASE Reviewed
    BY <2>5 DEF Reviewed, Decide, BeginPersist, LoopEnds, TryAgain, taskVars
  <2> QED  BY <1>4, <2>1, <2>2, <2>3, <2>4, <2>5
<1>5. CASE Sanitise \/ HasDeliverable \/ LacksDeliverable \/ WriteFact \/ WriteFails
  <2>1. CASE Sanitise
    BY <2>1 DEF Sanitise, PersistError, Return, taskVars, loopVars
  <2>2. CASE HasDeliverable
    BY <2>2 DEF HasDeliverable, NextFact, Return, taskVars, loopVars
  <2>3. CASE LacksDeliverable
    BY <2>3 DEF LacksDeliverable, PersistError, Return, taskVars, loopVars
  <2>4. CASE WriteFact
    BY <2>4 DEF WriteFact, taskVars, loopVars, persistVars
  <2>5. CASE WriteFails
    BY <2>5 DEF WriteFails, PersistError, Return, taskVars, loopVars
  <2> QED  BY <1>5, <2>1, <2>2, <2>3, <2>4, <2>5
<1>6. CASE VerifySucceeds \/ VerifyFails \/ Remedy
  BY <1>6 DEF VerifySucceeds, NextFact, Return, taskVars, loopVars, VerifyFails,
         PersistError, Remedy, WriteArtifact, BeginPersist
<1>7. CASE ReportAbort \/ LateWrite \/ RunAgain
  BY <1>7 DEF ReportAbort, taskVars, loopVars, persistVars, LateWrite, RunAgain, Ended
<1>8. CASE UNCHANGED vars
  BY <1>8 DEF vars, taskVars, loopVars, persistVars
<1> QED
  BY <1>1, <1>2, <1>3, <1>4, <1>5, <1>6, <1>7, <1>8 DEF Next, RunStep
\* What the task asks for does not change.
LEMMA WantsStep ==
  ASSUME Inv, [Next]_vars
  PROVE  wants' = wants
<1> USE DEF taskVars
<1>1. CASE Resolve \/ Recall \/ Plan \/ Prepare \/ BootstrapFailure \/ PrepareFails
  BY <1>1 DEF Resolve, Step, Recall, Plan, Prepare, BootstrapFailure, FailEarly,
         PrepareFails
<1>2. CASE IterationLimit \/ BudgetExhausted \/ CallFails \/ CallTools \/ CallRecovers \/
       CallInvalid \/ CallAnswers
  BY <1>2 DEF IterationLimit, BudgetExhausted, CallFails, CallTools, CallRecovers,
         CallInvalid, CallAnswers
<1>3. CASE Validate \/ RecordFails \/ Accept \/ Retry \/ Fail
  BY <1>3 DEF Validate, RecordFails, Accept, Retry, Fail
<1>4. CASE ReviewSkipped \/ ReviewRejects \/ ReviewAnswers \/ ReviewFails \/ Reviewed
  BY <1>4 DEF ReviewSkipped, ReviewRejects, ReviewAnswers, ReviewFails, Reviewed
<1>5. CASE Sanitise \/ HasDeliverable \/ LacksDeliverable \/ WriteFact \/ WriteFails
  BY <1>5 DEF Sanitise, HasDeliverable, LacksDeliverable, WriteFact, WriteFails
<1>6. CASE VerifySucceeds \/ VerifyFails \/ Remedy
  BY <1>6 DEF VerifySucceeds, VerifyFails, Remedy
<1>7. CASE ReportAbort \/ LateWrite \/ RunAgain
  BY <1>7 DEF ReportAbort, LateWrite, RunAgain
<1>8. CASE UNCHANGED vars
  BY <1>8 DEF vars
<1> QED
  BY <1>1, <1>2, <1>3, <1>4, <1>5, <1>6, <1>7, <1>8 DEF Next, RunStep

\* A fact has a kind, and memory holds what a fact may be.
LEMMA FactTypes ==
  ASSUME NEW f \in Facts
  PROVE  f[1] \in Kinds /\ f[2] \in Terminal \cup {None, "running", "agent_result", "external_cli"}
BY DEF Facts

LEMMA StoreTypesStep ==
  ASSUME Inv, [Next]_vars
  PROVE  StoreTypes'
<1>1. StoreTypes
  BY DEF Inv, TypeOK, StoreTypes
<1>2. at \in {"write", "verify"} => Head(todo) \in Facts
  BY HeadOfTodo
<1>3. \A f \in Facts : Store(f[1], f[2]) =>
        memory' \in [Kinds -> Terminal \cup {None, "running", "agent_result", "external_cli"}]
  BY <1>1, FactTypes DEF Store, StoreTypes
<1>4. CASE Resolve \/ Recall \/ Plan \/ Prepare \/ BootstrapFailure \/ PrepareFails
  BY <1>1, <1>4 DEF StoreTypes, Resolve, Step, taskVars, storeVars, Recall, Plan, Prepare,
         BootstrapFailure, FailEarly, PrepareFails
<1>5. CASE IterationLimit \/ BudgetExhausted \/ CallFails \/ CallTools \/ CallRecovers \/
       CallInvalid \/ CallAnswers
  BY <1>1, <1>5 DEF StoreTypes, IterationLimit, taskVars, storeVars, BudgetExhausted,
         CallFails, CallTools, CallRecovers, CallInvalid, CallAnswers, Store, Kinds
<1>6. CASE Validate \/ RecordFails \/ Accept \/ Retry \/ Fail
  BY <1>1, <1>6 DEF StoreTypes, Validate, taskVars, storeVars, RecordFails, Accept, Retry,
         TryAgain, Decide, Fail
<1>7. CASE ReviewSkipped \/ ReviewRejects \/ ReviewAnswers \/ ReviewFails \/ Reviewed
  BY <1>1, <1>7 DEF StoreTypes, ReviewSkipped, taskVars, storeVars, ReviewRejects,
         ReviewAnswers, ReviewFails, Reviewed, Decide, TryAgain
<1>8. CASE Sanitise \/ HasDeliverable \/ LacksDeliverable \/ VerifyFails \/ Remedy
  BY <1>1, <1>8 DEF StoreTypes, Sanitise, taskVars, storeVars, HasDeliverable,
         LacksDeliverable, VerifyFails, Remedy
<1>9. CASE ReportAbort \/ RunAgain
  BY <1>1, <1>9 DEF StoreTypes, ReportAbort, taskVars, storeVars, RunAgain
<1>10. CASE WriteFact
  BY <1>1, <1>2, <1>3, <1>10 DEF WriteFact, Writable, StoreTypes
<1>11. CASE WriteFails
  <2>1. Head(todo) \in Facts
    BY <1>2, <1>11 DEF WriteFails, Writable
  <2>2. Store(Head(todo)[1], Head(todo)[2]) \/ UNCHANGED memory
    BY <1>11 DEF WriteFails, storeVars
  <2>3. legacy' = legacy /\ inflight' \subseteq inflight \cup {Head(todo)}
    BY <1>11 DEF WriteFails, storeVars
  <2> QED  BY <1>1, <1>3, <2>1, <2>2, <2>3 DEF StoreTypes
<1>12. CASE VerifySucceeds
  <2>1. UNCHANGED <<memory, inflight>> /\ StoreLegacy(Head(todo)) /\ Head(todo) \in Facts
    BY <1>2, <1>12 DEF VerifySucceeds, Visible
  <2>2. HasLegacy(Head(todo)) =>
          Head(todo)[1] \in {"task_result", "task_session"} /\ Head(todo)[2] \in Terminal
    <3>1. status \in Terminal
      BY <1>12 DEF VerifySucceeds, Visible, Inv, ControlInv, Storing
    <3>2. /\ S(status) = <<"task_session", status>> /\ R(status) = <<"task_result", status>>
          /\ D[1] = "task_deliverable" /\ Anchor = <<"task_session", "running">>
      BY DEF S, R, D, Anchor
    <3> QED  BY <1>12, <3>1, <3>2, HeadOfTodo DEF VerifySucceeds, Visible, HasLegacy
  <2>3. legacy' \in [{"task_result", "task_session"} -> Terminal \cup {None}]
    BY <1>1, <2>1, <2>2 DEF StoreLegacy, StoreTypes
  <2> QED  BY <1>1, <2>1, <2>3 DEF StoreTypes
<1>13. CASE LateWrite
  <2>1. UNCHANGED legacy /\ inflight' \subseteq inflight
    BY <1>13 DEF LateWrite
  <2>2. UNCHANGED memory \/ \E f \in Facts : Store(f[1], f[2])
    BY <1>1, <1>13 DEF LateWrite, StoreTypes
  <2> QED  BY <1>1, <1>3, <2>1, <2>2 DEF StoreTypes
<1>14. CASE UNCHANGED vars
  BY <1>1, <1>14 DEF vars, storeVars, StoreTypes
<1> QED
  BY <1>4, <1>5, <1>6, <1>7, <1>8, <1>9, <1>10, <1>11, <1>12, <1>13, <1>14 DEF Next, RunStep

LEMMA TypeStep ==
  ASSUME Inv, TodoInv', [Next]_vars
  PROVE  TypeOK'
<1>1. PlaceTypes' /\ CountTypes' /\ BoundTypes' /\ FlagTypes' /\ StoreTypes'
  BY PlaceTypesStep, CountTypesStep, BoundTypesStep, FlagTypesStep, StoreTypesStep
<1>2. todo' \in Seq(Facts)
  <2>1. Rest(status)' = Rest(status')
    BY WantsStep DEF Rest, Anchor, D, R, S
  <2> QED  BY <1>1, <2>1, RestCases DEF TodoInv, PlaceTypes
<1> QED  BY <1>1, <1>2 DEF TypeOK, PlaceTypes, CountTypes, BoundTypes, FlagTypes, StoreTypes
-----------------------------------------------------------------------------
(* The theorems.                                                           *)

LEMMA InvInit ==
  ASSUME Init
  PROVE  Inv
<1> USE RunAssumption DEF Init, None
<1>1. TypeOK
  <2>1. PlaceTypes /\ FlagTypes
    BY DEF PlaceTypes, FlagTypes, Points
  <2>4. CountTypes /\ BoundTypes
    BY DEF CountTypes, BoundTypes, RecoveryAttempts
  <2>2. StoreTypes
    BY DEF StoreTypes
  <2>3. todo \in Seq(Facts)
    OBVIOUS
  <2> QED  BY <2>1, <2>2, <2>3, <2>4
             DEF TypeOK, PlaceTypes, CountTypes, BoundTypes, FlagTypes, StoreTypes
<1>2. LoopInv /\ MoneyInv /\ ControlInv
  BY DEF LoopInv, MoneyInv, SpentBounded, ControlInv, Early, Reviewing, Storing
<1>3. TodoInv
  BY DEF TodoInv, Rest, Storing
<1>4. StoredInv
  BY DEF StoredInv, DeliverableFirst, ResultFirst, CliDelivered, AnswerCounts, LateDelivered,
         DoneHasDeliverable, DoneIsStored, OutcomeKept, Storing, Reviewing, Kinds
<1> QED  BY <1>1, <1>2, <1>3, <1>4 DEF Inv

LEMMA InvStep ==
  ASSUME Inv, [Next]_vars
  PROVE  Inv'
<1>1. TodoInv'
  BY TodoStep
<1>2. TypeOK' /\ StoredInv'
  BY <1>1, TypeStep, StoredStep
<1>3. LoopInv' /\ MoneyInv' /\ ControlInv'
  BY LoopStep, MoneyStep, ControlStep
<1> QED  BY <1>1, <1>2, <1>3 DEF Inv

LEMMA Invariance == Spec => []Inv
<1>1. Init => Inv
  BY InvInit
<1>2. Inv /\ [Next]_vars => Inv'
  BY InvStep
<1> QED  BY <1>1, <1>2, PTL DEF Spec

\* A run keeps its variables in their types.
THEOREM TypeCorrect == Spec => []TypeOK
<1>1. Inv => TypeOK
  BY DEF Inv
<1> QED  BY <1>1, Invariance, PTL

\* However its attempts end, a run stays within its iterations and retries, and
\* spends at most what its last two calls cost above its budget.
THEOREM LimitsAreKept == Spec => []LimitsKept
<1>1. Inv => LimitsKept
  <2>1. Inv => LoopInv /\ SpentBounded /\ TypeOK
    BY DEF Inv, MoneyInv
  <2>2. Inv => attempt \in Nat /\ retries \in Nat /\ MaxRetries \in Nat
    BY RunAssumption DEF Inv, TypeOK
  <2> QED  BY <2>1, <2>2 DEF LoopInv, LimitsKept, LoopsBounded
<1> QED  BY <1>1, Invariance, PTL

\* What a run reports as done is stored: result, session and deliverable.
THEOREM DoneStaysStored == Spec => []DoneIsStored
<1>1. Inv => DoneIsStored
  BY DEF Inv, StoredInv
<1> QED  BY <1>1, Invariance, PTL

\* The outcome a run reports is in memory or in a local artifact, unless the disk
\* refused that too.
THEOREM OutcomesAreKept == Spec => []OutcomeKept
<1>1. Inv => OutcomeKept
  BY DEF Inv, StoredInv
<1> QED  BY <1>1, Invariance, PTL

\* Memory never holds a result that is done without the deliverable, whatever
\* crashes, fails or arrives late.
THEOREM DoneNeedsDeliverable == Spec => []DoneHasDeliverable
<1>1. Inv => DoneHasDeliverable
  BY DEF Inv, StoredInv
<1> QED  BY <1>1, Invariance, PTL

LEMMA SessionStep ==
  ASSUME Inv, [Next]_vars, memory'["task_session"] # memory["task_session"],
         memory'["task_session"] \in Terminal, ~overtaken'
  PROVE  memory["task_result"] = memory'["task_session"]
<1>1. ASSUME Writable, Store(Head(todo)[1], Head(todo)[2]), UNCHANGED overtaken
      PROVE  memory["task_result"] = memory'["task_session"]
  <2>1. at = "write" /\ DOMAIN memory = Kinds
    BY <1>1 DEF Writable, Inv, TypeOK
  <2>2. /\ S(status) = <<"task_session", status>> /\ Anchor = <<"task_session", "running">>
        /\ R(status)[1] = "task_result" /\ D[1] = "task_deliverable"
    BY DEF S, R, D, Anchor
  <2>3. Head(todo)[1] = "task_session" /\ memory'["task_session"] = Head(todo)[2]
    BY <1>1, <2>1 DEF Store, Kinds
  <2>4. Head(todo) # Anchor
    BY <2>2, <2>3 DEF Terminal
  <2>5. Len(todo) = 1 /\ Head(todo) = S(status)
    BY <2>1, <2>2, <2>3, <2>4, HeadOfTodo
  <2> QED  BY <1>1, <2>1, <2>2, <2>3, <2>5 DEF Inv, StoredInv, ResultFirst, Storing
<1>2. CASE WriteFact
  BY <1>1, <1>2 DEF WriteFact, taskVars, storeVars
<1>3. CASE WriteFails
  BY <1>1, <1>3 DEF WriteFails, taskVars, storeVars
<1>4. CASE LateWrite
  BY <1>4 DEF LateWrite
<1>5. CASE CallAnswers
  BY <1>5 DEF CallAnswers, Store, Inv, TypeOK, Kinds
<1>6. CASE Resolve \/ Recall \/ Plan \/ Prepare \/ BootstrapFailure \/ PrepareFails
  BY <1>6 DEF Resolve, Step, storeVars, Recall, Plan, Prepare, BootstrapFailure, FailEarly,
         PrepareFails
<1>7. CASE IterationLimit \/ BudgetExhausted \/ CallFails \/ CallTools \/ CallRecovers \/
       CallInvalid
  BY <1>7 DEF IterationLimit, storeVars, BudgetExhausted, CallFails, CallTools,
         CallRecovers, CallInvalid
<1>8. CASE Validate \/ RecordFails \/ Accept \/ Retry \/ Fail
  BY <1>8 DEF Validate, storeVars, RecordFails, Accept, Retry, TryAgain, Decide, Fail
<1>9. CASE ReviewSkipped \/ ReviewRejects \/ ReviewAnswers \/ ReviewFails \/ Reviewed
  BY <1>9 DEF ReviewSkipped, storeVars, ReviewRejects, ReviewAnswers, ReviewFails, Reviewed,
         Decide, TryAgain
<1>10. CASE Sanitise \/ HasDeliverable \/ LacksDeliverable
  BY <1>10 DEF Sanitise, storeVars, HasDeliverable, LacksDeliverable
<1>11. CASE VerifySucceeds \/ VerifyFails \/ Remedy
  BY <1>11 DEF VerifySucceeds, VerifyFails, storeVars, Remedy
<1>12. CASE ReportAbort \/ RunAgain
  BY <1>12 DEF ReportAbort, storeVars, RunAgain
<1>13. CASE UNCHANGED vars
  BY <1>13 DEF vars, storeVars
<1> QED
  BY <1>1, <1>2, <1>3, <1>4, <1>5, <1>6, <1>7, <1>8, <1>9, <1>10, <1>11, <1>12, <1>13 DEF
         Next, RunStep

\* A session is terminal only once its result is stored, writes that had been
\* given up excepted.
THEOREM SessionsFollowResults == Spec => SessionFollowsResult
<1>1. Inv /\ [Next]_vars =>
        [memory'["task_session"] # memory["task_session"]
           /\ memory'["task_session"] \in Terminal /\ ~overtaken'
         => memory["task_result"] = memory'["task_session"]]_vars
  BY SessionStep
<1> QED  BY <1>1, Invariance, PTL DEF Spec, SessionFollowsResult
-----------------------------------------------------------------------------
(* agent_status beside the run (TaskStatus).                               *)

\* There is a result to fetch, and the deliverable the task asks for.
Fetchable ==
  /\ memory["task_result"] # None
  /\ wants => memory["task_deliverable"] # None

\* A session that is done is in memory, in either form, or may yet get there.
DoneTold ==
  \/ memory["task_session"] = "done"
  \/ legacy["task_session"] = "done"
  \/ S("done") \in inflight

\* What memory tells of an end is backed by the facts it speaks of.
Backed ==
  /\ DoneTold => Fetchable
  /\ legacy["task_result"] # None => memory["task_result"] # None

\* The last of the facts is written or has been.
EndWritten == at \in Storing /\ Len(todo) = 1

LEMMA EndIsBacked ==
  ASSUME Inv, EndWritten, status = "done"
  PROVE  Fetchable
BY DEF Inv, StoredInv, ResultFirst, DeliverableFirst, EndWritten, Fetchable

\* Storing a fact takes no other away.
LEMMA StoreKeeps ==
  ASSUME Inv, NEW f \in Facts, Store(f[1], f[2])
  PROVE  /\ \A k \in Kinds : memory[k] # None => memory'[k] # None
         /\ \A k \in Kinds : memory'[k] = IF k = f[1] THEN f[2] ELSE memory[k]
<1>1. DOMAIN memory = Kinds /\ f[2] # None
  BY DEF Inv, TypeOK, Facts, Terminal, None
<1> QED  BY <1>1 DEF Store

\* Facts stay, and an end is told of for the first time by the step that writes
\* the last of them.
LEMMA Effects ==
  ASSUME Inv, [Next]_vars
  PROVE  /\ \A k \in Kinds : memory[k] # None => memory'[k] # None
         /\ DoneTold' => DoneTold \/ (EndWritten /\ status = "done")
         /\ legacy'["task_result"] # None => legacy["task_result"] # None \/ memory["task_result"] # None
<1> DEFINE Goal == /\ \A k \in Kinds : memory[k] # None => memory'[k] # None
                   /\ DoneTold' => DoneTold \/ (EndWritten /\ status = "done")
                   /\ legacy'["task_result"] # None
                      => legacy["task_result"] # None \/ memory["task_result"] # None
<1>1. CASE UNCHANGED storeVars
  BY <1>1 DEF storeVars, DoneTold
<1>2. S("done") = <<"task_session", "done">> /\ Kinds = {"task_result", "task_session", "task_deliverable"}
  BY DEF S, Kinds
<1>3. ASSUME Writable, Head(todo)[1] = "task_session", Head(todo)[2] = "done"
      PROVE  EndWritten /\ status = "done"
  <2>1. S(status) = <<"task_session", status>> /\ Anchor[2] = "running" /\ R(status)[1] = "task_result"
        /\ D[1] = "task_deliverable"
    BY DEF S, Anchor, R, D
  <2>2. at = "write"
    BY <1>3 DEF Writable
  <2>3. Len(todo) = 1 /\ Head(todo) = S(status)
    BY <1>3, <2>1, <2>2, HeadOfTodo
  <2> QED  BY <1>3, <2>1, <2>2, <2>3 DEF EndWritten, Storing
<1>4. ASSUME Writable, Store(Head(todo)[1], Head(todo)[2]), UNCHANGED <<legacy, inflight>>
      PROVE  Goal
  <2>1. Head(todo) \in Facts
    BY <1>4, HeadOfTodo DEF Writable
  <2>2. memory'["task_session"] = "done" => memory["task_session"] = "done" \/ (EndWritten /\ status = "done")
    BY <1>2, <1>3, <1>4, <2>1, StoreKeeps
  <2> QED  BY <1>4, <2>1, <2>2, StoreKeeps DEF DoneTold
<1>5. CASE WriteFact
  BY <1>1, <1>4, <1>5 DEF WriteFact, storeVars
<1>6. CASE WriteFails
  <2>1. CASE inflight' = inflight \cup {Head(todo)} /\ UNCHANGED <<memory, legacy>>
    <3>1. Writable
      BY <1>6 DEF WriteFails
    <3>2. S("done") \in inflight' => S("done") \in inflight \/ (EndWritten /\ status = "done")
      BY <1>2, <1>3, <2>1, <3>1
    <3> QED  BY <2>1, <3>2 DEF DoneTold
  <2> QED  BY <1>1, <1>4, <1>6, <2>1 DEF WriteFails, storeVars
<1>7. CASE VerifySucceeds
  <2>1. UNCHANGED <<memory, inflight>> /\ StoreLegacy(Head(todo)) /\ Visible /\ at = "verify"
    BY <1>7 DEF VerifySucceeds, Visible
  <2>2. /\ S(status) = <<"task_session", status>> /\ R(status) = <<"task_result", status>>
        /\ D[1] = "task_deliverable" /\ Anchor = <<"task_session", "running">>
    BY DEF S, R, D, Anchor
  <2>3. HasLegacy(Head(todo)) =>
          \/ Head(todo) = S(status) /\ memory["task_session"] = status
          \/ Head(todo) = R(status) /\ memory["task_result"] = status
    BY <2>1, <2>2, HeadOfTodo DEF HasLegacy, Visible
  <2>4. status # None /\ DOMAIN legacy = {"task_result", "task_session"}
    BY <2>1 DEF Inv, TypeOK, ControlInv, Storing, Terminal, None
  <2>5. CASE UNCHANGED legacy
    BY <2>1, <2>5 DEF DoneTold
  <2>6. CASE Head(todo) = S(status) /\ memory["task_session"] = status
             /\ legacy' = [legacy EXCEPT !["task_session"] = status]
    <3>1. legacy'["task_session"] = status /\ legacy'["task_result"] = legacy["task_result"]
      BY <2>4, <2>6
    <3> QED  BY <2>1, <2>6, <3>1 DEF DoneTold
  <2>7. CASE Head(todo) = R(status) /\ memory["task_result"] = status
             /\ legacy' = [legacy EXCEPT !["task_result"] = status]
    <3>1. legacy'["task_session"] = legacy["task_session"]
      BY <2>4, <2>7
    <3> QED  BY <2>1, <2>4, <2>7, <3>1 DEF DoneTold
  <2>8. \/ UNCHANGED legacy
        \/ /\ HasLegacy(Head(todo))
           /\ legacy' = [legacy EXCEPT ![Head(todo)[1]] = Head(todo)[2]]
    BY <2>1 DEF StoreLegacy
  <2>9. CASE Head(todo) = S(status)
    <3>1. Head(todo)[1] = "task_session" /\ Head(todo)[2] = status /\ Head(todo) # R(status)
      BY <2>2, <2>9
    <3> QED  BY <2>3, <2>5, <2>6, <2>8, <2>9, <3>1
  <2>10. CASE Head(todo) = R(status)
    <3>1. Head(todo)[1] = "task_result" /\ Head(todo)[2] = status /\ Head(todo) # S(status)
      BY <2>2, <2>10
    <3> QED  BY <2>3, <2>5, <2>7, <2>8, <2>10, <3>1
  <2> QED  BY <2>3, <2>5, <2>8, <2>9, <2>10
<1>8. CASE LateWrite
  <2>1. PICK f \in inflight : Store(f[1], f[2]) \/ UNCHANGED memory
    BY <1>8 DEF LateWrite
  <2>2. UNCHANGED legacy /\ inflight' \subseteq inflight /\ f \in Facts
    BY <1>8 DEF LateWrite, Inv, TypeOK
  <2>3. CASE UNCHANGED memory
    BY <2>2, <2>3 DEF DoneTold
  <2>4. CASE Store(f[1], f[2])
    <3>1. f[1] = "task_session" /\ f[2] = "done" => f = S("done")
      BY <1>2, <2>2 DEF Facts
    <3> QED  BY <1>2, <2>1, <2>2, <2>4, <3>1, StoreKeeps DEF DoneTold
  <2> QED  BY <2>1, <2>3, <2>4
<1>9. CASE CallAnswers
  <2>1. UNCHANGED <<legacy, inflight>>
        /\ (UNCHANGED memory \/ Store("task_deliverable", "external_cli"))
    BY <1>9 DEF CallAnswers
  <2>2. DOMAIN memory = Kinds
    BY DEF Inv, TypeOK
  <2> QED  BY <2>1, <2>2 DEF Store, Kinds, DoneTold, None
<1>10. CASE Resolve \/ Recall \/ Plan \/ Prepare \/ BootstrapFailure \/ PrepareFails
  BY <1>1, <1>10 DEF Resolve, Step, Recall, Plan, Prepare, BootstrapFailure, FailEarly,
         PrepareFails
<1>11. CASE IterationLimit \/ BudgetExhausted \/ CallFails \/ CallTools \/ CallRecovers \/
       CallInvalid
  BY <1>1, <1>11 DEF IterationLimit, BudgetExhausted, CallFails, CallTools, CallRecovers,
         CallInvalid
<1>12. CASE Validate \/ RecordFails \/ Accept \/ Retry \/ Fail
  BY <1>1, <1>12 DEF Validate, RecordFails, Accept, Retry, Fail
<1>13. CASE ReviewSkipped \/ ReviewRejects \/ ReviewAnswers \/ ReviewFails \/ Reviewed
  BY <1>1, <1>13 DEF ReviewSkipped, ReviewRejects, ReviewAnswers, ReviewFails, Reviewed
<1>14. CASE Sanitise \/ HasDeliverable \/ LacksDeliverable \/ VerifyFails \/ Remedy
  BY <1>1, <1>14 DEF Sanitise, HasDeliverable, LacksDeliverable, VerifyFails, Remedy
<1>15. CASE ReportAbort \/ RunAgain \/ UNCHANGED vars
  BY <1>1, <1>15 DEF ReportAbort, RunAgain, vars
<1> HIDE DEF Goal
<1> QED
  BY <1>5, <1>6, <1>7, <1>8, <1>9, <1>10, <1>11, <1>12, <1>13, <1>14, <1>15 DEF Next, RunStep, Goal

LEMMA FetchableStays ==
  ASSUME Inv, [Next]_vars, Fetchable
  PROVE  Fetchable'
BY Effects, WantsStep DEF Fetchable, Kinds

LEMMA BackedStep ==
  ASSUME Inv, Backed, [Next]_vars
  PROVE  Backed'
<1>1. memory["task_result"] # None => memory'["task_result"] # None
  BY Effects DEF Kinds
<1>2. DoneTold' => Fetchable
  BY Effects, EndIsBacked DEF Backed
<1> QED  BY <1>1, <1>2, Effects, FetchableStays DEF Backed

\* What a status call has found, and answered, is so.
SeenInv ==
  /\ DOMAIN seen = {"result", "session", "deliverable"}
  /\ seen["result"] # Nothing => memory["task_result"] # None
  /\ Canonical(seen["result"]) /\ seen["result"].status = "done" => Fetchable
  /\ seen["session"].status = "done" => Fetchable
  /\ answer.status = "done" => Fetchable

\* The run that the call began after has not been followed by another.
Live == settled.outcome # None /\ settled.run = runs
Agreed == [source |-> "canonical", status |-> settled.outcome]

\* A settled outcome stays in memory, and what the queries have found is it.
SettledInv ==
  /\ settled.run \in Nat /\ settled.run <= runs
  /\ Live => /\ at = "returned" /\ inflight = {}
             /\ settled.outcome \in Terminal
             /\ memory["task_result"] = settled.outcome
             /\ memory["task_session"] = settled.outcome
  /\ Live /\ ~missed =>
       /\ asking \notin {"idle", "result"} => seen["result"] = Agreed
       /\ asking \notin {"idle", "result", "session"} => seen["session"] = Agreed
       /\ answer.status # None => answer = [status |-> settled.outcome, error |-> None]

StatusInv == Inv /\ Backed /\ SeenInv /\ SettledInv

LEMMA StatusInvInit == StatusInit => StatusInv
<1> SUFFICES ASSUME StatusInit  PROVE StatusInv
  OBVIOUS
<1>1. Inv
  BY InvInit DEF StatusInit
<1>2. Backed
  BY DEF StatusInit, Init, Backed, DoneTold, Kinds, None
<1>3. SeenInv /\ SettledInv
  BY DEF StatusInit, Init, SeenInv, SettledInv, Live, Nothing, Canonical, None
<1> QED  BY <1>1, <1>2, <1>3 DEF StatusInv

\* A run that has returned and has no write under way leaves memory alone.
LEMMA ReturnedRests ==
  ASSUME Inv, [Next]_vars, at = "returned", inflight = {}
  PROVE  \/ runs' = runs + 1
         \/ UNCHANGED <<at, runs, memory, inflight>>
<1>1. CASE Resolve \/ Recall \/ Plan \/ Prepare \/ BootstrapFailure \/ PrepareFails
  BY <1>1 DEF Resolve, Step, Recall, Plan, Prepare, BootstrapFailure, PrepareFails
<1>2. CASE IterationLimit \/ BudgetExhausted \/ CallFails \/ CallTools \/ CallRecovers \/
       CallInvalid \/ CallAnswers
  BY <1>2 DEF IterationLimit, BudgetExhausted, CallFails, CallTools, CallRecovers,
         CallInvalid, CallAnswers, CallAllowed
<1>3. CASE Validate \/ RecordFails \/ Accept \/ Retry \/ Fail
  BY <1>3 DEF Validate, RecordFails, Accept, Retry, Fail
<1>4. CASE ReviewSkipped \/ ReviewRejects \/ ReviewAnswers \/ ReviewFails \/ Reviewed
  BY <1>4 DEF ReviewSkipped, ReviewRejects, ReviewAnswers, ReviewFails, Reviewed, ReviewCall
<1>5. CASE Sanitise \/ HasDeliverable \/ LacksDeliverable \/ WriteFact \/ WriteFails
  BY <1>5 DEF Sanitise, HasDeliverable, LacksDeliverable, WriteFact, WriteFails, Writable
<1>6. CASE VerifySucceeds \/ VerifyFails \/ Remedy \/ ReportAbort \/ LateWrite
  BY <1>6 DEF VerifySucceeds, VerifyFails, Visible, Remedy, ReportAbort, LateWrite
<1>7. CASE RunAgain \/ UNCHANGED vars
  BY <1>7 DEF RunAgain, vars, taskVars, storeVars
<1> QED  BY <1>1, <1>2, <1>3, <1>4, <1>5, <1>6, <1>7 DEF Next, RunStep

LEMMA RunsGrow ==
  ASSUME Inv, [Next]_vars
  PROVE  runs' = runs \/ runs' = runs + 1
<1> USE DEF taskVars
<1>1. CASE Resolve \/ Recall \/ Plan \/ Prepare \/ BootstrapFailure \/ PrepareFails
  BY <1>1 DEF Resolve, Step, Recall, Plan, Prepare, BootstrapFailure, FailEarly,
         PrepareFails
<1>2. CASE IterationLimit \/ BudgetExhausted \/ CallFails \/ CallTools \/ CallRecovers \/
       CallInvalid \/ CallAnswers
  BY <1>2 DEF IterationLimit, BudgetExhausted, CallFails, CallTools, CallRecovers,
         CallInvalid, CallAnswers
<1>3. CASE Validate \/ RecordFails \/ Accept \/ Retry \/ Fail
  BY <1>3 DEF Validate, RecordFails, Accept, Retry, Fail
<1>4. CASE ReviewSkipped \/ ReviewRejects \/ ReviewAnswers \/ ReviewFails \/ Reviewed
  BY <1>4 DEF ReviewSkipped, ReviewRejects, ReviewAnswers, ReviewFails, Reviewed
<1>5. CASE Sanitise \/ HasDeliverable \/ LacksDeliverable \/ WriteFact \/ WriteFails
  BY <1>5 DEF Sanitise, HasDeliverable, LacksDeliverable, WriteFact, WriteFails
<1>6. CASE VerifySucceeds \/ VerifyFails \/ Remedy
  BY <1>6 DEF VerifySucceeds, VerifyFails, Remedy
<1>7. CASE ReportAbort \/ LateWrite \/ RunAgain
  BY <1>7 DEF ReportAbort, LateWrite, RunAgain
<1>8. CASE UNCHANGED vars
  BY <1>8 DEF vars
<1> QED
  BY <1>1, <1>2, <1>3, <1>4, <1>5, <1>6, <1>7, <1>8 DEF Next, RunStep

\* The run goes on beside the call.
LEMMA RunBeside ==
  ASSUME StatusInv, [Next]_vars, UNCHANGED statusVars
  PROVE  StatusInv'
<1>1. Inv' /\ Backed'
  BY InvStep, BackedStep DEF StatusInv
<1>2. /\ Fetchable => Fetchable'
      /\ memory["task_result"] # None => memory'["task_result"] # None
  BY Effects, FetchableStays DEF StatusInv, Kinds
<1>3. SeenInv'
  BY <1>2 DEF StatusInv, SeenInv, statusVars
<1>4. runs \in Nat /\ runs' \in Nat /\ (runs' = runs \/ runs' = runs + 1)
  BY RunAssumption, RunsGrow, <1>1 DEF StatusInv, Inv, TypeOK
<1>5. Live' => Live /\ runs' = runs
  BY <1>4 DEF StatusInv, SettledInv, Live, statusVars
<1>6. Live' => UNCHANGED <<at, runs, memory, inflight>>
  BY <1>4, <1>5, ReturnedRests DEF StatusInv, SettledInv
<1>7. SettledInv'
  BY <1>4, <1>5, <1>6 DEF StatusInv, SettledInv, Live, Agreed, statusVars
<1> QED  BY <1>1, <1>3, <1>7 DEF StatusInv

\* What a query may find, in the canonical form and in the legacy one.
LEMMA FoundIsBacked ==
  ASSUME StatusInv
  PROVE  LET r == Found("canonical", memory["task_result"])
             e == Found("canonical", memory["task_session"])
             lr == Found("legacy", legacy["task_result"])
             le == Found("legacy", legacy["task_session"])
         IN  /\ r # Nothing \/ lr # Nothing => memory["task_result"] # None
             /\ r.status = "done" \/ e.status = "done" \/ le.status = "done" => Fetchable
             /\ ~Canonical(lr)
<1>1. /\ memory["task_result"] = "done" => Fetchable
      /\ memory["task_session"] = "done" \/ legacy["task_session"] = "done" => Fetchable
      /\ legacy["task_result"] # None => memory["task_result"] # None
  BY DEF StatusInv, Inv, StoredInv, DoneHasDeliverable, Fetchable, Backed, DoneTold, None
<1> QED  BY <1>1 DEF Found, Nothing, Canonical, None

\* A settled outcome is what a query of it finds.
LEMMA FoundIsAgreed ==
  ASSUME StatusInv, Live
  PROVE  /\ Found("canonical", memory["task_result"]) = Agreed
         /\ Found("canonical", memory["task_session"]) = Agreed
         /\ Agreed # Nothing
BY DEF StatusInv, SettledInv, Live, Found, Agreed, Nothing, None

LEMMA AskStep ==
  ASSUME StatusInv, Ask
  PROVE  SeenInv' /\ SettledInv'
<1>1. /\ seen' = [f \in DOMAIN seen |-> Nothing] /\ UNCHANGED vars /\ asking' = "result"
      /\ answer' = [status |-> None, error |-> None] /\ settled' = Settled
  BY DEF Ask
<1>2. SeenInv'
  BY <1>1 DEF StatusInv, SeenInv, Nothing, Canonical, None
<1>3. runs \in Nat /\ runs' = runs /\ settled'.run = runs
  BY <1>1, RunAssumption DEF StatusInv, Inv, TypeOK, vars, taskVars, Settled
<1>4. settled'.outcome # None =>
        /\ at = "returned" /\ inflight = {} /\ settled'.outcome = status
        /\ memory["task_result"] = status /\ memory["task_session"] = status
  BY <1>1 DEF Settled
<1>5. at = "returned" => status \in Terminal
  BY DEF StatusInv, Inv, ControlInv
<1>6. UNCHANGED <<at, inflight, memory>>
  BY <1>1 DEF vars, storeVars
<1> QED  BY <1>1, <1>2, <1>3, <1>4, <1>5, <1>6 DEF SettledInv, Live

\* A query takes down what it finds, or misses it.
LEMMA QueryStep ==
  ASSUME StatusInv, QueryResult \/ QuerySession \/ QueryDeliverable
  PROVE  SeenInv' /\ SettledInv'
<1>1. UNCHANGED <<vars, answer, settled>>
  BY DEF QueryResult, QuerySession, QueryDeliverable, Query
<1>2. UNCHANGED <<at, runs, memory, inflight, wants>>
  BY <1>1 DEF vars, taskVars, storeVars
<1>3. \/ asking = "result" /\ asking' = "session"
      \/ asking = "session" /\ asking' = "deliverable"
      \/ asking = "deliverable" /\ asking' = "legacy_result"
  BY DEF QueryResult, QuerySession, QueryDeliverable, Query
<1>4. \/ missed' = TRUE /\ UNCHANGED seen
      \/ UNCHANGED missed /\
         \/ asking = "result"
            /\ seen' = [seen EXCEPT !["result"] = Found("canonical", memory["task_result"])]
         \/ asking = "session"
            /\ seen' = [seen EXCEPT !["session"] = Found("canonical", memory["task_session"])]
         \/ asking = "deliverable"
            /\ seen' = [seen EXCEPT !["deliverable"]
                                   = Found("canonical", memory["task_deliverable"])]
  BY DEF QueryResult, QuerySession, QueryDeliverable, Query
<1>5. SeenInv
  BY DEF StatusInv
<1>6. SeenInv'
  BY <1>1, <1>2, <1>4, <1>5, FoundIsBacked DEF SeenInv, Fetchable
<1>7. Live' => Live
  BY <1>1, <1>2 DEF Live
<1>8. Live' /\ ~missed' =>
        /\ asking' \notin {"idle", "result"} => seen'["result"] = Agreed
        /\ asking' \notin {"idle", "result", "session"} => seen'["session"] = Agreed
  BY <1>3, <1>4, <1>5, <1>7, FoundIsAgreed DEF StatusInv, SettledInv, SeenInv
<1> QED  BY <1>1, <1>2, <1>4, <1>6, <1>7, <1>8 DEF StatusInv, SettledInv, Live, Agreed

\* The legacy facts are asked for only in place of what was not found.
LEMMA LegacyStep ==
  ASSUME StatusInv, LegacyResult \/ LegacySession
  PROVE  SeenInv' /\ SettledInv'
<1>1. UNCHANGED <<vars, answer, settled>>
  BY DEF LegacyResult, LegacySession, Legacy
<1>2. UNCHANGED <<at, runs, memory, inflight, wants>>
  BY <1>1 DEF vars, taskVars, storeVars
<1>3. asking \in {"legacy_result", "legacy_session"}
  BY DEF LegacyResult, LegacySession, Legacy
<1>4. \/ UNCHANGED seen /\ (UNCHANGED missed \/ missed' = TRUE)
      \/ UNCHANGED missed /\
         \/ /\ asking = "legacy_result" /\ seen["result"] = Nothing
            /\ seen' = [seen EXCEPT !["result"] = Found("legacy", legacy["task_result"])]
         \/ /\ asking = "legacy_session" /\ seen["session"] = Nothing
            /\ seen' = [seen EXCEPT !["session"] = Found("legacy", legacy["task_session"])]
  BY DEF LegacyResult, LegacySession, Legacy
<1>5. SeenInv
  BY DEF StatusInv
<1>6. SeenInv'
  BY <1>1, <1>2, <1>4, <1>5, FoundIsBacked DEF SeenInv, Fetchable
<1>7. Live' => Live
  BY <1>1, <1>2 DEF Live
<1>8. Live' /\ ~missed' => ~missed /\ UNCHANGED seen
  BY <1>3, <1>4, <1>7, FoundIsAgreed DEF StatusInv, SettledInv
<1> QED  BY <1>1, <1>2, <1>3, <1>6, <1>7, <1>8 DEF StatusInv, SettledInv, Live, Agreed

\* Only facts that speak of an end make an answer done.
LEMMA DoneIsEffective ==
  ASSUME NEW r, NEW e, Effective(r, e) = "done"
  PROVE  (Canonical(r) /\ r.status = "done") \/ e.status = "done"
BY DEF Effective, Normalized

LEMMA AgreedIsAnswer ==
  ASSUME NEW s, s["result"] = Agreed, s["session"] = Agreed, settled.outcome \in Terminal,
         DOMAIN s = {"result", "session", "deliverable"}
  PROVE  Answer(s) = [status |-> settled.outcome, error |-> None]
<1>1. Agreed # Nothing /\ Canonical(Agreed) /\ Agreed.status = settled.outcome
  BY DEF Agreed, Nothing, Canonical, None
<1>2. Effective(Agreed, Agreed) = settled.outcome
  BY <1>1 DEF Effective, Normalized, Terminal
<1>3. Incomplete(Agreed, Agreed) = None
  BY <1>1 DEF Incomplete
<1> QED  BY <1>1, <1>2, <1>3 DEF Answer

LEMMA ReplyStep ==
  ASSUME StatusInv, Reply
  PROVE  SeenInv' /\ SettledInv'
<1>1. /\ asking = "answer" /\ asking' = "idle" /\ answer' = Answer(seen)
      /\ UNCHANGED <<vars, seen, missed, settled>>
  BY DEF Reply
<1>2. UNCHANGED <<at, runs, memory, inflight, wants>>
  BY <1>1 DEF vars, taskVars, storeVars
<1>3. SeenInv
  BY DEF StatusInv
<1>4. answer'.status = "done" => Fetchable
  <2>1. answer'.status = "done" => Effective(seen["result"], seen["session"]) = "done"
    BY <1>1 DEF Answer
  <2> QED  BY <1>3, <2>1, DoneIsEffective DEF SeenInv
<1>5. SeenInv'
  BY <1>1, <1>2, <1>3, <1>4 DEF SeenInv, Fetchable
<1>6. Live' => Live
  BY <1>1, <1>2 DEF Live
<1>7. Live' /\ ~missed' => answer' = [status |-> settled.outcome, error |-> None]
  BY <1>1, <1>3, <1>6, AgreedIsAnswer DEF StatusInv, SettledInv, SeenInv
<1> QED  BY <1>1, <1>2, <1>5, <1>6, <1>7 DEF StatusInv, SettledInv, Live, Agreed

LEMMA StatusInvStep ==
  ASSUME StatusInv, [StatusNext]_allVars
  PROVE  StatusInv'
<1>1. CASE StatusStep
  <2>1. UNCHANGED vars
    BY <1>1 DEF StatusStep, Ask, QueryResult, QuerySession, QueryDeliverable, Query,
                LegacyResult, LegacySession, Legacy, Reply
  <2>2. Inv' /\ Backed'
    BY <2>1, InvStep, BackedStep DEF StatusInv
  <2>3. SeenInv' /\ SettledInv'
    BY <1>1, AskStep, QueryStep, LegacyStep, ReplyStep DEF StatusStep
  <2> QED  BY <2>2, <2>3 DEF StatusInv
<1>2. CASE Next /\ UNCHANGED statusVars
  BY <1>2, RunBeside
<1>3. CASE UNCHANGED allVars
  BY <1>3, RunBeside DEF allVars
<1> QED  BY <1>1, <1>2, <1>3 DEF StatusNext

LEMMA StatusInvariance == StatusSpec => []StatusInv
<1>1. StatusInv /\ [StatusNext]_allVars => StatusInv'
  BY StatusInvStep
<1> QED  BY <1>1, StatusInvInit, PTL DEF StatusSpec

\* A task that is reported done has a result to fetch, and the deliverable it was
\* asked for, whichever queries failed, crashes and late writes included.
THEOREM DoneAnswersHaveResults == StatusSpec => []DoneAnswerHasResult
<1>1. StatusInv => DoneAnswerHasResult
  BY DEF StatusInv, SeenInv, DoneAnswerHasResult, Fetchable
<1> QED  BY <1>1, StatusInvariance, PTL

\* A status call that begins once an outcome is in memory for good answers it,
\* unless one of its queries fails or the task is run again.
THEOREM SettledAnswersHold == StatusSpec => []SettledAnswer
<1>1. StatusInv => SettledAnswer
  BY DEF StatusInv, SettledInv, Live, SettledAnswer
<1> QED  BY <1>1, StatusInvariance, PTL
==============================================================================
