----------------------------- MODULE TaskStatus -----------------------------
(***************************************************************************)
(* agent_status beside a running task (TaskRun): it asks memory for the    *)
(* result, then the session, then the deliverable, each in a call of its   *)
(* own that may fail, falls back to the legacy facts, and derives one      *)
(* status from what it saw at these different moments.                     *)
(***************************************************************************)
EXTENDS TaskRun

CONSTANTS
  MaxQueries,  \* bound on the status calls
  QueriesFail  \* whether a query may fail

ASSUME StatusAssumption == MaxQueries \in Nat /\ QueriesFail \in BOOLEAN

VARIABLES
  asking,   \* the query to make next, or "idle"
  seen,     \* the facts found
  answer,   \* the last answer
  queries,  \* status calls begun
  missed,   \* whether a query of this call failed
  settled   \* history: the run this call began in, and the outcome that memory
            \* held of it if it had returned

statusVars == <<asking, seen, answer, queries, missed, settled>>
allVars == <<vars, statusVars>>

Nothing == [source |-> None, status |-> None]
Found(source, s) == IF s = None THEN Nothing ELSE [source |-> source, status |-> s]

StatusInit ==
  /\ Init
  /\ asking = "idle" /\ queries = 0 /\ missed = FALSE /\ settled = [run |-> 0, outcome |-> None]
  /\ seen = [result |-> Nothing, session |-> Nothing, deliverable |-> Nothing]
  /\ answer = [status |-> None, error |-> None]

-----------------------------------------------------------------------------

\* normalize_status
Normalized(s) == IF s = "running" THEN "active" ELSE s

Canonical(fact) == fact.source = "canonical"

\* derive_effective_status.  A legacy result has no status; a legacy session
\* has a text that names it.
Effective(result_, session) ==
  CASE session = Nothing /\ result_ # Nothing ->
         IF Canonical(result_) /\ result_.status # "done"
         THEN Normalized(result_.status) ELSE "failed"
    [] Canonical(session) ->
         IF session.status = "done" /\ result_ = Nothing
         THEN "failed" ELSE Normalized(session.status)
    [] session # Nothing /\ ~Canonical(session) /\ Canonical(result_) ->
         Normalized(result_.status)
    [] OTHER ->
         IF session.status \in {"done", "failed"} THEN session.status ELSE "active"

\* incomplete_persistence_error
Incomplete(result_, session) ==
  CASE result_ # Nothing /\ session = Nothing -> "task_session missing"
    [] result_ = Nothing /\ Canonical(session) /\ session.status = "done" ->
         "task_result missing"
    [] OTHER -> None

Answer(s) ==
  IF \A f \in DOMAIN s : s[f] = Nothing
  THEN [status |-> "pending", error |-> None]
  ELSE IF s.result = Nothing /\ s.session = Nothing
  THEN [status |-> "active", error |-> None]
  ELSE [status |-> Effective(s.result, s.session),
        error |-> Incomplete(s.result, s.session)]

-----------------------------------------------------------------------------

\* The last run and its outcome, if it has returned and memory holds it for good.
Settled ==
  [run |-> runs,
   outcome |-> IF at = "returned" /\ inflight = {} /\ memory["task_result"] = status
                  /\ memory["task_session"] = status
               THEN status ELSE None]

\* The task is resolved; the call goes on with its queries.
Ask ==
  /\ asking = "idle" /\ queries < MaxQueries
  /\ queries' = queries + 1
  /\ asking' = "result"
  /\ seen' = [f \in DOMAIN seen |-> Nothing]
  /\ answer' = [status |-> None, error |-> None]
  /\ missed' = FALSE /\ settled' = Settled
  /\ UNCHANGED vars

\* One query: an error counts as nothing found.
Query(what, fact, next) ==
  /\ asking = what
  /\ \/ seen' = [seen EXCEPT ![what] = fact] /\ UNCHANGED missed
     \/ QueriesFail /\ missed' = TRUE /\ UNCHANGED seen
  /\ asking' = next
  /\ UNCHANGED <<vars, answer, queries, settled>>

QueryResult ==
  Query("result", Found("canonical", memory["task_result"]), "session")
QuerySession ==
  Query("session", Found("canonical", memory["task_session"]), "deliverable")
QueryDeliverable ==
  Query("deliverable", Found("canonical", memory["task_deliverable"]), "legacy_result")

\* Mutant of Legacy: the legacy fact replaces the canonical one.
LegacyAlways(what, kind, from, next) ==
  /\ asking = from
  /\ seen' = [seen EXCEPT ![what] = Found("legacy", legacy[kind])]
  /\ asking' = next
  /\ UNCHANGED <<vars, answer, queries, missed, settled>>

\* The legacy facts are asked for only where nothing canonical was found.
Legacy(what, kind, from, next) ==
  /\ asking = from
  /\ \/ seen[what] # Nothing /\ UNCHANGED <<seen, missed>>
     \/ /\ seen[what] = Nothing
        /\ seen' = [seen EXCEPT ![what] = Found("legacy", legacy[kind])]
        /\ UNCHANGED missed
     \/ seen[what] = Nothing /\ QueriesFail /\ missed' = TRUE /\ UNCHANGED seen
  /\ asking' = next
  /\ UNCHANGED <<vars, answer, queries, settled>>

LegacyResult == Legacy("result", "task_result", "legacy_result", "legacy_session")
LegacySession == Legacy("session", "task_session", "legacy_session", "answer")

Reply ==
  /\ asking = "answer"
  /\ asking' = "idle"
  /\ answer' = Answer(seen)
  /\ UNCHANGED <<vars, seen, queries, missed, settled>>

StatusStep ==
  \/ Ask \/ QueryResult \/ QuerySession \/ QueryDeliverable
  \/ LegacyResult \/ LegacySession \/ Reply

StatusNext == StatusStep \/ (Next /\ UNCHANGED statusVars)

StatusSpec == StatusInit /\ [][StatusNext]_allVars

-----------------------------------------------------------------------------
(* Properties.                                                             *)

\* A call that began after a run had returned with its outcome in memory, and
\* whose queries all succeed, answers that outcome, until the task is run again.
SettledAnswer ==
  answer.status # None /\ ~missed /\ settled.outcome # None /\ settled.run = runs =>
    answer = [status |-> settled.outcome, error |-> None]

\* A task that is reported done has a result to fetch, and the deliverable it
\* was asked for, whichever queries failed and whenever they were made.
DoneAnswerHasResult ==
  answer.status = "done" =>
    /\ memory["task_result"] # None
    /\ wants => memory["task_deliverable"] # None
=============================================================================
