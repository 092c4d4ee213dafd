--------------------------- MODULE ExclusiveRuns ---------------------------
(***************************************************************************)
(* What the agent_start handler promises whoever asks for a task to be     *)
(* run: a task has one run at a time and an agent id has at most           *)
(* MaxParallel of them.  Nothing is said of how requests are found,        *)
(* claimed, refused or lost.                                               *)
(***************************************************************************)
EXTENDS Integers, FiniteSets

CONSTANTS Callers, Tasks, Agents, MaxParallel

VARIABLE runs    \* the runs in progress, as <<caller, task, agent>>

Init == runs = {}

Start(c, t, a) ==
  /\ \A r \in runs : r[1] # c /\ r[2] # t
  /\ Cardinality({r \in runs : r[3] = a}) < MaxParallel
  /\ runs' = runs \cup {<<c, t, a>>}

Finish(r) == runs' = runs \ {r}

Crash == runs' = {}

Next ==
  \/ \E c \in Callers : \E t \in Tasks : \E a \in Agents : Start(c, t, a)
  \/ \E r \in runs : Finish(r)
  \/ Crash

Spec == Init /\ [][Next]_runs
=============================================================================
