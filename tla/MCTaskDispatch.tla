-------------------------- MODULE MCTaskDispatch --------------------------
(* Instances of TaskDispatch for TLC: two tasks and a call of each kind. *)
EXTENDS TaskDispatch, TLC

CONSTANTS t1, t2, h1, k1, p1, main

OneHttp == {h1}
OneCourier == {k1}
OnePoll == {p1}
TwoTasks == {t1, t2}
OneAgent == {main}

NoFaults == {}
AllFaults == FaultKinds

\* Task facts are interchangeable.
Symmetry == Permutations({t1, t2})
=============================================================================
