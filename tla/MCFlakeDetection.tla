-------------------------- MODULE MCFlakeDetection --------------------------
(***************************************************************************)
(* Small instances of FlakeDetection: the reports that can be uploaded and *)
(* the symmetry of requests and tests, whose identities mean nothing.      *)
(***************************************************************************)
EXTENDS FlakeDetection, TLC

\* Attempt 1 fails every test, the later attempts pass them.
FlakyPayloads ==
    {[run |-> r, attempt |-> a, outcome |-> [t \in Tests |-> IF a = 1 THEN "failed" ELSE "passed"]] :
        r \in Runs, a \in Attempts}

\* Attempts that fail or pass as a whole (conflicting reports of an attempt, passes
\* before failures), and retries of some of the tests, which pass.
RetryPayloads ==
    {p \in [run : Runs, attempt : Attempts, outcome : [Tests -> {"failed", "passed", NoResult}]] :
        \/ \E o \in {"failed", "passed"} : \A t \in Tests : p.outcome[t] = o
        \/ \E t \in Tests : \A s \in Tests : p.outcome[s] = IF s = t THEN "passed" ELSE NoResult}

\* One failing and one passing upload for each of two runs.  PlannedSpec is FairSpec
\* without faults, with the reports dealt out and a failing one stored before the others come, which
\* stands in for the symmetry of requests where liveness is checked.
Plan == CHOOSE f \in [Uploads -> FlakyPayloads] : \A p \in FlakyPayloads : \E u \in Uploads : f[u] = p
First == CHOOSE u \in Uploads : Plan[u].attempt = 1

ReceivePlanned(u) ==
    /\ u # First => pc[First] = "done"
    /\ Receive(u)
    /\ payload'[u] = Plan[u]

PlannedNext ==
    \/ \E u \in Uploads : ReceivePlanned(u) \/ Step(u)
    \/ \E e \in Event : NotifySlack(e)

PlannedSpec == Init /\ [][PlannedNext]_vars /\ Fairness

Symmetry == Permutations(Uploads) \cup Permutations(Tests)
=============================================================================
