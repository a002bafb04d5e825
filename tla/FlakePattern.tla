---------------------------- MODULE FlakePattern ----------------------------
(***************************************************************************)
(* The fail-then-pass pattern of internal/flake/detector.go as a function  *)
(* of the history of one test in one CI run.  The detector reads that      *)
(* history as rows ordered by attempt number; a test has at most one       *)
(* result per attempt (UNIQUE (test_case_id, ci_job_id) and                *)
(* UNIQUE (ci_run_attempt_id, job_name, job_variant)), so the ordered rows *)
(* are a function from attempt numbers to statuses.                        *)
(***************************************************************************)
EXTENDS Naturals

CONSTANT Attempts   \* the values of github_run_attempt that can be uploaded

\* CHECK attempt_number_positive, and IngestionMetadata.Validate
ASSUME AttemptsAssumption == Attempts \subseteq Nat \ {0}

Status == {"passed", "failed", "skipped", "error"}
NoResult == "none"                    \* no row for that attempt
Outcome == Status \cup {NoResult}
History == [Attempts -> Outcome]

IsFailed(status) == status \in {"failed", "error"}
IsPassed(status) == status = "passed"

Rows(h) == {a \in Attempts : h[a] # NoResult}
Failures(h) == {a \in Attempts : IsFailed(h[a])}
\* A bug: any pass counts, before the failure too.
PassesAnywhere(h, i) == {a \in Attempts : IsPassed(h[a])}
PassesAfter(h, i) == {a \in Attempts : a > i /\ IsPassed(h[a])}

Least(S) == CHOOSE a \in S : \A b \in S : a <= b

\* The failures at which the scan stops: those with a pass in a later row.
Stops(h) == {i \in Failures(h) : PassesAfter(h, i) # {}}

FlakeDetected(h) ==
    /\ \E a, b \in Rows(h) : a # b    \* fewer than two rows: never a flake
    /\ Stops(h) # {}

\* The pair of attempts that is reported: the earliest failure of the whole
\* history and the first pass behind the failure at which the scan stopped.
DetectFlakePattern(h) ==
    [failed |-> Least(Failures(h)),
     passed |-> Least(PassesAfter(h, Least(Stops(h))))]
-----------------------------------------------------------------------------
\* What a flake is: some attempt failed and a later attempt passed.
FlakyPairs(h) ==
    {p \in Attempts \X Attempts : IsFailed(h[p[1]]) /\ IsPassed(h[p[2]]) /\ p[1] < p[2]}

\* The detector's answer for h, held against that definition.
PatternMatches(h) ==
    /\ FlakeDetected(h) <=> FlakyPairs(h) # {}
    /\ FlakeDetected(h) =>
         LET found == DetectFlakePattern(h)
         IN  /\ <<found.failed, found.passed>> \in FlakyPairs(h)
             /\ \A p \in FlakyPairs(h) : /\ found.failed <= p[1]
                                         /\ found.failed = p[1] => found.passed <= p[2]
=============================================================================
