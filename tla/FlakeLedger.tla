---------------------------- MODULE FlakeLedger -----------------------------
(***************************************************************************)
(* What FlakeGuard promises to someone who reads its test_results and      *)
(* flake_events tables: results only accumulate, the first report of an    *)
(* attempt wins, and events are recorded in atomic batches, one per test   *)
(* and run, each backed by a stored failure and a stored later pass.       *)
(* Requests, transactions, locks and failures do not appear here.          *)
(***************************************************************************)
EXTENDS FlakePattern

CONSTANTS Tests, Runs

VARIABLES results, events

vars == <<results, events>>

Event == [test : Tests, run : Runs, failed : Attempts, passed : Attempts]

Init ==
    /\ results = [t \in Tests |-> [r \in Runs |-> [a \in Attempts |-> NoResult]]]
    /\ events = {}

\* Results of one attempt of one run appear where there were none.
Store ==
    /\ results' \in [Tests -> [Runs -> History]]
    /\ \E run \in Runs, attempt \in Attempts :
         \A t \in Tests, r \in Runs, a \in Attempts :
            \/ results'[t][r][a] = results[t][r][a]
            \/ r = run /\ a = attempt /\ results[t][r][a] = NoResult
    /\ UNCHANGED events

\* An event that the stored results bear out.
Backed(e) ==
    /\ e.failed < e.passed
    /\ IsFailed(results[e.test][e.run][e.failed])
    /\ IsPassed(results[e.test][e.run][e.passed])

\* A batch of events for tests and runs that had none.
Record ==
    /\ events' \in SUBSET Event
    /\ events \subseteq events'
    /\ \A e \in events' \ events :
         /\ Backed(e)
         /\ \A f \in events' \ {e} : e.test # f.test \/ e.run # f.run
    /\ UNCHANGED results

Next == Store \/ Record

Spec == Init /\ [][Next]_vars

\* With a retention job, events also go; what is recorded again must be backed again.
Forget == events' \subseteq events /\ UNCHANGED results

ForgetfulSpec == Init /\ [][Next \/ Forget]_vars
=============================================================================
