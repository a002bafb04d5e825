--------------------------- MODULE FlakeDetection ---------------------------
(***************************************************************************)
(* Uploads of JUnit reports and the detection of flaky tests behind them.  *)
(*                                                                         *)
(* Each upload is one POST /api/v1/ingest/junit request: a transaction     *)
(* that stores the results (ingest/persistence.go), then a second          *)
(* transaction that looks for fail-then-pass tests in the run, records     *)
(* flake events and refreshes the tests' statistics (flake/detector.go,    *)
(* flake/stats.go), then one goroutine per new event that posts to Slack.  *)
(* Requests run concurrently against one PostgreSQL database at its        *)
(* default level, READ COMMITTED: a statement sees what is committed when  *)
(* it starts and what its own transaction wrote; an INSERT whose unique    *)
(* key another open transaction has just written waits for that            *)
(* transaction to end; an error aborts the transaction, every later        *)
(* statement of it fails and its COMMIT rolls back.                        *)
(***************************************************************************)
EXTENDS FlakePattern, FiniteSets

CONSTANTS Uploads,     \* upload requests; a retry is a request of its own
          Tests,       \* test_cases rows of one project
          Runs,        \* ci_runs rows of that project
          Payloads,    \* the accepted reports: run, attempt, test outcomes
          MaxFaults    \* bound on cancelled requests and server crashes

Report == [run : Runs, attempt : Attempts, outcome : [Tests -> Outcome]]
Event == [test : Tests, run : Runs, failed : Attempts, passed : Attempts]

ASSUME FlakeDetectionAssumption ==
    /\ IsFiniteSet(Uploads) /\ IsFiniteSet(Runs)
    /\ Payloads \subseteq Report
    /\ MaxFaults \in Nat

NoPayload == [run |-> "no run"]
NoEvent == [test |-> "no test"]
NoStats == [mixed |-> 0, total |-> 0]    \* no flake_stats row: a row has total >= 1
Stats == [mixed : Nat, total : Nat]

VARIABLES
    \* the database, as committed
    results,    \* test_results: [Tests -> [Runs -> History]]
    events,     \* flake_events
    stats,      \* flake_stats
    \* one request and its transaction
    pc,         \* the request's next step
    payload,    \* the parsed report
    todo,       \* detection: patterns found and not handled yet
    cur,        \* detection: the pattern being handled
    own,        \* detection: events inserted and not committed
    ownStats,   \* detection: statistics written and not committed
    aborted,    \* detection: a statement failed, the transaction is dead
    total,      \* UpdateStats: the value of countTotalRuns
    mixed,      \* UpdateStats: the value of countMixedOutcomeRuns
    outcome,    \* how the request ended
    created,    \* the events its response counts as created
    \* notification goroutines
    outbox,     \* started and not finished
    posts,      \* messages delivered to Slack per test and run
    faults      \* faults injected so far, at most MaxFaults

dbVars == <<results, events, stats>>
txVars == <<todo, cur, own, ownStats, aborted, total, mixed>>
slackVars == <<outbox, posts>>
vars == <<dbVars, pc, payload, txVars, outcome, created, slackVars, faults>>

Handling == {"insert", "countTotal", "countMixed", "upsert"}
InDetection == {"scan"} \cup Handling
Active == {"persist", "detect"} \cup InDetection

\* How a request ends: "ok"; the cause its detection failed for (the upload is
\* still answered 202, with no events); or its client or server went away.
DetectionFailures == {"aborted", "score", "deadlock"}
Outcomes == {"none", "ok", "cancelled", "crashed"} \cup DetectionFailures

Init ==
    /\ results = [t \in Tests |-> [r \in Runs |-> [a \in Attempts |-> NoResult]]]
    /\ events = {}
    /\ stats = [t \in Tests |-> NoStats]
    /\ pc = [u \in Uploads |-> "idle"]
    /\ payload = [u \in Uploads |-> NoPayload]
    /\ todo = [u \in Uploads |-> {}]
    /\ cur = [u \in Uploads |-> NoEvent]
    /\ own = [u \in Uploads |-> {}]
    /\ ownStats = [u \in Uploads |-> [t \in Tests |-> NoStats]]
    /\ aborted = [u \in Uploads |-> FALSE]
    /\ total = [u \in Uploads |-> 0]
    /\ mixed = [u \in Uploads |-> 0]
    /\ outcome = [u \in Uploads |-> "none"]
    /\ created = [u \in Uploads |-> {}]
    /\ outbox = {}
    /\ posts = [t \in Tests |-> [r \in Runs |-> 0]]
    /\ faults = 0

-----------------------------------------------------------------------------
(* What the statements read and wait for *)

SameKey(e, f) == e.test = f.test /\ e.run = f.run

\* A bug: the flag that says whether a pattern was found is ignored, its zero
\* attempts are recorded.
UncheckedPatternsIn(run) ==
    {[test |-> t, run |-> run, failed |-> 0, passed |-> 0] :
        t \in {t1 \in Tests : Rows(results[t1][run]) # {}}}

\* getTestAttempts and detectFlakePattern over every test of the run
PatternsIn(run) ==
    {[test |-> t, run |-> run,
      failed |-> DetectFlakePattern(results[t][run]).failed,
      passed |-> DetectFlakePattern(results[t][run]).passed] :
        t \in {t1 \in Tests : FlakeDetected(results[t1][run])}}

RunsSeen(t) == {r \in Runs : Rows(results[t][r]) # {}}
MixedRuns(t, seen) == {r \in Runs : \E e \in seen : e.test = t /\ e.run = r}

\* The open transactions a request's next statement waits for: they hold an
\* uncommitted event with the same key, or the test's flake_stats row.
Blockers(u) ==
    {v \in Uploads \ {u} :
        \/ /\ pc[u] = "insert" /\ ~aborted[u]
           /\ \E e \in own[v] : SameKey(e, cur[u])
        \/ /\ pc[u] = "upsert" /\ mixed[u] <= total[u]
           /\ ownStats[v][cur[u].test] # NoStats}

\* Everyone in such a set waits for a member and is waited for by a member.
Deadlocked(u) ==
    \E D \in SUBSET Uploads :
        /\ u \in D
        /\ \A d \in D : Blockers(d) \cap D # {} /\ \E e \in D : d \in Blockers(e)

-----------------------------------------------------------------------------
(* The upload *)

\* A request passes authentication, limits and parsing: its report is in memory.
Receive(u) ==
    /\ pc[u] = "idle"
    /\ \E p \in Payloads : payload' = [payload EXCEPT ![u] = p]
    /\ pc' = [pc EXCEPT ![u] = "persist"]
    /\ UNCHANGED <<dbVars, txVars, outcome, created, slackVars, faults>>

\* A bug: ON CONFLICT DO UPDATE, the last report of an attempt wins.
StoredLast(p) ==
    [t \in Tests |-> [r \in Runs |-> [a \in Attempts |->
        IF r = p.run /\ a = p.attempt /\ p.outcome[t] # NoResult
        THEN p.outcome[t]
        ELSE results[t][r][a]]]]

\* insertTestResult: the first stored result of a test in an attempt stays.
Stored(p) ==
    [t \in Tests |-> [r \in Runs |-> [a \in Attempts |->
        IF r = p.run /\ a = p.attempt /\ results[t][r][a] = NoResult
        THEN p.outcome[t]
        ELSE results[t][r][a]]]]

\* The ingestion transaction.  Uploads of one run are serialized by the row
\* lock of upsertCIRun and the others touch disjoint result rows, so the whole
\* transaction takes effect at its commit.
PersistIngestion(u) ==
    /\ pc[u] = "persist"
    /\ results' = Stored(payload[u])
    /\ pc' = [pc EXCEPT ![u] = "detect"]
    /\ UNCHANGED <<events, stats, payload, txVars, outcome, created, slackVars, faults>>

-----------------------------------------------------------------------------
(* The detection transaction *)

\* DetectFlakes begins and reads the attempts of its run in one statement.
ReadAttempts(u) ==
    /\ pc[u] = "detect"
    /\ todo' = [todo EXCEPT ![u] = PatternsIn(payload[u].run)]
    /\ pc' = [pc EXCEPT ![u] = "scan"]
    /\ UNCHANGED <<dbVars, payload, cur, own, ownStats, aborted, total, mixed,
                   outcome, created, slackVars, faults>>

\* The loop body for the next test; Go iterates over a map in any order.
NextTest(u) ==
    /\ pc[u] = "scan"
    /\ \E e \in todo[u] :
         /\ cur' = [cur EXCEPT ![u] = e]
         /\ todo' = [todo EXCEPT ![u] = @ \ {e}]
    /\ pc' = [pc EXCEPT ![u] = "insert"]
    /\ UNCHANGED <<dbVars, payload, own, ownStats, aborted, total, mixed,
                   outcome, created, slackVars, faults>>

\* What COMMIT makes visible of the statistics
CommittedStats(u) ==
    [t \in Tests |-> IF ownStats[u][t] # NoStats THEN ownStats[u][t] ELSE stats[t]]

\* The detection ends: its transaction is gone with what it wrote.
EndDetection(u, how) ==
    /\ pc' = [pc EXCEPT ![u] = "done"]
    /\ outcome' = [outcome EXCEPT ![u] = how]
    /\ todo' = [todo EXCEPT ![u] = {}]
    /\ own' = [own EXCEPT ![u] = {}]
    /\ ownStats' = [ownStats EXCEPT ![u] = [t \in Tests |-> NoStats]]
    /\ cur' = [cur EXCEPT ![u] = NoEvent]
    /\ aborted' = [aborted EXCEPT ![u] = FALSE]
    /\ total' = [total EXCEPT ![u] = 0]
    /\ mixed' = [mixed EXCEPT ![u] = 0]
    /\ UNCHANGED payload

\* A bug: the events of a detection that failed are counted as created.
CountFailedDetection(u, how) ==
    /\ EndDetection(u, how)
    /\ created' = [created EXCEPT ![u] = own[u]]
    /\ UNCHANGED <<dbVars, slackVars, faults>>

\* A bug: UpdateStats runs on the pool, its rows survive the rollback.
KeepFailedStats(u, how) ==
    /\ EndDetection(u, how)
    /\ stats' = CommittedStats(u)
    /\ UNCHANGED <<results, events, created, slackVars, faults>>

\* DetectFlakes returns an error: rolled back, logged, counted as no events.
FailDetection(u, how) ==
    /\ EndDetection(u, how)
    /\ UNCHANGED <<dbVars, created, slackVars, faults>>

\* insertFlakeEvent with UNIQUE (test_case_id, ci_run_id).
InsertEvent(u) ==
    /\ pc[u] = "insert"
    /\ ~aborted[u]
    /\ Blockers(u) = {}
    /\ \A e \in events \cup own[u] : ~SameKey(e, cur[u])
    /\ own' = [own EXCEPT ![u] = @ \cup {cur[u]}]
    /\ pc' = [pc EXCEPT ![u] = "countTotal"]
    /\ UNCHANGED <<dbVars, payload, todo, cur, ownStats, aborted, total, mixed,
                   outcome, created, slackVars, faults>>

\* The event exists: error 23505, which the loop skips with `continue`.
DuplicateEvent(u) ==
    /\ pc[u] = "insert"
    /\ ~aborted[u]
    /\ Blockers(u) = {}
    /\ \E e \in events \cup own[u] : SameKey(e, cur[u])
    /\ aborted' = [aborted EXCEPT ![u] = TRUE]
    /\ cur' = [cur EXCEPT ![u] = NoEvent]
    /\ pc' = [pc EXCEPT ![u] = "scan"]
    /\ UNCHANGED <<dbVars, payload, todo, own, ownStats, total, mixed,
                   outcome, created, slackVars, faults>>

\* Any further INSERT of a dead transaction: error 25P02, which is returned.
InsertInAborted(u) ==
    /\ pc[u] = "insert"
    /\ aborted[u]
    /\ FailDetection(u, "aborted")

CountTotalRuns(u) ==
    /\ pc[u] = "countTotal"
    /\ total' = [total EXCEPT ![u] = Cardinality(RunsSeen(cur[u].test))]
    /\ pc' = [pc EXCEPT ![u] = "countMixed"]
    /\ UNCHANGED <<dbVars, payload, todo, cur, own, ownStats, aborted, mixed,
                   outcome, created, slackVars, faults>>

CountMixedOutcomeRuns(u) ==
    /\ pc[u] = "countMixed"
    /\ mixed' = [mixed EXCEPT ![u] =
                    Cardinality(MixedRuns(cur[u].test, events \cup own[u]))]
    /\ pc' = [pc EXCEPT ![u] = "upsert"]
    /\ UNCHANGED <<dbVars, payload, todo, cur, own, ownStats, aborted, total,
                   outcome, created, slackVars, faults>>

\* A bug: the row is incremented.
IncrementStats(u) ==
    /\ pc[u] = "upsert"
    /\ mixed[u] <= total[u]
    /\ Blockers(u) = {}
    /\ ownStats' = [ownStats EXCEPT ![u][cur[u].test] =
                       [mixed |-> stats[cur[u].test].mixed + 1, total |-> total[u]]]
    /\ cur' = [cur EXCEPT ![u] = NoEvent]
    /\ total' = [total EXCEPT ![u] = 0]
    /\ mixed' = [mixed EXCEPT ![u] = 0]
    /\ pc' = [pc EXCEPT ![u] = "scan"]
    /\ UNCHANGED <<dbVars, payload, todo, own, aborted,
                   outcome, created, slackVars, faults>>

\* A bug: the row is written outside the transaction.
UpsertStatsOnPool(u) ==
    /\ pc[u] = "upsert"
    /\ mixed[u] <= total[u]
    /\ stats' = [stats EXCEPT ![cur[u].test] = [mixed |-> mixed[u], total |-> total[u]]]
    /\ cur' = [cur EXCEPT ![u] = NoEvent]
    /\ total' = [total EXCEPT ![u] = 0]
    /\ mixed' = [mixed EXCEPT ![u] = 0]
    /\ pc' = [pc EXCEPT ![u] = "scan"]
    /\ UNCHANGED <<results, events, payload, todo, own, ownStats, aborted,
                   outcome, created, slackVars, faults>>

\* The upsert of flake_stats overwrites the row with the counts read before.
UpsertStats(u) ==
    /\ pc[u] = "upsert"
    /\ mixed[u] <= total[u]
    /\ Blockers(u) = {}
    /\ ownStats' = [ownStats EXCEPT ![u][cur[u].test] =
                       [mixed |-> mixed[u], total |-> total[u]]]
    /\ cur' = [cur EXCEPT ![u] = NoEvent]
    /\ total' = [total EXCEPT ![u] = 0]
    /\ mixed' = [mixed EXCEPT ![u] = 0]
    /\ pc' = [pc EXCEPT ![u] = "scan"]
    /\ UNCHANGED <<dbVars, payload, todo, own, aborted,
                   outcome, created, slackVars, faults>>

\* CHECK flake_score_range refuses a score above 1.
ScoreRejected(u) ==
    /\ pc[u] = "upsert"
    /\ mixed[u] > total[u]
    /\ FailDetection(u, "score")

\* PostgreSQL ends a deadlock by failing the statement of one member.
DeadlockVictim(u) ==
    /\ pc[u] \in {"insert", "upsert"}
    /\ Deadlocked(u)
    /\ FailDetection(u, "deadlock")

\* A bug: DetectFlakes returns without COMMIT or ROLLBACK.
LeaveOpen(u) ==
    /\ pc[u] = "scan"
    /\ todo[u] = {}
    /\ ~aborted[u]
    /\ pc' = [pc EXCEPT ![u] = "done"]
    /\ outcome' = [outcome EXCEPT ![u] = "ok"]
    /\ UNCHANGED <<dbVars, txVars, payload, created, slackVars, faults>>

\* The loop is over: COMMIT, one goroutine per new event, and the 202.
CommitDetection(u) ==
    /\ pc[u] = "scan"
    /\ todo[u] = {}
    /\ ~aborted[u]
    /\ events' = events \cup own[u]
    /\ stats' = CommittedStats(u)
    /\ created' = [created EXCEPT ![u] = own[u]]
    /\ outbox' = outbox \cup own[u]
    /\ EndDetection(u, "ok")
    /\ UNCHANGED <<results, posts, faults>>

\* A bug: the error of COMMIT is not looked at.
IgnoreCommitAborted(u) ==
    /\ pc[u] = "scan"
    /\ todo[u] = {}
    /\ aborted[u]
    /\ FailDetection(u, "ok")

\* COMMIT of a dead transaction rolls back, and pgx reports it as an error.
CommitAborted(u) ==
    /\ pc[u] = "scan"
    /\ todo[u] = {}
    /\ aborted[u]
    /\ FailDetection(u, "aborted")

-----------------------------------------------------------------------------
(* Notifications *)

\* A bug: a message whose answer is lost is sent again.
NotifySlackAgain(e) ==
    /\ e \in outbox
    /\ posts[e.test][e.run] <= 1
    /\ outbox' \in {outbox, outbox \ {e}}
    /\ posts' = [posts EXCEPT ![e.test][e.run] = @ + 1]
    /\ UNCHANGED <<dbVars, pc, payload, txVars, outcome, created, faults>>

\* PostFlakeNotification arrives or does not.
Posted(e) == {posts, [posts EXCEPT ![e.test][e.run] = @ + 1]}

\* notifySlackAsync: one attempt, dropped when Slack is off or does not answer.
NotifySlack(e) ==
    /\ e \in outbox
    /\ outbox' = outbox \ {e}
    /\ posts' \in Posted(e)
    /\ UNCHANGED <<dbVars, pc, payload, txVars, outcome, created, faults>>

-----------------------------------------------------------------------------
(* Faults *)

\* The request context is cancelled (the client left), the database connection
\* is lost or the ingestion is a deadlock victim: the open transaction rolls back.
CancelRequest(u) ==
    /\ faults < MaxFaults
    /\ pc[u] \in Active
    /\ EndDetection(u, "cancelled")
    /\ faults' = faults + 1
    /\ UNCHANGED <<dbVars, created, slackVars>>

\* The same at a COMMIT whose answer never arrives: PostgreSQL committed, the
\* program takes it for a failure and stops there.
LoseCommitAnswer(u) ==
    /\ faults < MaxFaults
    /\ \/ /\ pc[u] = "persist"
          /\ results' = Stored(payload[u])
          /\ UNCHANGED <<events, stats>>
       \/ /\ pc[u] = "scan" /\ todo[u] = {} /\ ~aborted[u]
          /\ events' = events \cup own[u]
          /\ stats' = CommittedStats(u)
          /\ UNCHANGED results
    /\ EndDetection(u, "cancelled")
    /\ faults' = faults + 1
    /\ UNCHANGED <<created, slackVars>>

\* The server process dies: requests and goroutines are gone, the database stays.
ServerCrash ==
    /\ faults < MaxFaults
    /\ faults' = faults + 1
    /\ pc' = [u \in Uploads |-> IF pc[u] \in Active THEN "done" ELSE pc[u]]
    /\ outcome' = [u \in Uploads |-> IF pc[u] \in Active THEN "crashed" ELSE outcome[u]]
    /\ todo' = [u \in Uploads |-> {}]
    /\ cur' = [u \in Uploads |-> NoEvent]
    /\ own' = [u \in Uploads |-> {}]
    /\ ownStats' = [u \in Uploads |-> [t \in Tests |-> NoStats]]
    /\ aborted' = [u \in Uploads |-> FALSE]
    /\ total' = [u \in Uploads |-> 0]
    /\ mixed' = [u \in Uploads |-> 0]
    /\ outbox' = {}
    /\ UNCHANGED <<dbVars, payload, created, posts>>

-----------------------------------------------------------------------------
Step(u) ==
    \/ PersistIngestion(u)
    \/ ReadAttempts(u)
    \/ NextTest(u)
    \/ InsertEvent(u)
    \/ DuplicateEvent(u)
    \/ InsertInAborted(u)
    \/ CountTotalRuns(u)
    \/ CountMixedOutcomeRuns(u)
    \/ UpsertStats(u)
    \/ ScoreRejected(u)
    \/ DeadlockVictim(u)
    \/ CommitDetection(u)
    \/ CommitAborted(u)

Next ==
    \/ \E u \in Uploads : Receive(u) \/ Step(u) \/ CancelRequest(u) \/ LoseCommitAnswer(u)
    \/ \E e \in Event : NotifySlack(e)
    \/ ServerCrash

Spec == Init /\ [][Next]_vars

\* A received request keeps running, and PostgreSQL breaks its deadlocks.
Fairness == \A u \in Uploads : WF_vars(Step(u))

FairSpec == Spec /\ Fairness
-----------------------------------------------------------------------------
(* Properties *)

\* Every variable has its type.
TypeOK ==
    /\ results \in [Tests -> [Runs -> History]]
    /\ events \in SUBSET Event
    /\ stats \in [Tests -> Stats]
    /\ pc \in [Uploads -> {"idle", "done"} \cup Active]
    /\ payload \in [Uploads -> Payloads \cup {NoPayload}]
    /\ todo \in [Uploads -> SUBSET Event]
    /\ cur \in [Uploads -> Event \cup {NoEvent}]
    /\ own \in [Uploads -> SUBSET Event]
    /\ ownStats \in [Uploads -> [Tests -> Stats]]
    /\ aborted \in [Uploads -> BOOLEAN]
    /\ total \in [Uploads -> Nat]
    /\ mixed \in [Uploads -> Nat]
    /\ outcome \in [Uploads -> Outcomes]
    /\ created \in [Uploads -> SUBSET Event]
    /\ outbox \in SUBSET Event
    /\ posts \in [Tests -> [Runs -> Nat]]
    /\ faults \in 0..MaxFaults

\* Whatever has been stored of a test in a run, in whatever order: the scan of
\* detectFlakePattern, which stops at the first pair it meets, finds a flake exactly
\* when some attempt failed and a later one passed, and reports the earliest failure
\* with the earliest pass behind it (detector.go:185-214).
PatternMatchesDefinition == \A t \in Tests, r \in Runs : PatternMatches(results[t][r])

\* A run that was flaky stays flaky, and results that arrive late only move the
\* reported failure to an earlier attempt: a recorded event can become too late, never
\* unjustified.
LateResultsKeepFlake ==
    [][results' # results =>
          \A t \in Tests, r \in Runs : FlakeDetected(results[t][r]) =>
              /\ FlakeDetected(results'[t][r])
              /\ DetectFlakePattern(results'[t][r]).failed
                    <= DetectFlakePattern(results[t][r]).failed]_results

Justified(e) ==
    /\ e.failed < e.passed
    /\ IsFailed(results[e.test][e.run][e.failed])
    /\ IsPassed(results[e.test][e.run][e.passed])

\* Every flake event names two attempts of its run whose stored results are a
\* failure and a later pass of that test, although the event is committed long
\* after the results were read and other uploads have stored more since.
EventsJustified == \A e \in events : Justified(e)

\* However many requests detect the same flake at the same time, a test has at
\* most one event in a run (flake_events_unique_test_case_run).
OneEventPerRun == \A e, f \in events : SameKey(e, f) => e = f

\* The committed statistics of a test claim no run that is not there: never more
\* flaky runs than it has committed events, never more runs than it has results
\* in, and a score of at most 1, whatever detections commit or roll back around.
StatsBacked ==
    \A t \in Tests :
        /\ stats[t].mixed <= Cardinality(MixedRuns(t, events))
        /\ stats[t].total <= Cardinality(RunsSeen(t))
        /\ stats[t].mixed <= stats[t].total

\* flake_events_created never counts an event that is not in the database, and
\* no event is counted in two responses.
CreatedOnce ==
    \A u \in Uploads :
        /\ created[u] \subseteq events
        /\ \A v \in Uploads \ {u} : created[u] \cap created[v] = {}

\* Slack hears of a test's flake in a run at most once, and only of an event that
\* is committed: no message from a detection that rolled back, none for a repeat.
NotifiedOnce ==
    \A t \in Tests, r \in Runs :
        /\ posts[t][r] <= 1
        /\ posts[t][r] = 1 => \E e \in events \ outbox : e.test = t /\ e.run = r

\* To a reader of its tables the system is the ledger: whatever requests do to
\* each other, every step stores results where there were none, records a batch of
\* new and backed events, or changes neither.
Ledger == INSTANCE FlakeLedger
ImplementsLedger == Ledger!Spec

Ended(u) == pc[u] = "done"
UploadsOf(run) == {u \in Uploads : pc[u] # "idle" /\ payload[u].run = run}

\* No fail-then-pass test of a run is missed once all uploads of the run have
\* ended without an error, in whatever order their attempts arrived: the one
\* that commits its results last reads the results of all the others.
NoFlakeMissed ==
    \A r \in Runs :
        (\A u \in UploadsOf(r) : Ended(u) /\ outcome[u] = "ok") =>
            \A t \in Tests : FlakeDetected(results[t][r]) =>
                \E e \in events : e.test = t /\ e.run = r

\* Every received upload is answered (or its server is gone): row locks, unique
\* keys and deadlocks never keep a request waiting for ever.
Answered == \A u \in Uploads : pc[u] = "persist" ~> Ended(u)

\* A request goes on by itself: it waits for nobody, or PostgreSQL fails it.
Proceeds(u) == pc[u] \in Active /\ (Blockers(u) = {} \/ Deadlocked(u))

\* In whatever order detections write the events and statistics of their tests, none
\* is left waiting: follow who waits for whom from any request, and there is one that
\* goes on.
WaitsEnd ==
    \A W \in SUBSET Uploads :
        /\ \E u \in W : pc[u] \in Active
        /\ \A u \in W : Blockers(u) \subseteq W
        => \E u \in W : Proceeds(u)

-----------------------------------------------------------------------------
(* Why the safety properties hold: the inductive invariant *)

\* A request has a report, a detection that handles a pattern has it in cur (and,
\* once inserted, in own), and only an open detection has patterns and events.
LocalsOK ==
    \A u \in Uploads :
        /\ pc[u] # "idle" => payload[u] \in Payloads
        /\ pc[u] \in Handling => cur[u] \in Event
        /\ pc[u] \in Handling \ {"insert"} => cur[u] \in own[u]
        /\ pc[u] \notin InDetection => todo[u] = {} /\ own[u] = {}

\* The patterns a detection has read and is still to commit.
Candidates(u) == todo[u] \cup own[u] \cup (IF pc[u] \in Handling THEN {cur[u]} ELSE {})

\* What a detection read stays true while it works: results are never replaced.
CandidatesJustified ==
    \A u \in Uploads : \A e \in Candidates(u) : Justified(e) /\ e.run = payload[u].run

\* Uncommitted events never share a key with another event, committed or not.
KeysClaimed ==
    \A u \in Uploads : \A e \in own[u] :
        /\ \A f \in events : ~SameKey(e, f)
        /\ \A f \in own[u] : SameKey(e, f) => e = f
        /\ \A v \in Uploads \ {u} : \A f \in own[v] : ~SameKey(e, f)

\* A request that will still record the flake of t in r, or failed to.
Covers(u, t, r) ==
    /\ pc[u] # "idle" /\ payload[u].run = r
    /\ \/ pc[u] = "detect"
       \/ pc[u] \in InDetection /\ \E e \in Candidates(u) : e.test = t /\ e.run = r
       \/ pc[u] = "done" /\ outcome[u] # "ok"

\* Every flake in the stored results is recorded, or some request answers for it.
FlakesCovered ==
    \A t \in Tests, r \in Runs : FlakeDetected(results[t][r]) =>
        \/ \E e \in events : e.test = t /\ e.run = r
        \/ \E u \in Uploads : Covers(u, t, r)

DetectionInv ==
    /\ TypeOK
    /\ LocalsOK
    /\ EventsJustified
    /\ CandidatesJustified
    /\ OneEventPerRun
    /\ KeysClaimed
    /\ FlakesCovered

\* Counts that a detection has read, or written and not committed, never exceed
\* what its own view supports: events and results only accumulate while it works.
CountsBacked ==
    \A u \in Uploads :
        /\ pc[u] \in {"countMixed", "upsert"} =>
             total[u] <= Cardinality(RunsSeen(cur[u].test))
        /\ pc[u] = "upsert" =>
             mixed[u] <= Cardinality(MixedRuns(cur[u].test, events \cup own[u]))
        /\ \A t \in Tests :
             /\ ownStats[u][t].mixed <= Cardinality(MixedRuns(t, events \cup own[u]))
             /\ ownStats[u][t].total <= Cardinality(RunsSeen(t))
             /\ ownStats[u][t].mixed <= ownStats[u][t].total

\* Rows of flake_stats are held by open detections.
HoldersDetect ==
    \A u \in Uploads : pc[u] \notin InDetection => \A t \in Tests : ownStats[u][t] = NoStats

\* DetectionInv, and what it supports: only committed events are announced.
SystemInv ==
    /\ DetectionInv
    /\ CreatedOnce
    /\ outbox \subseteq events
    /\ NotifiedOnce
    /\ CountsBacked
    /\ StatsBacked

-----------------------------------------------------------------------------
(* What the code says of itself and does not keep *)

\* detector.go:98: "Log but don't fail on duplicate constraint violations
\* (idempotency)".
DuplicatesTolerated == \A u \in Uploads : outcome[u] # "aborted"

\* stats.go:109: mixed_outcome_runs "counts unique runs where this test had both
\* failures and passes", once no detection is under way.
StatsCountMixedRuns ==
    (\A u \in Uploads : pc[u] \in {"idle", "done"}) =>
        \A t \in Tests : stats[t].mixed = Cardinality(MixedRuns(t, events))

\* 0001_schema.sql:250, CHECK (flake_score >= 0 AND flake_score <= 1): the score
\* that UpdateStats is about to write is one.
ScoreInRange == \A u \in Uploads : pc[u] = "upsert" => mixed[u] <= total[u]
=============================================================================
