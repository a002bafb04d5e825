--------------------------- MODULE FlakeRetention ---------------------------
(***************************************************************************)
(* The retention job beside uploads and detections (retention/retention.go,*)
(* cmd/flakeguard/main.go).  The scheduler of each server runs it once a   *)
(* day: it clears the content of old JUnit files and then deletes old      *)
(* flake events, each with one statement, and gives up at the first error  *)
(* until the next day.  A deleted event can be detected again, when a late *)
(* attempt of its run is uploaded, and statistics are counted from the     *)
(* events that are left.                                                   *)
(***************************************************************************)
EXTENDS FlakeDetection

CONSTANTS Servers,       \* each with a scheduler of its own
          MaxJobFaults   \* bound on statements of the job that fail

ASSUME FlakeRetentionAssumption == MaxJobFaults \in Nat

VARIABLES
    aged,        \* events older than retentionEventsDays, 180 days
    expired,     \* a JUnit file older than retentionJunitDays, 30 days, has its content
    job,         \* the next step of a server's retention job
    jobFaults,   \* statements of the job that failed, at most MaxJobFaults
    deletions    \* history: how often a test in a run lost an old event

detectionVars == vars
jobVars == <<job, jobFaults>>
retentionVars == <<aged, expired, jobVars, deletions>>
allVars == <<detectionVars, retentionVars>>

RetentionInit ==
    /\ Init
    /\ aged = {}
    /\ expired = FALSE
    /\ job = [s \in Servers |-> "idle"]
    /\ jobFaults = 0
    /\ deletions = [t \in Tests |-> [r \in Runs |-> 0]]

-----------------------------------------------------------------------------
(* Time *)

\* Half a year passes: a goroutine's message has long ended by then.
AgeEvent(e) ==
    /\ e \in events \ (outbox \cup aged)
    /\ aged' = aged \cup {e}
    /\ UNCHANGED <<detectionVars, expired, jobVars, deletions>>

\* A month passes since a report was stored.
AgeFiles ==
    /\ \E t \in Tests : RunsSeen(t) # {}
    /\ expired' = TRUE
    /\ UNCHANGED <<detectionVars, aged, jobVars, deletions>>

-----------------------------------------------------------------------------
(* The job *)

\* A bug: the job runs once.
StartJobOnce(s) ==
    /\ job[s] = "idle"
    /\ jobFaults = 0
    /\ job' = [job EXCEPT ![s] = "clear"]
    /\ UNCHANGED <<detectionVars, aged, expired, jobFaults, deletions>>

\* setupRetentionCron: every day.
StartJob(s) ==
    /\ job[s] = "idle"
    /\ job' = [job EXCEPT ![s] = "clear"]
    /\ UNCHANGED <<detectionVars, aged, expired, jobFaults, deletions>>

ClearOldJunitContent(s) ==
    /\ job[s] = "clear"
    /\ expired' = FALSE
    /\ job' = [job EXCEPT ![s] = "delete"]
    /\ UNCHANGED <<detectionVars, aged, jobFaults, deletions>>

\* A bug: every event goes.
AllOld == events

\* What the DELETE finds
Old == aged

DeleteOldFlakeEvents(s) ==
    /\ job[s] = "delete"
    /\ events' = events \ Old
    /\ aged' = {}
    /\ deletions' = [t \in Tests |-> [r \in Runs |->
          IF \E e \in aged : e.test = t /\ e.run = r THEN deletions[t][r] + 1
                                                   ELSE deletions[t][r]]]
    /\ job' = [job EXCEPT ![s] = "idle"]
    /\ UNCHANGED <<results, stats, pc, payload, txVars, outcome, created, slackVars,
                   faults, expired, jobFaults>>

\* A statement fails: RunRetentionJob returns, whatever is left to do.
FailJob(s) ==
    /\ job[s] # "idle"
    /\ jobFaults < MaxJobFaults
    /\ job' = [job EXCEPT ![s] = "idle"]
    /\ jobFaults' = jobFaults + 1
    /\ UNCHANGED <<detectionVars, aged, expired, deletions>>

RunRetentionJob(s) == StartJob(s) \/ ClearOldJunitContent(s) \/ DeleteOldFlakeEvents(s)

\* The job goes with its server.
StopJobs ==
    /\ job' = [s \in Servers |-> "idle"]
    /\ UNCHANGED <<aged, expired, jobFaults, deletions>>

-----------------------------------------------------------------------------
Request(u) == Receive(u) \/ Step(u) \/ CancelRequest(u) \/ LoseCommitAnswer(u)

RetentionNext ==
    \/ \E u \in Uploads : Request(u) /\ UNCHANGED retentionVars
    \/ \E e \in Event : NotifySlack(e) /\ UNCHANGED retentionVars
    \/ ServerCrash /\ StopJobs
    \/ \E e \in Event : AgeEvent(e)
    \/ AgeFiles
    \/ \E s \in Servers : RunRetentionJob(s) \/ FailJob(s)

RetentionSpec == RetentionInit /\ [][RetentionNext]_allVars

\* Days pass, and a statement that does not fail ends, on some server at least: another
\* may hang in the middle of its job.
RetentionFairness == WF_allVars(\E s \in Servers : RunRetentionJob(s))

-----------------------------------------------------------------------------
(* Properties *)

\* A run in which the test's flake was recorded at some time
Recorded(t) ==
    {r \in Runs : deletions[t][r] > 0 \/ \E e \in events : e.test = t /\ e.run = r}

\* Slack hears of a flake at most once for each time it was recorded: again only after
\* its event grew old and was deleted, and a late attempt of the run brought it back.
NotifiedPerRecord ==
    \A t \in Tests, r \in Runs :
        /\ posts[t][r] <= deletions[t][r] + 1
        /\ posts[t][r] = deletions[t][r] + 1 =>
              \E e \in events \ outbox : e.test = t /\ e.run = r

\* The statistics that stay behind when events are deleted never claim a run in which
\* the flake was not recorded at some time, nor a score above 1.
StatsRecorded ==
    \A t \in Tests :
        /\ stats[t].mixed <= Cardinality(Recorded(t))
        /\ stats[t].total <= Cardinality(RunsSeen(t))
        /\ stats[t].mixed <= stats[t].total

\* No flake of a run whose uploads all ended well is missing, but for one whose event
\* was old and deleted.
MissingOnlyDeleted ==
    \A r \in Runs :
        (\A u \in UploadsOf(r) : Ended(u) /\ outcome[u] = "ok") =>
            \A t \in Tests : FlakeDetected(results[t][r]) => r \in Recorded(t)

\* To a reader of its tables the job only takes events away: it never touches a
\* result, and never leaves an event that two attempts do not bear out.
ForgetsEvents == Ledger!ForgetfulSpec

\* What is past its time goes in the end, although runs of the job fail, servers stop
\* in the middle of it and several servers run it at once, or all but one hang in it.
OldDataGoes ==
    /\ expired ~> ~expired
    /\ aged # {} ~> aged = {}

-----------------------------------------------------------------------------
(* Why the safety properties hold *)

RetentionTypeOK ==
    /\ TypeOK
    /\ aged \in SUBSET Event
    /\ expired \in BOOLEAN
    /\ job \in [Servers -> {"idle", "clear", "delete"}]
    /\ jobFaults \in 0 .. MaxJobFaults
    /\ deletions \in [Tests -> [Runs -> Nat]]

\* An event that is announced stays until it is told, and only such a one grows old.
AgedTold == outbox \subseteq events /\ aged \subseteq events \ outbox

FlakesAccounted ==
    \A t \in Tests, r \in Runs : FlakeDetected(results[t][r]) =>
        r \in Recorded(t) \/ \E u \in Uploads : Covers(u, t, r)

\* The runs that the counts of a detection may rest on
Known(u, t) == Recorded(t) \cup MixedRuns(t, own[u])

CountsRecorded ==
    \A u \in Uploads :
        /\ pc[u] \in {"countMixed", "upsert"} =>
             total[u] <= Cardinality(RunsSeen(cur[u].test))
        /\ pc[u] = "upsert" => mixed[u] <= Cardinality(Known(u, cur[u].test))
        /\ \A t \in Tests :
             /\ ownStats[u][t].mixed <= Cardinality(Known(u, t))
             /\ ownStats[u][t].total <= Cardinality(RunsSeen(t))
             /\ ownStats[u][t].mixed <= ownStats[u][t].total

RetentionInv ==
    /\ RetentionTypeOK
    /\ LocalsOK
    /\ EventsJustified
    /\ CandidatesJustified
    /\ OneEventPerRun
    /\ KeysClaimed
    /\ AgedTold
    /\ NotifiedPerRecord
    /\ FlakesAccounted
    /\ CountsRecorded
    /\ StatsRecorded
=============================================================================
