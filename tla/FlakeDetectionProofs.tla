------------------------ MODULE FlakeDetectionProofs ------------------------
(***************************************************************************)
(* The scan of FlakePattern, for every set of attempt numbers and every    *)
(* history over it; and FlakeDetection for every set of requests, tests,   *)
(* runs, attempts and reports: types, the inductive invariant              *)
(* DetectionInv, and what follows for events, answers, messages and        *)
(* statistics; and who waits for whom.                                     *)
(***************************************************************************)
EXTENDS FlakeDetection, FiniteLemmas

(* A nonempty set of attempt numbers has a least element, and Least is it: *)
(* the scans of detector.go:196-208, which go through rows in ascending    *)
(* order, stop at that element.                                            *)
LEMMA LeastInSet ==
    ASSUME NEW S, S \subseteq Nat, S # {}
    PROVE  Least(S) \in S /\ \A b \in S : Least(S) <= b
BY LeastNumber DEF Least

(* The scan of detector.go:185-214 reports a flake exactly when some       *)
(* failure is followed by a pass, and reports the earliest failure with    *)
(* the earliest pass behind it.                                            *)
THEOREM PatternCorrect ==
    ASSUME NEW h \in History
    PROVE  PatternMatches(h)
<1> DEFINE F == Failures(h)
           T == Stops(h)
           P(i) == PassesAfter(h, i)
<1>1. F \subseteq Nat /\ T \subseteq F /\ \A i \in F : P(i) \subseteq Nat
  BY AttemptsAssumption DEF Failures, Stops, PassesAfter
<1>2. FlakeDetected(h) <=> FlakyPairs(h) # {}
  <2>1. ASSUME FlakeDetected(h) PROVE FlakyPairs(h) # {}
    <3>1. PICK i \in T : TRUE
      BY <2>1 DEF FlakeDetected
    <3>2. PICK j \in P(i) : TRUE
      BY DEF Stops
    <3>3. <<i, j>> \in FlakyPairs(h)
      BY <1>1, <3>1, <3>2, AttemptsAssumption
      DEF FlakyPairs, Stops, Failures, PassesAfter
    <3>4. QED
      BY <3>3
  <2>2. ASSUME FlakyPairs(h) # {} PROVE FlakeDetected(h)
    <3>1. PICK p \in FlakyPairs(h) : TRUE
      BY <2>2
    <3>2. p[1] \in Rows(h) /\ p[2] \in Rows(h) /\ p[1] # p[2]
      BY AttemptsAssumption
      DEF FlakyPairs, Rows, IsFailed, IsPassed, NoResult
    <3>3. p[2] \in P(p[1]) /\ p[1] \in F
      BY AttemptsAssumption DEF FlakyPairs, PassesAfter, Failures
    <3>4. p[1] \in T
      BY <3>3 DEF Stops
    <3>5. QED
      BY <3>2, <3>4 DEF FlakeDetected
  <2>3. QED
    BY <2>1, <2>2
<1>3. ASSUME FlakeDetected(h)
      PROVE  /\ <<DetectFlakePattern(h).failed, DetectFlakePattern(h).passed>>
                  \in FlakyPairs(h)
             /\ \A p \in FlakyPairs(h) :
                  /\ DetectFlakePattern(h).failed <= p[1]
                  /\ DetectFlakePattern(h).failed = p[1] =>
                       DetectFlakePattern(h).passed <= p[2]
  <2> DEFINE f == Least(F)
             stop == Least(T)
             q == Least(P(stop))
  <2>1. T # {}
    BY <1>3 DEF FlakeDetected
  <2>2. stop \in T /\ \A b \in T : stop <= b
    BY <1>1, <2>1, LeastInSet
  <2>3. f \in F /\ \A b \in F : f <= b
    BY <1>1, <2>1, LeastInSet
  <2>4. P(stop) # {} /\ P(stop) \subseteq Nat
    BY <1>1, <2>2 DEF Stops
  <2>5. q \in P(stop) /\ \A b \in P(stop) : q <= b
    <3> HIDE DEF P, stop
    <3> QED
      BY <2>4, LeastInSet
  <2>6. DetectFlakePattern(h).failed = f /\ DetectFlakePattern(h).passed = q
    BY DEF DetectFlakePattern
  <2>7. f \in Nat /\ stop \in Nat /\ q \in Nat /\ f <= stop /\ stop < q
    BY <1>1, <2>2, <2>3, <2>4, <2>5 DEF PassesAfter
  <2>8. f \in Attempts /\ IsFailed(h[f]) /\ q \in Attempts /\ IsPassed(h[q])
    BY <2>3, <2>5 DEF Failures, PassesAfter
  <2>9. <<f, q>> \in FlakyPairs(h)
    <3> HIDE DEF f, stop, q
    <3> QED
      BY <2>7, <2>8 DEF FlakyPairs
  <2>10. ASSUME NEW p \in FlakyPairs(h)
        PROVE  f <= p[1] /\ (f = p[1] => q <= p[2])
    <3>1. p[1] \in F /\ p[1] \in Nat /\ p[2] \in Nat /\ p[2] \in P(p[1])
      BY AttemptsAssumption DEF FlakyPairs, Failures, PassesAfter
    <3>2. ASSUME f = p[1] PROVE q <= p[2]
      <4>1. f \in T
        BY <3>1, <3>2 DEF Stops
      <4>2. stop = f
        BY <2>2, <2>7, <4>1
      <4>3. QED
        BY <2>5, <3>1, <3>2, <4>2
    <3>3. QED
      BY <2>3, <3>1, <3>2
  <2>11. QED
    <3> HIDE DEF f, q
    <3> QED
      BY <2>6, <2>9, <2>10
<1>4. QED
  BY <1>2, <1>3 DEF PatternMatches

-----------------------------------------------------------------------------
(* The detection.                                                          *)

(* Counting finitely many runs gives a number (stats.go:94-121).           *)
LEMMA CountType ==
    ASSUME NEW S \in SUBSET Runs
    PROVE  IsFiniteSet(S) /\ Cardinality(S) \in Nat
BY FS_Subset, FS_CardinalityType, FlakeDetectionAssumption

(* The patterns a detection reads are events its results bear out          *)
(* (detector.go:69-92): the pair of attempts that PatternCorrect describes.*)
LEMMA PatternsJustified ==
    ASSUME TypeOK, NEW run \in Runs, NEW e \in PatternsIn(run)
    PROVE  e \in Event /\ Justified(e) /\ e.run = run
<1>1. PICK t \in Tests :
         /\ FlakeDetected(results[t][run])
         /\ e = [test |-> t, run |-> run,
                 failed |-> DetectFlakePattern(results[t][run]).failed,
                 passed |-> DetectFlakePattern(results[t][run]).passed]
  BY DEF PatternsIn
<1>2. results[t][run] \in History
  BY DEF TypeOK
<1>3. <<DetectFlakePattern(results[t][run]).failed,
        DetectFlakePattern(results[t][run]).passed>> \in FlakyPairs(results[t][run])
  BY <1>1, <1>2, PatternCorrect DEF PatternMatches
<1>4. QED
  BY <1>1, <1>3 DEF FlakyPairs, Justified, Event

(* Storing a report keeps the shape of the results table.                  *)
LEMMA StoredType ==
    ASSUME TypeOK, NEW p \in Payloads
    PROVE  Stored(p) \in [Tests -> [Runs -> History]]
<1>1. p.outcome \in [Tests -> Outcome]
  BY FlakeDetectionAssumption DEF Report
<1>2. ASSUME NEW t \in Tests, NEW r \in Runs PROVE results[t][r] \in [Attempts -> Outcome]
  BY DEF TypeOK, History
<1>3. QED
  BY <1>1, <1>2 DEF Stored, History

(* A commit of statistics keeps the shape of flake_stats.                  *)
LEMMA CommittedStatsType ==
    ASSUME TypeOK, NEW u \in Uploads
    PROVE  CommittedStats(u) \in [Tests -> Stats]
BY DEF TypeOK, CommittedStats

LEMMA InitTyped == Init => TypeOK /\ LocalsOK
BY FlakeDetectionAssumption
   DEF Init, TypeOK, LocalsOK, History, Outcome, Stats, NoStats, Outcomes, Active, InDetection, Handling

(* EndDetection leaves well-typed locals.                                  *)
LEMMA EndTyped ==
    ASSUME TypeOK, LocalsOK, NEW u \in Uploads, NEW how \in Outcomes,
           EndDetection(u, how), pc[u] # "idle"
    PROVE  /\ pc' \in [Uploads -> {"idle", "done"} \cup Active]
           /\ payload' \in [Uploads -> Payloads \cup {NoPayload}]
           /\ todo' \in [Uploads -> SUBSET Event]
           /\ cur' \in [Uploads -> Event \cup {NoEvent}]
           /\ own' \in [Uploads -> SUBSET Event]
           /\ ownStats' \in [Uploads -> [Tests -> Stats]]
           /\ aborted' \in [Uploads -> BOOLEAN]
           /\ total' \in [Uploads -> Nat]
           /\ mixed' \in [Uploads -> Nat]
           /\ outcome' \in [Uploads -> Outcomes]
           /\ LocalsOK'
BY DEF TypeOK, LocalsOK, EndDetection, Stats, NoStats, InDetection, Handling
(* Types and locals survive every step of every request (all actions).     *)
LEMMA StepTyped ==
    ASSUME TypeOK, LocalsOK, [Next]_vars
    PROVE  TypeOK' /\ LocalsOK'
<1> USE DEF dbVars, txVars, slackVars, Active, InDetection, Handling
<1>1. ASSUME NEW u \in Uploads, Receive(u) PROVE TypeOK' /\ LocalsOK'
  BY <1>1 DEF Receive, TypeOK, LocalsOK
<1>2. ASSUME NEW u \in Uploads, PersistIngestion(u) PROVE TypeOK' /\ LocalsOK'
  <2>1. results' \in [Tests -> [Runs -> History]]
    BY <1>2, StoredType DEF PersistIngestion, LocalsOK
  <2>2. QED
    BY <1>2, <2>1 DEF PersistIngestion, TypeOK, LocalsOK
<1>3. ASSUME NEW u \in Uploads, ReadAttempts(u) PROVE TypeOK' /\ LocalsOK'
  <2>1. payload[u].run \in Runs
    BY <1>3, FlakeDetectionAssumption DEF ReadAttempts, LocalsOK, Report
  <2>2. PatternsIn(payload[u].run) \subseteq Event
    BY <2>1, PatternsJustified
  <2>3. QED
    BY <1>3, <2>2 DEF ReadAttempts, TypeOK, LocalsOK
<1>4. ASSUME NEW u \in Uploads, NextTest(u) PROVE TypeOK' /\ LocalsOK'
  BY <1>4 DEF NextTest, TypeOK, LocalsOK
<1>5. ASSUME NEW u \in Uploads, InsertEvent(u) PROVE TypeOK' /\ LocalsOK'
  BY <1>5 DEF InsertEvent, TypeOK, LocalsOK
<1>6. ASSUME NEW u \in Uploads, DuplicateEvent(u) PROVE TypeOK' /\ LocalsOK'
  BY <1>6 DEF DuplicateEvent, TypeOK, LocalsOK
<1>7. ASSUME NEW u \in Uploads, NEW how \in DetectionFailures,
             FailDetection(u, how), pc[u] # "idle"
      PROVE  TypeOK' /\ LocalsOK'
  <2>1. how \in Outcomes
    BY DEF Outcomes
  <2>2. QED
    BY <1>7, <2>1, EndTyped DEF FailDetection, TypeOK
<1>8. ASSUME NEW u \in Uploads, CountTotalRuns(u) PROVE TypeOK' /\ LocalsOK'
  <2>1. Cardinality(RunsSeen(cur[u].test)) \in Nat
    BY CountType DEF RunsSeen
  <2>2. QED
    BY <1>8, <2>1 DEF CountTotalRuns, TypeOK, LocalsOK
<1>9. ASSUME NEW u \in Uploads, CountMixedOutcomeRuns(u) PROVE TypeOK' /\ LocalsOK'
  <2>1. Cardinality(MixedRuns(cur[u].test, events \cup own[u])) \in Nat
    BY CountType DEF MixedRuns
  <2>2. QED
    BY <1>9, <2>1 DEF CountMixedOutcomeRuns, TypeOK, LocalsOK
<1>10. ASSUME NEW u \in Uploads, UpsertStats(u) PROVE TypeOK' /\ LocalsOK'
  <2>1. cur[u].test \in Tests
    BY <1>10 DEF UpsertStats, LocalsOK, Event
  <2>2. [mixed |-> mixed[u], total |-> total[u]] \in Stats
    BY DEF TypeOK, Stats
  <2>3. QED
    BY <1>10, <2>1, <2>2 DEF UpsertStats, TypeOK, LocalsOK
<1>11. ASSUME NEW u \in Uploads, CommitDetection(u) PROVE TypeOK' /\ LocalsOK'
  <2>1. "ok" \in Outcomes /\ pc[u] # "idle"
    BY <1>11 DEF Outcomes, CommitDetection
  <2>2. QED
    BY <1>11, <2>1, EndTyped, CommittedStatsType DEF CommitDetection, TypeOK
<1>12. ASSUME NEW e \in Event, NotifySlack(e) PROVE TypeOK' /\ LocalsOK'
  <2>1. e.test \in Tests /\ e.run \in Runs
    BY DEF Event
  <2>2. posts' \in [Tests -> [Runs -> Nat]]
    <3>1. posts[e.test][e.run] + 1 \in Nat /\ posts[e.test] \in [Runs -> Nat]
      BY <2>1 DEF TypeOK
    <3>2. [posts[e.test] EXCEPT ![e.run] = posts[e.test][e.run] + 1] \in [Runs -> Nat]
      BY <2>1, <3>1
    <3>3. [posts EXCEPT ![e.test][e.run] = @ + 1] \in [Tests -> [Runs -> Nat]]
      BY <2>1, <3>2 DEF TypeOK
    <3>4. QED
      BY <1>12, <3>3 DEF NotifySlack, Posted, TypeOK
  <2>3. QED
    BY <1>12, <2>2 DEF NotifySlack, Posted, TypeOK, LocalsOK
<1>13. ASSUME NEW u \in Uploads, CancelRequest(u) PROVE TypeOK' /\ LocalsOK'
  <2>1. "cancelled" \in Outcomes /\ pc[u] # "idle"
    BY <1>13 DEF Outcomes, CancelRequest
  <2>2. faults' \in 0..MaxFaults
    BY <1>13, FlakeDetectionAssumption DEF CancelRequest, TypeOK
  <2>3. QED
    BY <1>13, <2>1, <2>2, EndTyped DEF CancelRequest, TypeOK
<1>14. ASSUME NEW u \in Uploads, LoseCommitAnswer(u) PROVE TypeOK' /\ LocalsOK'
  <2>1. "cancelled" \in Outcomes /\ pc[u] # "idle"
    BY <1>14 DEF Outcomes, LoseCommitAnswer
  <2>2. faults' \in 0..MaxFaults
    BY <1>14, FlakeDetectionAssumption DEF LoseCommitAnswer, TypeOK
  <2>3. /\ results' \in [Tests -> [Runs -> History]]
        /\ events' \in SUBSET Event
        /\ stats' \in [Tests -> Stats]
    BY <1>14, <2>1, StoredType, CommittedStatsType DEF LoseCommitAnswer, TypeOK, LocalsOK
  <2>4. QED
    BY <1>14, <2>1, <2>2, <2>3, EndTyped DEF LoseCommitAnswer, TypeOK
<1>15. ASSUME ServerCrash PROVE TypeOK' /\ LocalsOK'
  <2>1. faults' \in 0..MaxFaults
    BY <1>15, FlakeDetectionAssumption DEF ServerCrash, TypeOK
  <2>2. QED
    BY <1>15, <2>1 DEF ServerCrash, TypeOK, LocalsOK, Outcomes, Stats, NoStats
<1>16. ASSUME UNCHANGED vars PROVE TypeOK' /\ LocalsOK'
  BY <1>16 DEF vars, TypeOK, LocalsOK
<1>17. QED
  <2>1. ASSUME NEW u \in Uploads, Step(u) PROVE TypeOK' /\ LocalsOK'
    BY <2>1, <1>2, <1>3, <1>4, <1>5, <1>6, <1>7, <1>8, <1>9, <1>10, <1>11
    DEF Step, InsertInAborted, ScoreRejected, DeadlockVictim, CommitAborted, DetectionFailures
  <2>2. QED
    BY <2>1, <1>1, <1>12, <1>13, <1>14, <1>15, <1>16 DEF Next

(* Types are right in every reachable state.                               *)
THEOREM TypeCorrect == Spec => [](TypeOK /\ LocalsOK)
<1>1. TypeOK /\ LocalsOK /\ [Next]_vars => TypeOK' /\ LocalsOK'
  BY StepTyped
<1>2. QED
  BY <1>1, InitTyped, PTL DEF Spec
-----------------------------------------------------------------------------
(* What a step does to results, events and candidates *)

(* A stored result is never replaced (insertTestResult).                   *)
LEMMA ResultsKept ==
    ASSUME TypeOK, LocalsOK, [Next]_vars,
           NEW t \in Tests, NEW r \in Runs, NEW a \in Attempts, results[t][r][a] # NoResult
    PROVE  results'[t][r][a] = results[t][r][a]
<1>1. ASSUME NEW p, results' = Stored(p) PROVE results'[t][r][a] = results[t][r][a]
  BY <1>1 DEF Stored
<1>2. results' = results \/ \E p : results' = Stored(p)
  BY DEF Next, Step, Receive, PersistIngestion, ReadAttempts, NextTest, InsertEvent,
         DuplicateEvent, InsertInAborted, CountTotalRuns, CountMixedOutcomeRuns, UpsertStats,
         ScoreRejected, DeadlockVictim, CommitDetection, CommitAborted, NotifySlack,
         CancelRequest, LoseCommitAnswer, ServerCrash, FailDetection, vars, dbVars
<1>3. QED
  BY <1>1, <1>2

(* So what an event claims stays true.                                     *)
LEMMA JustifiedStable ==
    ASSUME TypeOK, LocalsOK, [Next]_vars, NEW e \in Event, Justified(e)
    PROVE  Justified(e)'
BY ResultsKept DEF Justified, Event, IsFailed, IsPassed, NoResult

(* Events are added by commits only, which publish what one request owns,  *)
(* and none is removed.                                                    *)
LEMMA EventsStep ==
    ASSUME TypeOK, [Next]_vars
    PROVE  \/ events' = events
           \/ \E u \in Uploads : /\ events' = events \cup own[u]
                                 /\ pc[u] = "scan" /\ todo[u] = {} /\ pc'[u] = "done"
                                 /\ \E how \in Outcomes : EndDetection(u, how)
<1>1. "ok" \in Outcomes /\ "cancelled" \in Outcomes
  BY DEF Outcomes
<1>2. ASSUME NEW u \in Uploads, CommitDetection(u) \/ LoseCommitAnswer(u)
      PROVE  \/ events' = events
             \/ /\ events' = events \cup own[u]
                /\ pc[u] = "scan" /\ todo[u] = {} /\ pc'[u] = "done"
                /\ \E how \in Outcomes : EndDetection(u, how)
  <2>1. ASSUME NEW how, EndDetection(u, how) PROVE pc'[u] = "done"
    BY <2>1 DEF EndDetection, TypeOK
  <2>2. QED
    BY <1>1, <1>2, <2>1 DEF CommitDetection, LoseCommitAnswer, dbVars
<1>3. QED
  BY <1>2
  DEF Next, Step, Receive, PersistIngestion, ReadAttempts, NextTest, InsertEvent,
      DuplicateEvent, InsertInAborted, CountTotalRuns, CountMixedOutcomeRuns, UpsertStats,
      ScoreRejected, DeadlockVictim, CommitAborted, NotifySlack,
      CancelRequest, ServerCrash, FailDetection, vars, dbVars
(* A request's candidates are those it had, or what it has just read.      *)
LEMMA CandidatesStep ==
    ASSUME TypeOK, LocalsOK, [Next]_vars, NEW u \in Uploads
    PROVE  \/ ReadAttempts(u)
           \/ /\ Candidates(u)' \subseteq Candidates(u)
              /\ Candidates(u)' # {} => payload'[u] = payload[u]
<1> USE DEF Handling, InDetection, Active
<1> DEFINE Same(v) == /\ Candidates(v)' \subseteq Candidates(v)
                      /\ Candidates(v)' # {} => payload'[v] = payload[v]
<1>1. ASSUME NEW v \in Uploads, Step(v), ~ReadAttempts(u) PROVE Same(u)
  <2>1. ASSUME NEW how, EndDetection(v, how) PROVE Same(u)
    BY <2>1 DEF EndDetection, Candidates, TypeOK
  <2>2. CASE PersistIngestion(v)
    BY <2>2 DEF PersistIngestion, Candidates, TypeOK, txVars
  <2>3. CASE ReadAttempts(v)
    BY <1>1, <2>3 DEF ReadAttempts, Candidates, TypeOK
  <2>4. CASE NextTest(v)
    BY <2>4 DEF NextTest, Candidates, TypeOK
  <2>5. CASE InsertEvent(v) \/ DuplicateEvent(v)
    BY <2>5 DEF InsertEvent, DuplicateEvent, Candidates, TypeOK
  <2>6. CASE CountTotalRuns(v) \/ CountMixedOutcomeRuns(v) \/ UpsertStats(v)
    BY <2>6 DEF CountTotalRuns, CountMixedOutcomeRuns, UpsertStats, Candidates, TypeOK
  <2>7. QED
    BY <1>1, <2>1, <2>2, <2>3, <2>4, <2>5, <2>6
    DEF Step, InsertInAborted, ScoreRejected, DeadlockVictim, CommitDetection, CommitAborted,
        FailDetection
<1>2. ASSUME NEW v \in Uploads, Receive(v) PROVE Same(u)
  BY <1>2 DEF Receive, Candidates, TypeOK, LocalsOK, txVars
<1>3. ASSUME NEW v \in Uploads, CancelRequest(v) \/ LoseCommitAnswer(v) PROVE Same(u)
  BY <1>3 DEF CancelRequest, LoseCommitAnswer, EndDetection, Candidates, TypeOK
<1>4. ASSUME ServerCrash PROVE Same(u)
  BY <1>4 DEF ServerCrash, Candidates, TypeOK
<1>5. ASSUME NEW e \in Event, NotifySlack(e) PROVE Same(u)
  BY <1>5 DEF NotifySlack, Candidates, txVars
<1>6. ASSUME UNCHANGED vars PROVE Same(u)
  BY <1>6 DEF vars, Candidates, txVars
<1>7. QED
  BY <1>1, <1>2, <1>3, <1>4, <1>5, <1>6 DEF Next
(* Everything recorded or about to be recorded is backed by stored results *)
(* (detector.go:68-107): stale reads are harmless.                         *)
LEMMA JustifiedStep ==
    ASSUME TypeOK, LocalsOK, EventsJustified, CandidatesJustified, [Next]_vars
    PROVE  EventsJustified' /\ CandidatesJustified'
<1>1. ASSUME NEW u \in Uploads, NEW e \in Candidates(u)' 
      PROVE  e \in Event /\ Justified(e)' /\ e.run = payload'[u].run
  <2>1. CASE ReadAttempts(u)
    <3>1. payload[u].run \in Runs
      BY <2>1, FlakeDetectionAssumption DEF ReadAttempts, LocalsOK, Report
    <3>2. e \in PatternsIn(payload[u].run)
      BY <2>1 DEF ReadAttempts, Candidates, TypeOK, LocalsOK, InDetection, Handling
    <3>3. e \in Event /\ Justified(e) /\ e.run = payload[u].run
      BY <3>1, <3>2, PatternsJustified
    <3>4. QED
      BY <2>1, <3>3, JustifiedStable DEF ReadAttempts
  <2>2. CASE ~ReadAttempts(u)
    <3>1. e \in Candidates(u) /\ payload'[u] = payload[u]
      BY <2>2, CandidatesStep
    <3>2. e \in Event
      BY <3>1 DEF Candidates, TypeOK, LocalsOK
    <3>3. QED
      BY <3>1, <3>2, JustifiedStable DEF CandidatesJustified
  <2>3. QED
    BY <2>1, <2>2
<1>2. ASSUME NEW e \in events' PROVE Justified(e)'
  <2>1. e \in Event /\ Justified(e)
    BY EventsStep DEF EventsJustified, CandidatesJustified, Candidates, TypeOK
  <2>2. QED
    BY <2>1, JustifiedStable
<1>3. QED
  BY <1>1, <1>2 DEF EventsJustified, CandidatesJustified

(* Only InsertEvent adds to what a request owns.                           *)
LEMMA OwnStep ==
    ASSUME TypeOK, LocalsOK, [Next]_vars, NEW u \in Uploads
    PROVE  own'[u] \subseteq own[u] \/ InsertEvent(u)
<1>1. ASSUME NEW v \in Uploads, NEW how, EndDetection(v, how) PROVE own'[u] \subseteq own[u]
  BY <1>1 DEF EndDetection, TypeOK
<1>2. ASSUME NEW v \in Uploads, InsertEvent(v), v # u PROVE own'[u] = own[u]
  BY <1>2 DEF InsertEvent, TypeOK
<1>3. ASSUME ServerCrash PROVE own'[u] \subseteq own[u]
  BY <1>3 DEF ServerCrash
<1>4. QED
  BY <1>1, <1>2, <1>3
  DEF Next, Step, Receive, PersistIngestion, ReadAttempts, NextTest,
      DuplicateEvent, InsertInAborted, CountTotalRuns, CountMixedOutcomeRuns, UpsertStats,
      ScoreRejected, DeadlockVictim, CommitDetection, CommitAborted, NotifySlack,
      CancelRequest, LoseCommitAnswer, FailDetection, vars, txVars

(* Keys stay unique: an insert sees the committed events and its own, and  *)
(* waits for those of others (flake_events_unique_test_case_run).          *)
LEMMA KeysStep ==
    ASSUME TypeOK, LocalsOK, OneEventPerRun, KeysClaimed, [Next]_vars
    PROVE  OneEventPerRun' /\ KeysClaimed'
<1>1. OneEventPerRun'
  BY EventsStep DEF OneEventPerRun, KeysClaimed, SameKey
<1>2. CASE \E u \in Uploads : InsertEvent(u)
  <2>1. PICK u \in Uploads : InsertEvent(u)
    BY <1>2
  <2>2. /\ own'[u] = own[u] \cup {cur[u]}
        /\ \A v \in Uploads \ {u} : own'[v] = own[v]
        /\ events' = events
    BY <2>1 DEF InsertEvent, TypeOK, dbVars
  <2>3. \A v \in Uploads \ {u} : \A f \in own[v] : ~SameKey(f, cur[u])
    BY <2>1 DEF InsertEvent, Blockers
  <2>4. \A f \in events \cup own[u] : ~SameKey(f, cur[u])
    BY <2>1 DEF InsertEvent
  <2>5. QED
    BY <1>1, <2>2, <2>3, <2>4 DEF KeysClaimed, SameKey
<1>3. CASE ~\E u \in Uploads : InsertEvent(u)
  <2>1. \A v \in Uploads : own'[v] \subseteq own[v]
    BY <1>3, OwnStep
  <2>2. CASE events' = events
    BY <1>1, <2>1, <2>2 DEF KeysClaimed
  <2>3. ASSUME NEW u \in Uploads, NEW how, events' = events \cup own[u], EndDetection(u, how)
        PROVE  KeysClaimed'
    <3>1. own'[u] = {}
      BY <2>3 DEF EndDetection, TypeOK
    <3>2. QED
      BY <2>1, <2>3, <3>1 DEF KeysClaimed, SameKey
  <2>4. QED
    BY <1>1, <2>2, <2>3, EventsStep
<1>4. QED
  BY <1>1, <1>2, <1>3
(* A history changes only when a request stores results of that run, and   *)
(* that request has its detection before it, or lost the answer.           *)
LEMMA NewResultsCovered ==
    ASSUME TypeOK, LocalsOK, [Next]_vars, NEW t \in Tests, NEW r \in Runs,
           results'[t][r] # results[t][r]
    PROVE  \E u \in Uploads : Covers(u, t, r)'
<1>1. ASSUME NEW u \in Uploads, results' = Stored(payload[u]), pc[u] = "persist"
      PROVE  payload[u].run = r
  <2>1. results[t][r] = [a \in Attempts |-> results[t][r][a]]
    BY DEF TypeOK, History
  <2>2. QED
    BY <1>1, <2>1 DEF Stored
<1>2. \E u \in Uploads : PersistIngestion(u) \/ (LoseCommitAnswer(u) /\ pc[u] = "persist")
  BY DEF Next, Step, Receive, ReadAttempts, NextTest, InsertEvent,
         DuplicateEvent, InsertInAborted, CountTotalRuns, CountMixedOutcomeRuns, UpsertStats,
         ScoreRejected, DeadlockVictim, CommitDetection, CommitAborted, NotifySlack,
         CancelRequest, LoseCommitAnswer, ServerCrash, FailDetection, vars, dbVars
<1>3. PICK u \in Uploads : PersistIngestion(u) \/ (LoseCommitAnswer(u) /\ pc[u] = "persist")
  BY <1>2
<1>4. payload[u].run = r
  BY <1>1, <1>3 DEF PersistIngestion, LoseCommitAnswer
<1>5. CASE PersistIngestion(u)
  BY <1>4, <1>5 DEF PersistIngestion, Covers, TypeOK
<1>6. CASE LoseCommitAnswer(u)
  BY <1>4, <1>6 DEF LoseCommitAnswer, EndDetection, Covers, TypeOK
<1>7. QED
  BY <1>3, <1>5, <1>6

(* A request that answers for a flake keeps answering until the event is   *)
(* committed: nothing a detection has read drops out on any path but an    *)
(* existing event or an error.                                             *)
LEMMA CoversKept ==
    ASSUME TypeOK, LocalsOK, [Next]_vars, NEW t \in Tests, NEW r \in Runs,
           FlakeDetected(results[t][r]), NEW u \in Uploads, Covers(u, t, r)
    PROVE  \/ Covers(u, t, r)'
           \/ \E e \in events' : e.test = t /\ e.run = r
<1> USE DEF Handling, InDetection, Active
<1> DEFINE Goal == \/ Covers(u, t, r)'
                   \/ \E e \in events' : e.test = t /\ e.run = r
<1>1. ASSUME pc'[u] = pc[u], payload'[u] = payload[u], outcome'[u] = outcome[u],
             todo'[u] = todo[u], own'[u] = own[u], cur'[u] = cur[u]
      PROVE  Goal
  BY <1>1 DEF Covers, Candidates
<1>2. ASSUME NEW how \in Outcomes \ {"ok"}, EndDetection(u, how) PROVE Goal
  BY <1>2 DEF EndDetection, Covers, TypeOK
<1>3. ASSUME NEW v \in Uploads \ {u}, NEW how, EndDetection(v, how) PROVE Goal
  BY <1>1, <1>3 DEF EndDetection, TypeOK
<1>4. ASSUME NEW v \in Uploads \ {u}, Step(v) PROVE Goal
  BY <1>1, <1>3, <1>4
  DEF Step, PersistIngestion, ReadAttempts, NextTest, InsertEvent, DuplicateEvent,
      InsertInAborted, CountTotalRuns, CountMixedOutcomeRuns, UpsertStats, ScoreRejected,
      DeadlockVictim, CommitDetection, CommitAborted, FailDetection, TypeOK, txVars
<1>5. ASSUME Step(u) PROVE Goal
  <2>1. CASE ReadAttempts(u)
    <3> DEFINE pair == DetectFlakePattern(results[t][r])
               found == [test |-> t, run |-> r, failed |-> pair.failed, passed |-> pair.passed]
    <3>1. found \in PatternsIn(r) /\ found.test = t /\ found.run = r
      BY DEF PatternsIn
    <3> HIDE DEF found
    <3>2. QED
      BY <2>1, <3>1 DEF ReadAttempts, Covers, Candidates, TypeOK
  <2>2. CASE NextTest(u)
    BY <2>2 DEF NextTest, Covers, Candidates, TypeOK
  <2>3. CASE InsertEvent(u)
    BY <2>3 DEF InsertEvent, Covers, Candidates, TypeOK
  <2>4. CASE DuplicateEvent(u)
    <3>1. PICK e \in Candidates(u) : e.test = t /\ e.run = r
      BY <2>4 DEF DuplicateEvent, Covers
    <3>2. CASE e \in todo[u] \cup own[u]
      BY <2>4, <3>1, <3>2 DEF DuplicateEvent, Covers, Candidates, TypeOK
    <3>3. CASE e = cur[u]
      <4>1. PICK f \in events \cup own[u] : SameKey(f, cur[u])
        BY <2>4 DEF DuplicateEvent
      <4>2. f.test = t /\ f.run = r
        BY <3>1, <3>3, <4>1 DEF SameKey
      <4>3. QED
        BY <2>4, <4>1, <4>2 DEF DuplicateEvent, Covers, Candidates, TypeOK, dbVars
    <3>4. QED
      BY <3>1, <3>2, <3>3 DEF Candidates
  <2>5. CASE CountTotalRuns(u)
    BY <2>5 DEF CountTotalRuns, Covers, Candidates, TypeOK
  <2>6. CASE CountMixedOutcomeRuns(u)
    BY <2>6 DEF CountMixedOutcomeRuns, Covers, Candidates, TypeOK
  <2>7. CASE UpsertStats(u)
    BY <2>7 DEF UpsertStats, Covers, Candidates, LocalsOK, TypeOK
  <2>8. CASE CommitDetection(u)
    BY <2>8 DEF CommitDetection, Covers, Candidates
  <2>9. CASE \E how \in DetectionFailures : FailDetection(u, how)
    BY <1>2, <2>9 DEF FailDetection, DetectionFailures, Outcomes
  <2>10. QED
    BY <1>5, <2>1, <2>2, <2>3, <2>4, <2>5, <2>6, <2>7, <2>8, <2>9
    DEF Step, PersistIngestion, Covers, InsertInAborted, ScoreRejected, DeadlockVictim,
        CommitAborted, DetectionFailures
<1>6. ASSUME NEW v \in Uploads, Receive(v) PROVE Goal
  BY <1>1, <1>6 DEF Receive, Covers, TypeOK, txVars
<1>7. ASSUME NEW v \in Uploads, CancelRequest(v) \/ LoseCommitAnswer(v) PROVE Goal
  BY <1>2, <1>3, <1>7 DEF CancelRequest, LoseCommitAnswer, Outcomes
<1>8. ASSUME ServerCrash PROVE Goal
  BY <1>8 DEF ServerCrash, Covers, TypeOK
<1>9. ASSUME NEW e \in Event, NotifySlack(e) PROVE Goal
  BY <1>1, <1>9 DEF NotifySlack, txVars
<1>10. ASSUME UNCHANGED vars PROVE Goal
  BY <1>1, <1>10 DEF vars, txVars
<1>11. QED
  BY <1>4, <1>5, <1>6, <1>7, <1>8, <1>9, <1>10 DEF Next

(* No flake in the stored results is ever without an event or a request    *)
(* that answers for it.                                                    *)
LEMMA CoveredStep ==
    ASSUME TypeOK, LocalsOK, FlakesCovered, [Next]_vars
    PROVE  FlakesCovered'
<1> SUFFICES ASSUME NEW t \in Tests, NEW r \in Runs, FlakeDetected(results'[t][r])
             PROVE  \/ \E e \in events' : e.test = t /\ e.run = r
                    \/ \E u \in Uploads : Covers(u, t, r)'
  BY DEF FlakesCovered
<1>1. CASE results'[t][r] # results[t][r]
  BY <1>1, NewResultsCovered
<1>2. CASE results'[t][r] = results[t][r]
  <2>1. events \subseteq events'
    BY EventsStep
  <2>2. QED
    BY <1>2, <2>1, CoversKept DEF FlakesCovered
<1>3. QED
  BY <1>1, <1>2

-----------------------------------------------------------------------------
LEMMA InitDetectionInv == Init => DetectionInv
<1> SUFFICES ASSUME Init PROVE DetectionInv
  OBVIOUS
<1>1. ASSUME NEW t \in Tests, NEW r \in Runs PROVE ~FlakeDetected(results[t][r])
  BY DEF Init, FlakeDetected, Stops, Failures, IsFailed, NoResult
<1>2. QED
  BY <1>1, InitTyped
  DEF Init, DetectionInv, EventsJustified, CandidatesJustified, Candidates, Handling,
      OneEventPerRun, KeysClaimed, FlakesCovered

(* The inductive invariant holds in every reachable state.                 *)
THEOREM DetectionInvariant == Spec => []DetectionInv
<1>1. DetectionInv /\ [Next]_vars => DetectionInv'
  BY StepTyped, JustifiedStep, KeysStep, CoveredStep DEF DetectionInv
<1>2. QED
  BY <1>1, InitDetectionInv, PTL DEF Spec

(* Events name a stored failure and a later stored pass, and a test has at *)
(* most one in a run (detector.go:51-150).                                 *)
THEOREM EventsCorrect == Spec => [](EventsJustified /\ OneEventPerRun)
<1>1. DetectionInv => EventsJustified /\ OneEventPerRun
  BY DEF DetectionInv
<1>2. QED
  BY <1>1, DetectionInvariant, PTL

(* When all uploads of a run have ended without an error, every flaky test *)
(* of the run has its event, whatever their order and interleaving         *)
(* (persistence.go:104-121).                                               *)
THEOREM NoFlakeIsMissed == Spec => []NoFlakeMissed
<1>1. DetectionInv => NoFlakeMissed
  <2> SUFFICES ASSUME DetectionInv, NEW r \in Runs,
                      \A u \in UploadsOf(r) : Ended(u) /\ outcome[u] = "ok",
                      NEW t \in Tests, FlakeDetected(results[t][r])
               PROVE  \E e \in events : e.test = t /\ e.run = r
    BY DEF NoFlakeMissed
  <2>1. \A u \in Uploads : ~Covers(u, t, r)
    BY DEF Covers, UploadsOf, Ended, InDetection, Handling
  <2>2. QED
    BY <2>1 DEF DetectionInv, FlakesCovered
<1>2. QED
  BY <1>1, DetectionInvariant, PTL
-----------------------------------------------------------------------------
(* The scan is right on every stored history, and late results never       *)
(* unmake a flake.                                                         *)

(* Results that are added keep every failure that has a pass behind it.    *)
LEMMA PairsKept ==
    ASSUME TypeOK, LocalsOK, [Next]_vars, NEW t \in Tests, NEW r \in Runs
    PROVE  FlakyPairs(results[t][r]) \subseteq FlakyPairs(results'[t][r])
BY ResultsKept DEF FlakyPairs, IsFailed, IsPassed, NoResult

LEMMA TypedPatternsMatch == TypeOK => PatternMatchesDefinition
BY PatternCorrect DEF TypeOK, PatternMatchesDefinition

(* Whatever has been uploaded, the scan of detector.go:185-214 reports a   *)
(* flake exactly when some attempt failed and a later one passed, the      *)
(* earliest failure and the earliest pass behind it.                       *)
THEOREM PatternsCorrect == Spec => []PatternMatchesDefinition
BY TypedPatternsMatch, TypeCorrect, PTL

LEMMA LateStep ==
    ASSUME TypeOK, LocalsOK, TypeOK', [Next]_vars, NEW t \in Tests, NEW r \in Runs,
           FlakeDetected(results[t][r])
    PROVE  /\ FlakeDetected(results'[t][r])
           /\ DetectFlakePattern(results'[t][r]).failed <= DetectFlakePattern(results[t][r]).failed
<1> DEFINE p == <<DetectFlakePattern(results[t][r]).failed,
                  DetectFlakePattern(results[t][r]).passed>>
<1>1. PatternMatches(results[t][r]) /\ PatternMatches(results'[t][r])
  BY PatternCorrect DEF TypeOK
<1>2. p \in FlakyPairs(results'[t][r])
  BY <1>1, PairsKept DEF PatternMatches
<1>3. QED
  BY <1>1, <1>2 DEF PatternMatches

(* A test that is flaky in a run stays flaky whatever is uploaded later,   *)
(* and its reported failure only moves to an earlier attempt               *)
(* (persistence.go:203-286, detector.go:185-214).                          *)
THEOREM LateResultsHarmless == Spec => LateResultsKeepFlake
<1>1. TypeOK /\ LocalsOK /\ TypeOK' /\ [Next]_vars =>
        (results' # results =>
          \A t \in Tests, r \in Runs : FlakeDetected(results[t][r]) =>
            /\ FlakeDetected(results'[t][r])
            /\ DetectFlakePattern(results'[t][r]).failed
                  <= DetectFlakePattern(results[t][r]).failed)
  BY LateStep
<1>2. QED
  BY <1>1, TypeCorrect, PTL DEF Spec, LateResultsKeepFlake
-----------------------------------------------------------------------------
(* FlakeDetection implements FlakeLedger: seen through its tables, every   *)
(* step of every request, every failed transaction and every crash is a    *)
(* Store, a Record or nothing.                                             *)

(* Results are written by ingestion transactions alone, events by          *)
(* detection transactions alone.                                           *)
LEMMA TablesStep ==
    ASSUME TypeOK, LocalsOK, [Next]_vars
    PROVE  \/ UNCHANGED <<results, events>>
           \/ \E u \in Uploads : /\ payload[u] \in Payloads
                                 /\ results' = Stored(payload[u])
                                 /\ UNCHANGED events
           \/ \E u \in Uploads : /\ events' = events \cup own[u]
                                 /\ UNCHANGED results
BY DEF LocalsOK, Next, Step, Receive, PersistIngestion, ReadAttempts, NextTest, InsertEvent,
       DuplicateEvent, InsertInAborted, CountTotalRuns, CountMixedOutcomeRuns, UpsertStats,
       ScoreRejected, DeadlockVictim, CommitDetection, CommitAborted, NotifySlack,
       CancelRequest, LoseCommitAnswer, ServerCrash, FailDetection, vars, dbVars

(* Storing a report is the ledger's Store.                                 *)
LEMMA StoreRefines ==
    ASSUME TypeOK, TypeOK', NEW u \in Uploads, payload[u] \in Payloads,
           results' = Stored(payload[u]), UNCHANGED events
    PROVE  Ledger!Store
<1>1. payload[u].run \in Runs /\ payload[u].attempt \in Attempts
  BY FlakeDetectionAssumption DEF Report
<1>2. \A t \in Tests, r \in Runs, a \in Attempts :
        \/ results'[t][r][a] = results[t][r][a]
        \/ r = payload[u].run /\ a = payload[u].attempt /\ results[t][r][a] = NoResult
  BY DEF Stored
<1>3. results' \in [Tests -> [Runs -> History]]
  BY DEF TypeOK
<1>4. QED
  BY <1>1, <1>2, <1>3
  DEF Ledger!Store, Ledger!NoResult, NoResult, Ledger!History, History,
      Ledger!Outcome, Outcome, Ledger!Status, Status

(* Committing a detection's events is the ledger's Record.                 *)
LEMMA RecordRefines ==
    ASSUME CandidatesJustified, TypeOK', OneEventPerRun', NEW u \in Uploads,
           events' = events \cup own[u], UNCHANGED results
    PROVE  Ledger!Record
<1>1. \A e \in events' \ events : Ledger!Backed(e)
  BY DEF CandidatesJustified, Candidates, Justified, Ledger!Backed,
         Ledger!IsFailed, IsFailed, Ledger!IsPassed, IsPassed
<1>2. \A e, f \in events' : e # f => e.test # f.test \/ e.run # f.run
  BY DEF OneEventPerRun, SameKey
<1>3. events' \in SUBSET Ledger!Event
  BY DEF TypeOK, Event, Ledger!Event
<1>4. QED
  BY <1>1, <1>2, <1>3 DEF Ledger!Record

(* The program implements the ledger (ImplementsLedger): whatever requests *)
(* do to each other, a reader of test_results and flake_events sees first  *)
(* reports stay and whole batches of new, backed events arrive.            *)
THEOREM LedgerImplemented == Spec => ImplementsLedger
<1>1. Init => Ledger!Init
  BY DEF Init, Ledger!Init, NoResult, Ledger!NoResult
<1>2. DetectionInv /\ DetectionInv' /\ [Next]_vars => [Ledger!Next]_(Ledger!vars)
  BY TablesStep, StoreRefines, RecordRefines DEF DetectionInv, Ledger!Next, Ledger!vars
<1>3. QED
  BY <1>1, <1>2, DetectionInvariant, PTL DEF Spec, ImplementsLedger, Ledger!Spec

-----------------------------------------------------------------------------
(* What leaves the system is right: the events counted in a response, the  *)
(* messages posted to Slack and the statistics of a test, although these   *)
(* are counted in one statement and written in a later one.                *)

AnswersOK == CreatedOnce /\ outbox \subseteq events /\ NotifiedOnce

(* The only steps that answer, announce or post.                           *)
LEMMA AnswersStep ==
    ASSUME TypeOK, [Next]_vars
    PROVE  \/ /\ UNCHANGED <<created, posts>> /\ outbox' \in {outbox, {}}
              /\ events \subseteq events'
              /\ outbox' # outbox => UNCHANGED events
           \/ \E u \in Uploads : CommitDetection(u)
           \/ \E e \in Event : NotifySlack(e)
<1> DEFINE Quiet ==
             /\ UNCHANGED <<created, posts>> /\ outbox' \in {outbox, {}}
             /\ events \subseteq events'
             /\ outbox' # outbox => UNCHANGED events
<1>1. CASE UNCHANGED vars
  BY <1>1 DEF vars, dbVars, slackVars
<1>2. ASSUME NEW u \in Uploads, Step(u), ~CommitDetection(u) PROVE Quiet
  <2>1. CASE PersistIngestion(u) \/ ReadAttempts(u) \/ NextTest(u)
    BY <2>1 DEF PersistIngestion, ReadAttempts, NextTest, dbVars, slackVars
  <2>2. CASE InsertEvent(u) \/ DuplicateEvent(u) \/ CountTotalRuns(u)
                \/ CountMixedOutcomeRuns(u) \/ UpsertStats(u)
    BY <2>2 DEF InsertEvent, DuplicateEvent, CountTotalRuns, CountMixedOutcomeRuns,
                UpsertStats, dbVars, slackVars
  <2>3. CASE InsertInAborted(u) \/ ScoreRejected(u) \/ DeadlockVictim(u) \/ CommitAborted(u)
    BY <2>3 DEF InsertInAborted, ScoreRejected, DeadlockVictim, CommitAborted,
                FailDetection, dbVars, slackVars
  <2>4. QED
    BY <1>2, <2>1, <2>2, <2>3 DEF Step
<1>3. ASSUME NEW u \in Uploads, Receive(u) \/ CancelRequest(u) \/ LoseCommitAnswer(u)
      PROVE  Quiet
  BY <1>3 DEF Receive, CancelRequest, LoseCommitAnswer, dbVars, slackVars
<1>4. CASE ServerCrash
  BY <1>4 DEF ServerCrash, dbVars
<1>5. QED
  BY <1>1, <1>2, <1>3, <1>4 DEF Next

(* The events a detection commits are new.                                 *)
LEMMA OwnIsNew ==
    ASSUME TypeOK, KeysClaimed, NEW u \in Uploads
    PROVE  own[u] \cap events = {}
BY DEF KeysClaimed, SameKey, TypeOK

LEMMA CommitAnswers ==
    ASSUME TypeOK, KeysClaimed, AnswersOK, NEW u \in Uploads, CommitDetection(u)
    PROVE  AnswersOK'
<1> USE DEF CommitDetection
<1>1. own[u] \cap events = {}
  BY OwnIsNew
<1>2. CreatedOnce'
  <2>1. \A v \in Uploads : created'[v] = IF v = u THEN own[u] ELSE created[v]
    BY DEF TypeOK
  <2>2. QED
    BY <1>1, <2>1 DEF AnswersOK, CreatedOnce
<1>3. outbox' \subseteq events'
  BY DEF AnswersOK
<1>4. NotifiedOnce'
  BY <1>1 DEF AnswersOK, NotifiedOnce
<1>5. QED
  BY <1>2, <1>3, <1>4 DEF AnswersOK

LEMMA PostAnswers ==
    ASSUME TypeOK, OneEventPerRun, AnswersOK, NEW e \in Event, NotifySlack(e)
    PROVE  AnswersOK'
<1> USE DEF NotifySlack, Posted, dbVars
<1>1. CreatedOnce' /\ outbox' \subseteq events'
  BY DEF AnswersOK, CreatedOnce
<1>2. posts[e.test][e.run] = 0
  <2>1. posts[e.test][e.run] # 1
    BY DEF AnswersOK, NotifiedOnce, OneEventPerRun, SameKey, Event
  <2>2. posts[e.test][e.run] \in Nat /\ posts[e.test][e.run] <= 1
    BY DEF AnswersOK, NotifiedOnce, TypeOK, Event
  <2>3. QED
    BY <2>1, <2>2
<1>3. NotifiedOnce'
  <2> SUFFICES ASSUME NEW t \in Tests, NEW r \in Runs
               PROVE  /\ posts'[t][r] <= 1
                      /\ posts'[t][r] = 1 =>
                           \E f \in events' \ outbox' : f.test = t /\ f.run = r
    BY DEF NotifiedOnce
  <2>1. CASE posts'[t][r] = posts[t][r]
    BY <2>1 DEF AnswersOK, NotifiedOnce
  <2>2. CASE posts'[t][r] # posts[t][r]
    <3>1. t = e.test /\ r = e.run /\ posts'[t][r] = posts[t][r] + 1
      BY <2>2 DEF TypeOK, Event
    <3>2. e \in events' \ outbox'
      BY DEF AnswersOK
    <3>3. QED
      BY <1>2, <3>1, <3>2
  <2>3. QED
    BY <2>1, <2>2
<1>4. QED
  BY <1>1, <1>3 DEF AnswersOK

LEMMA AnswersInvariant == Spec => []AnswersOK
<1>1. Init => AnswersOK
  BY DEF Init, AnswersOK, CreatedOnce, NotifiedOnce
<1>2. DetectionInv /\ AnswersOK /\ [Next]_vars => AnswersOK'
  <2> SUFFICES ASSUME DetectionInv, AnswersOK, [Next]_vars PROVE AnswersOK'
    OBVIOUS
  <2> USE DEF DetectionInv
  <2>1. ASSUME UNCHANGED <<created, posts>>, outbox' \in {outbox, {}},
               events \subseteq events', outbox' # outbox => UNCHANGED events
        PROVE  AnswersOK'
    BY <2>1 DEF AnswersOK, CreatedOnce, NotifiedOnce
  <2>2. QED
    BY <2>1, AnswersStep, CommitAnswers, PostAnswers
<1>3. QED
  BY <1>1, <1>2, DetectionInvariant, PTL DEF Spec

(* No response counts an event that is not committed or that another       *)
(* response counts (persistence.go:108-121).                               *)
THEOREM AnswersCorrect == Spec => []CreatedOnce
<1>1. AnswersOK => CreatedOnce
  BY DEF AnswersOK
<1>2. QED
  BY <1>1, AnswersInvariant, PTL

(* Slack hears of a flake at most once, and only of a committed one        *)
(* (detector.go:138-147).                                                  *)
THEOREM PostsCorrect == Spec => []NotifiedOnce
<1>1. AnswersOK => NotifiedOnce
  BY DEF AnswersOK
<1>2. QED
  BY <1>1, AnswersInvariant, PTL

-----------------------------------------------------------------------------
(* Statistics *)

CountsOK == CountsBacked /\ StatsBacked

(* More events never mean fewer flaky runs.                                *)
LEMMA MixedMonotone ==
    ASSUME NEW t, NEW S, NEW T, S \subseteq T
    PROVE  /\ Cardinality(MixedRuns(t, S)) \in Nat
           /\ Cardinality(MixedRuns(t, T)) \in Nat
           /\ Cardinality(MixedRuns(t, S)) <= Cardinality(MixedRuns(t, T))
<1>1. MixedRuns(t, S) \subseteq MixedRuns(t, T) /\ MixedRuns(t, T) \subseteq Runs
  BY DEF MixedRuns
<1>2. IsFiniteSet(MixedRuns(t, T))
  BY <1>1, FlakeDetectionAssumption, FS_Subset
<1>3. QED
  BY <1>1, <1>2, FS_Subset, FS_CardinalityType

(* A test is never seen in fewer runs than before.                         *)
LEMMA SeenMonotone ==
    ASSUME TypeOK, LocalsOK, [Next]_vars, NEW t \in Tests
    PROVE  /\ Cardinality(RunsSeen(t)) \in Nat
           /\ Cardinality(RunsSeen(t)') \in Nat
           /\ Cardinality(RunsSeen(t)) <= Cardinality(RunsSeen(t)')
<1>1. RunsSeen(t) \subseteq RunsSeen(t)' /\ RunsSeen(t)' \subseteq Runs
  BY ResultsKept DEF RunsSeen, Rows
<1>2. IsFiniteSet(RunsSeen(t)')
  BY <1>1, FlakeDetectionAssumption, FS_Subset
<1>3. QED
  BY <1>1, <1>2, FS_Subset, FS_CardinalityType

(* The view of a request's transaction only grows until it ends.           *)
LEMMA ViewStep ==
    ASSUME TypeOK, LocalsOK, [Next]_vars, NEW u \in Uploads
    PROVE  \/ \E how : EndDetection(u, how)
           \/ ServerCrash
           \/ events \cup own[u] \subseteq events' \cup own'[u]
<1>1. events \subseteq events'
  BY EventsStep
<1>2. ASSUME NEW v \in Uploads, Step(v)
      PROVE  own[u] \subseteq own'[u] \/ \E how : EndDetection(u, how)
  BY <1>2 DEF Step, PersistIngestion, ReadAttempts, NextTest, InsertEvent,
       DuplicateEvent, InsertInAborted, CountTotalRuns, CountMixedOutcomeRuns, UpsertStats,
       ScoreRejected, DeadlockVictim, CommitDetection, CommitAborted,
       FailDetection, EndDetection, txVars, TypeOK
<1>3. ASSUME NEW v \in Uploads, Receive(v) \/ CancelRequest(v) \/ LoseCommitAnswer(v)
      PROVE  own[u] \subseteq own'[u] \/ \E how : EndDetection(u, how)
  BY <1>3 DEF Receive, CancelRequest, LoseCommitAnswer, EndDetection, txVars, TypeOK
<1>4. QED
  BY <1>1, <1>2, <1>3 DEF Next, NotifySlack, vars, txVars

(* CountsBacked for one request: what it has read, what it has written.    *)
ReadsBacked(u) ==
    /\ pc[u] \in {"countMixed", "upsert"} =>
         total[u] <= Cardinality(RunsSeen(cur[u].test))
    /\ pc[u] = "upsert" =>
         mixed[u] <= Cardinality(MixedRuns(cur[u].test, events \cup own[u]))

RowsBacked(u) ==
    \A t \in Tests :
        /\ ownStats[u][t].mixed <= Cardinality(MixedRuns(t, events \cup own[u]))
        /\ ownStats[u][t].total <= Cardinality(RunsSeen(t))
        /\ ownStats[u][t].mixed <= ownStats[u][t].total

(* A request without an open transaction has nothing to back.              *)
LEMMA ZeroBacked ==
    ASSUME TypeOK, LocalsOK, [Next]_vars, NEW u \in Uploads,
           ownStats'[u] = [t \in Tests |-> NoStats], pc'[u] \notin {"countMixed", "upsert"}
    PROVE  ReadsBacked(u)' /\ RowsBacked(u)'
<1> SUFFICES ASSUME NEW t \in Tests
             PROVE  /\ ownStats'[u][t].mixed <= Cardinality(MixedRuns(t, events' \cup own'[u]))
                    /\ ownStats'[u][t].total <= Cardinality(RunsSeen(t)')
                    /\ ownStats'[u][t].mixed <= ownStats'[u][t].total
  BY DEF RowsBacked, ReadsBacked, MixedRuns
<1>1. ownStats'[u][t].mixed = 0 /\ ownStats'[u][t].total = 0
  BY DEF NoStats
<1>2. QED
  BY <1>1, SeenMonotone, MixedMonotone

(* Nothing that a request leaves alone loses its backing.                  *)
LEMMA BackedKept ==
    ASSUME TypeOK, LocalsOK, [Next]_vars, NEW u \in Uploads,
           events \cup own[u] \subseteq events' \cup own'[u],
           RowsBacked(u), ownStats'[u] = ownStats[u]
    PROVE  RowsBacked(u)'
<1> SUFFICES ASSUME NEW t \in Tests
             PROVE  /\ ownStats'[u][t].mixed <= Cardinality(MixedRuns(t, events' \cup own'[u]))
                    /\ ownStats'[u][t].total <= Cardinality(RunsSeen(t)')
                    /\ ownStats'[u][t].mixed <= ownStats'[u][t].total
  BY DEF RowsBacked, MixedRuns
<1>1. ownStats[u][t].mixed \in Nat /\ ownStats[u][t].total \in Nat
  BY DEF TypeOK, Stats
<1>2. QED
  BY <1>1, SeenMonotone, MixedMonotone DEF RowsBacked

LEMMA ReadsKept ==
    ASSUME TypeOK, LocalsOK, [Next]_vars, NEW u \in Uploads,
           events \cup own[u] \subseteq events' \cup own'[u], ReadsBacked(u),
           pc'[u] = pc[u], cur'[u] = cur[u], total'[u] = total[u], mixed'[u] = mixed[u]
    PROVE  ReadsBacked(u)'
<1>1. CASE pc[u] \in {"countMixed", "upsert"}
  <2>1. PICK t \in Tests : cur[u].test = t
    BY <1>1 DEF LocalsOK, Handling, Event
  <2>2. total[u] \in Nat /\ mixed[u] \in Nat
    BY DEF TypeOK
  <2>3. /\ Cardinality(RunsSeen(t)) \in Nat
        /\ Cardinality(RunsSeen(t)') \in Nat
        /\ Cardinality(RunsSeen(t)) <= Cardinality(RunsSeen(t)')
    BY <2>1, SeenMonotone
  <2>4. total'[u] <= Cardinality(RunsSeen(t)')
    BY <1>1, <2>1, <2>2, <2>3 DEF ReadsBacked
  <2>5. pc[u] = "upsert" =>
          mixed'[u] <= Cardinality(MixedRuns(t, events' \cup own'[u]))
    BY <2>1, <2>2, MixedMonotone DEF ReadsBacked
  <2>6. QED
    BY <2>1, <2>4, <2>5 DEF ReadsBacked, RunsSeen, MixedRuns
<1>2. CASE pc[u] \notin {"countMixed", "upsert"}
  BY <1>2 DEF ReadsBacked
<1>3. QED
  BY <1>1, <1>2

-----------------------------------------------------------------------------
(* The statements of UpdateStats *)

LEMMA CountTotalBacked ==
    ASSUME TypeOK, LocalsOK, [Next]_vars, NEW u \in Uploads, CountTotalRuns(u)
    PROVE  ReadsBacked(u)'
<1>1. cur[u].test \in Tests
  BY DEF CountTotalRuns, LocalsOK, Handling, Event
<1>2. Cardinality(RunsSeen(cur[u].test)) \in Nat
  BY <1>1, SeenMonotone
<1>3. /\ pc'[u] = "countMixed" /\ cur' = cur
      /\ total'[u] = Cardinality(RunsSeen(cur[u].test)) /\ results' = results
  BY DEF CountTotalRuns, TypeOK, dbVars
<1>4. QED
  BY <1>2, <1>3 DEF ReadsBacked, RunsSeen

LEMMA CountMixedBacked ==
    ASSUME TypeOK, LocalsOK, [Next]_vars, NEW u \in Uploads, ReadsBacked(u),
           CountMixedOutcomeRuns(u)
    PROVE  ReadsBacked(u)'
<1>1. Cardinality(MixedRuns(cur[u].test, events \cup own[u])) \in Nat
  BY MixedMonotone
<1>2. /\ pc[u] = "countMixed" /\ pc'[u] = "upsert" /\ cur' = cur /\ total' = total
      /\ mixed'[u] = Cardinality(MixedRuns(cur[u].test, events \cup own[u]))
      /\ results' = results /\ events' = events /\ own' = own
  BY DEF CountMixedOutcomeRuns, TypeOK, dbVars
<1>3. QED
  BY <1>1, <1>2 DEF ReadsBacked, RunsSeen, MixedRuns

LEMMA UpsertBacked ==
    ASSUME TypeOK, LocalsOK, [Next]_vars, NEW u \in Uploads, ReadsBacked(u), RowsBacked(u),
           UpsertStats(u)
    PROVE  ReadsBacked(u)' /\ RowsBacked(u)'
<1>1. /\ pc[u] = "upsert" /\ pc'[u] = "scan" /\ results' = results /\ events' = events
      /\ own' = own /\ mixed[u] <= total[u] /\ cur[u].test \in Tests
  BY DEF UpsertStats, TypeOK, LocalsOK, Handling, Event, dbVars
<1>2. \A t \in Tests : ownStats'[u][t] = IF t = cur[u].test
                                          THEN [mixed |-> mixed[u], total |-> total[u]]
                                          ELSE ownStats[u][t]
  BY DEF UpsertStats, TypeOK
<1>3. ReadsBacked(u)'
  BY <1>1 DEF ReadsBacked
<1>4. ASSUME NEW t \in Tests
      PROVE  /\ ownStats'[u][t].mixed <= Cardinality(MixedRuns(t, events \cup own[u]))
             /\ ownStats'[u][t].total <= Cardinality(RunsSeen(t))
             /\ ownStats'[u][t].mixed <= ownStats'[u][t].total
  <2>1. CASE t = cur[u].test
    <3>1. ownStats'[u][t].mixed = mixed[u] /\ ownStats'[u][t].total = total[u]
      BY <1>2, <2>1
    <3>2. QED
      BY <1>1, <2>1, <3>1 DEF ReadsBacked
  <2>2. CASE t # cur[u].test
    BY <1>2, <2>2 DEF RowsBacked
  <2>3. QED
    BY <2>1, <2>2
<1>5. QED
  BY <1>1, <1>3, <1>4 DEF RowsBacked, RunsSeen, MixedRuns

(* One step, seen by one request.                                          *)
LEMMA RequestStep ==
    ASSUME TypeOK, LocalsOK, [Next]_vars, NEW u \in Uploads, ReadsBacked(u), RowsBacked(u)
    PROVE  ReadsBacked(u)' /\ RowsBacked(u)'
<1> DEFINE Goal == ReadsBacked(u)' /\ RowsBacked(u)'
           Grows == events \cup own[u] \subseteq events' \cup own'[u]
<1>1. ASSUME NEW how, EndDetection(u, how) PROVE Goal
  BY <1>1, ZeroBacked DEF EndDetection, TypeOK
<1>2. ASSUME ServerCrash PROVE Goal
  BY <1>2, ZeroBacked DEF ServerCrash, Active, InDetection, Handling, TypeOK
<1>3. ASSUME Grows, ownStats'[u] = ownStats[u],
             pc'[u] = pc[u], cur'[u] = cur[u], total'[u] = total[u], mixed'[u] = mixed[u]
      PROVE  Goal
  BY <1>3, BackedKept, ReadsKept
<1>4. ASSUME Grows, ownStats'[u] = ownStats[u], pc'[u] \notin {"countMixed", "upsert"}
      PROVE  Goal
  BY <1>4, BackedKept DEF ReadsBacked
<1>5. CASE UpsertStats(u)
  BY <1>5, UpsertBacked
<1>6. CASE CountTotalRuns(u)
  BY <1>6, CountTotalBacked, BackedKept DEF CountTotalRuns, dbVars
<1>7. CASE CountMixedOutcomeRuns(u)
  BY <1>7, CountMixedBacked, BackedKept DEF CountMixedOutcomeRuns, dbVars
<1>8. ASSUME Grows,
             Receive(u) \/ PersistIngestion(u) \/ ReadAttempts(u) \/ NextTest(u)
               \/ InsertEvent(u) \/ DuplicateEvent(u)
      PROVE  Goal
  BY <1>4, <1>8 DEF Receive, PersistIngestion, ReadAttempts, NextTest, InsertEvent,
     DuplicateEvent, TypeOK, txVars
<1>9. ASSUME NEW v \in Uploads \ {u}, Receive(v) \/ Step(v) \/ CancelRequest(v)
                                        \/ LoseCommitAnswer(v), Grows
      PROVE  Goal
  BY <1>3, <1>9 DEF Step, Receive, PersistIngestion, ReadAttempts, NextTest, InsertEvent,
     DuplicateEvent, InsertInAborted, CountTotalRuns, CountMixedOutcomeRuns, UpsertStats,
     ScoreRejected, DeadlockVictim, CommitDetection, CommitAborted, CancelRequest,
     LoseCommitAnswer, FailDetection, EndDetection, TypeOK, txVars
<1>10. ASSUME Grows, UNCHANGED vars \/ \E e \in Event : NotifySlack(e) PROVE Goal
  BY <1>3, <1>10 DEF vars, NotifySlack, txVars
<1>11. CASE Grows
  BY <1>1, <1>2, <1>5, <1>6, <1>7, <1>8, <1>9, <1>10, <1>11
  DEF Next, Step, InsertInAborted, ScoreRejected, DeadlockVictim, CommitDetection,
      CommitAborted, CancelRequest, LoseCommitAnswer, FailDetection
<1>12. QED
  BY <1>1, <1>2, <1>11, ViewStep

-----------------------------------------------------------------------------
(* The committed statistics *)

LEMMA StatsStep ==
    ASSUME TypeOK, [Next]_vars
    PROVE  \/ stats' = stats
           \/ \E u \in Uploads : /\ stats' = CommittedStats(u) /\ results' = results
                                 /\ events' = events \cup own[u]
BY DEF Next, Step, Receive, PersistIngestion, ReadAttempts, NextTest, InsertEvent,
       DuplicateEvent, InsertInAborted, CountTotalRuns, CountMixedOutcomeRuns, UpsertStats,
       ScoreRejected, DeadlockVictim, CommitDetection, CommitAborted, NotifySlack,
       CancelRequest, LoseCommitAnswer, ServerCrash, FailDetection, vars, dbVars

LEMMA StatsBackedStep ==
    ASSUME TypeOK, LocalsOK, CountsBacked, StatsBacked, [Next]_vars
    PROVE  StatsBacked'
<1> SUFFICES ASSUME NEW t \in Tests
             PROVE  /\ stats'[t].mixed <= Cardinality(MixedRuns(t, events'))
                    /\ stats'[t].total <= Cardinality(RunsSeen(t)')
                    /\ stats'[t].mixed <= stats'[t].total
  BY DEF StatsBacked, MixedRuns
<1>1. stats[t].mixed \in Nat /\ stats[t].total \in Nat
  BY DEF TypeOK, Stats
<1>2. events \subseteq events'
  BY EventsStep
<1>3. CASE stats' = stats
  BY <1>1, <1>2, <1>3, SeenMonotone, MixedMonotone DEF StatsBacked
<1>4. ASSUME NEW u \in Uploads, stats' = CommittedStats(u), results' = results,
             events' = events \cup own[u]
      PROVE  /\ stats'[t].mixed <= Cardinality(MixedRuns(t, events'))
             /\ stats'[t].total <= Cardinality(RunsSeen(t)')
             /\ stats'[t].mixed <= stats'[t].total
  <2>1. stats'[t] = ownStats[u][t] \/ stats'[t] = stats[t]
    BY <1>4 DEF CommittedStats
  <2>2. CASE stats'[t] = ownStats[u][t]
    BY <1>4, <2>2 DEF CountsBacked, RunsSeen
  <2>3. CASE stats'[t] = stats[t]
    BY <1>1, <1>2, <2>3, SeenMonotone, MixedMonotone DEF StatsBacked
  <2>4. QED
    BY <2>1, <2>2, <2>3
<1>5. QED
  BY <1>3, <1>4, StatsStep

LEMMA CountsInit == Init => CountsOK
<1> SUFFICES ASSUME Init PROVE CountsOK
  OBVIOUS
<1>1. ASSUME NEW t \in Tests
      PROVE  Cardinality(RunsSeen(t)) \in Nat
  <2>1. RunsSeen(t) \subseteq Runs
    BY DEF RunsSeen
  <2>2. QED
    BY <2>1, FlakeDetectionAssumption, FS_Subset, FS_CardinalityType
<1>2. \A t \in Tests : \A S : Cardinality(MixedRuns(t, S)) \in Nat
  BY MixedMonotone
<1>3. \A t \in Tests : stats[t].mixed = 0 /\ stats[t].total = 0
  BY DEF Init, NoStats
<1>4. StatsBacked
  BY <1>1, <1>2, <1>3 DEF StatsBacked
<1>5. \A u \in Uploads, t \in Tests : ownStats[u][t].mixed = 0 /\ ownStats[u][t].total = 0
  BY DEF Init, NoStats
<1>6. CountsBacked
  BY <1>1, <1>2, <1>5 DEF Init, CountsBacked
<1>7. QED
  BY <1>4, <1>6 DEF CountsOK

LEMMA CountsInvariant == Spec => []CountsOK
<1>1. TypeOK /\ LocalsOK /\ CountsOK /\ [Next]_vars => CountsOK'
  <2> SUFFICES ASSUME TypeOK, LocalsOK, CountsOK, [Next]_vars PROVE CountsOK'
    OBVIOUS
  <2>1. ASSUME NEW u \in Uploads PROVE ReadsBacked(u)' /\ RowsBacked(u)'
    BY RequestStep DEF CountsOK, CountsBacked, ReadsBacked, RowsBacked
  <2>2. CountsBacked'
    BY <2>1 DEF CountsBacked, ReadsBacked, RowsBacked
  <2>3. QED
    BY <2>2, StatsBackedStep DEF CountsOK
<1>2. QED
  BY <1>1, CountsInit, TypeCorrect, PTL DEF Spec

(* The committed statistics of a test never claim a run that is not there  *)
(* and never a score above 1 (stats.go:28-92).                             *)
THEOREM StatsCorrect == Spec => []StatsBacked
<1>1. CountsOK => StatsBacked
  BY DEF CountsOK
<1>2. QED
  BY <1>1, CountsInvariant, PTL

(* The whole invariant that the runs check: detection, answers and         *)
(* statistics (detector.go, stats.go, persistence.go).                     *)
THEOREM SystemInvariant == Spec => []SystemInv
<1>1. DetectionInv /\ AnswersOK /\ CountsOK => SystemInv
  BY DEF SystemInv, AnswersOK, CountsOK
<1>2. QED
  BY <1>1, DetectionInvariant, AnswersInvariant, CountsInvariant, PTL

-----------------------------------------------------------------------------
(* Who waits for whom.                                                     *)

(* Only UpsertStats writes statistics, and whoever ends writes them off.   *)
LEMMA HoldersStep ==
    ASSUME TypeOK, HoldersDetect, [Next]_vars
    PROVE  HoldersDetect'
<1> USE DEF HoldersDetect, InDetection, Handling
<1>1. ASSUME NEW u \in Uploads, NEW how, EndDetection(u, how) PROVE HoldersDetect'
  BY <1>1 DEF EndDetection, TypeOK
<1>2. ASSUME NEW u \in Uploads, pc[u] \in InDetection => pc'[u] \in InDetection,
             UNCHANGED ownStats, \A v \in Uploads \ {u} : pc'[v] = pc[v]
      PROVE  HoldersDetect'
  BY <1>2
<1>3. ASSUME NEW u \in Uploads,
             \/ Receive(u) \/ PersistIngestion(u) \/ ReadAttempts(u) \/ NextTest(u)
             \/ InsertEvent(u) \/ DuplicateEvent(u) \/ CountTotalRuns(u)
             \/ CountMixedOutcomeRuns(u)
      PROVE  HoldersDetect'
  <2>1. UNCHANGED ownStats
    BY <1>3 DEF Receive, PersistIngestion, ReadAttempts, NextTest, InsertEvent, DuplicateEvent,
       CountTotalRuns, CountMixedOutcomeRuns, txVars
  <2>2. /\ pc[u] \in InDetection => pc'[u] \in InDetection
        /\ \A v \in Uploads \ {u} : pc'[v] = pc[v]
    BY <1>3 DEF Receive, PersistIngestion, ReadAttempts, NextTest, InsertEvent, DuplicateEvent,
       CountTotalRuns, CountMixedOutcomeRuns, TypeOK
  <2>3. QED
    BY <1>2, <2>1, <2>2
<1>4. ASSUME NEW u \in Uploads, UpsertStats(u) PROVE HoldersDetect'
  BY <1>4 DEF UpsertStats, TypeOK
<1>5. ASSUME ServerCrash PROVE HoldersDetect'
  BY <1>5 DEF ServerCrash, TypeOK
<1>6. ASSUME UNCHANGED <<pc, ownStats>> PROVE HoldersDetect'
  BY <1>6
<1>7. QED
  BY <1>1, <1>3, <1>4, <1>5, <1>6
  DEF Next, Step, InsertInAborted, ScoreRejected, DeadlockVictim, CommitDetection, CommitAborted,
      FailDetection, CancelRequest, LoseCommitAnswer, NotifySlack, txVars, vars

LEMMA HoldersInvariant == Spec => []HoldersDetect
<1>1. Init => HoldersDetect
  BY DEF Init, HoldersDetect
<1>2. TypeOK /\ HoldersDetect /\ [Next]_vars => HoldersDetect'
  BY HoldersStep
<1>3. QED
  BY <1>1, <1>2, TypeCorrect, PTL DEF Spec

(* A request waits for open detections of others.                          *)
LEMMA BlockersDetect ==
    ASSUME TypeOK, LocalsOK, HoldersDetect, NEW u \in Uploads
    PROVE  Blockers(u) \subseteq {v \in Uploads \ {u} : pc[v] \in Active}
<1>1. pc[u] = "upsert" => cur[u].test \in Tests
  BY DEF LocalsOK, Handling, Event
<1>2. QED
  BY <1>1 DEF Blockers, LocalsOK, HoldersDetect, Active

LEMMA DetectionsProceed == TypeOK /\ LocalsOK /\ HoldersDetect => WaitsEnd
<1> SUFFICES ASSUME TypeOK, LocalsOK, HoldersDetect, NEW W \in SUBSET Uploads, NEW v \in W,
                    pc[v] \in Active, \A u \in W : Blockers(u) \subseteq W,
                    \A u \in W : ~Proceeds(u)
             PROVE  FALSE
  BY DEF WaitsEnd
<1> DEFINE G == {u \in W : pc[u] \in Active}
           waitsFor == [u \in Uploads |-> Blockers(u)]
<1>1. IsFiniteSet(G) /\ v \in G
  BY FlakeDetectionAssumption, FS_Subset
<1>2. \A u \in G : waitsFor[u] \cap G # {} /\ u \notin waitsFor[u]
  BY BlockersDetect DEF Proceeds
<1>3. PICK D \in SUBSET G : D # {} /\ IsCircle(D, waitsFor)
  <2> HIDE DEF G, waitsFor
  <2> QED
    BY <1>1, <1>2, SomeCircle
<1>4. \A d \in D : Deadlocked(d)
  <2>1. D \in SUBSET Uploads /\ \A d \in D : waitsFor[d] = Blockers(d)
    OBVIOUS
  <2>2. QED
    BY <1>3, <2>1 DEF IsCircle, Deadlocked
<1>5. QED
  BY <1>3, <1>4 DEF Proceeds

(* In whatever order detections write the events and statistics of their   *)
(* tests, from every one that waits one finds another that goes on, or     *)
(* that PostgreSQL fails (detector.go:87-113, stats.go:56-103).            *)
THEOREM NoDetectionStranded == Spec => []WaitsEnd
BY DetectionsProceed, TypeCorrect, HoldersInvariant, PTL
=============================================================================
