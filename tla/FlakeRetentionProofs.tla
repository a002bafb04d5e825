------------------------ MODULE FlakeRetentionProofs ------------------------
(***************************************************************************)
(* Retention beside detection, for every set of requests, servers, tests,  *)
(* runs and reports: what is counted, announced and shown stays accounted  *)
(* for although events are deleted.                                        *)
(***************************************************************************)
EXTENDS FlakePages, FlakeDetectionProofs

(* The part of RetentionInv that FlakeDetectionProofs is about.            *)
RecordsOK ==
    /\ TypeOK /\ LocalsOK
    /\ EventsJustified /\ CandidatesJustified
    /\ OneEventPerRun /\ KeysClaimed

(* A step of the program is one of the detection, which the job does not   *)
(* notice but for a stop of the server; a step of time or of the job that  *)
(* leaves events alone; or the DELETE.                                     *)
Detects ==
    /\ [Next]_vars
    /\ UNCHANGED <<aged, expired, jobFaults, deletions>>
    /\ job' \in {job, [s \in Servers |-> "idle"]}

Waits ==
    /\ UNCHANGED <<vars, deletions>>
    /\ job' \in [Servers -> {"idle", "clear", "delete"}]
    /\ jobFaults' \in 0 .. MaxJobFaults
    /\ expired' \in BOOLEAN
    /\ aged' = aged \/ \E e \in events \ outbox : aged' = aged \cup {e}

LEMMA RetentionStep ==
    ASSUME RetentionTypeOK, [RetentionNext]_allVars
    PROVE  \/ Detects
           \/ Waits
           \/ \E s \in Servers : DeleteOldFlakeEvents(s)
<1> USE DEF retentionVars, jobVars, detectionVars
<1>1. CASE UNCHANGED allVars
  BY <1>1 DEF allVars, Detects
<1>2. ASSUME NEW u \in Uploads, Request(u) /\ UNCHANGED retentionVars PROVE Detects
  BY <1>2 DEF Request, Next, Detects
<1>3. ASSUME NEW e \in Event, NotifySlack(e) /\ UNCHANGED retentionVars PROVE Detects
  BY <1>3 DEF Next, Detects
<1>4. CASE ServerCrash /\ StopJobs
  BY <1>4 DEF StopJobs, Next, Detects
<1>5. ASSUME NEW e \in Event, AgeEvent(e) PROVE Waits
  BY <1>5 DEF AgeEvent, Waits, RetentionTypeOK
<1>6. CASE AgeFiles
  BY <1>6 DEF AgeFiles, Waits, RetentionTypeOK
<1>7. ASSUME NEW s \in Servers, StartJob(s) \/ ClearOldJunitContent(s) \/ FailJob(s)
      PROVE  Waits
  <2>1. jobFaults' \in 0 .. MaxJobFaults
    BY <1>7, FlakeRetentionAssumption
    DEF StartJob, ClearOldJunitContent, FailJob, RetentionTypeOK
  <2>2. QED
    BY <1>7, <2>1 DEF StartJob, ClearOldJunitContent, FailJob, Waits, RetentionTypeOK
<1>8. QED
  BY <1>1, <1>2, <1>3, <1>4, <1>5, <1>6, <1>7 DEF RetentionNext, RunRetentionJob

-----------------------------------------------------------------------------
(* Types, and what FlakeDetectionProofs says of a detection *)

LEMMA RetentionTyped ==
    ASSUME RetentionTypeOK, LocalsOK, [RetentionNext]_allVars
    PROVE  RetentionTypeOK' /\ LocalsOK'
<1>1. CASE Detects
  BY <1>1, StepTyped DEF Detects, RetentionTypeOK
<1>2. CASE Waits
  <2>1. TypeOK' /\ LocalsOK'
    BY <1>2, StepTyped DEF Waits, RetentionTypeOK
  <2>2. aged' \in SUBSET Event
    BY <1>2 DEF Waits, RetentionTypeOK, TypeOK
  <2>3. QED
    BY <1>2, <2>1, <2>2 DEF Waits, RetentionTypeOK
<1>3. ASSUME NEW s \in Servers, DeleteOldFlakeEvents(s) PROVE RetentionTypeOK' /\ LocalsOK'
  <2>1. TypeOK' /\ LocalsOK'
    BY <1>3 DEF DeleteOldFlakeEvents, Old, RetentionTypeOK, TypeOK, LocalsOK, txVars, slackVars
  <2>2. deletions' \in [Tests -> [Runs -> Nat]]
    BY <1>3 DEF DeleteOldFlakeEvents, RetentionTypeOK
  <2>3. QED
    BY <1>3, <2>1, <2>2 DEF DeleteOldFlakeEvents, RetentionTypeOK
<1>4. QED
  BY <1>1, <1>2, <1>3, RetentionStep

(* Deleting events unmakes nothing that is said of the others.             *)
LEMMA RecordsKept ==
    ASSUME RetentionTypeOK, RecordsOK, [RetentionNext]_allVars
    PROVE  RecordsOK'
<1>1. ASSUME [Next]_vars PROVE RecordsOK'
  BY <1>1, StepTyped, JustifiedStep, KeysStep DEF RecordsOK
<1>2. ASSUME NEW s \in Servers, DeleteOldFlakeEvents(s) PROVE RecordsOK'
  <2>1. TypeOK' /\ LocalsOK'
    BY RetentionTyped DEF RecordsOK, RetentionTypeOK
  <2>2. EventsJustified' /\ OneEventPerRun' /\ KeysClaimed'
    BY <1>2 DEF DeleteOldFlakeEvents, Old, RecordsOK, EventsJustified, Justified,
                OneEventPerRun, KeysClaimed, txVars
  <2>3. CandidatesJustified'
    BY <1>2 DEF DeleteOldFlakeEvents, RecordsOK, CandidatesJustified, Candidates, Justified, txVars
  <2>4. QED
    BY <2>1, <2>2, <2>3 DEF RecordsOK
<1>3. QED
  BY <1>1, <1>2, RetentionStep DEF Detects, Waits
-----------------------------------------------------------------------------
(* Messages *)

(* A detection changes neither what is old nor what was deleted.           *)
LEMMA DetectionTells ==
    ASSUME RetentionTypeOK, RecordsOK, AgedTold, NotifiedPerRecord, Detects
    PROVE  AgedTold' /\ NotifiedPerRecord'
<1> USE DEF Detects
<1> TypeOK /\ KeysClaimed
  BY DEF RecordsOK
<1>1. ASSUME UNCHANGED <<posts>>, outbox' \in {outbox, {}}, events \subseteq events'
      PROVE  AgedTold' /\ NotifiedPerRecord'
  BY <1>1 DEF AgedTold, NotifiedPerRecord
<1>2. ASSUME NEW u \in Uploads, CommitDetection(u) PROVE AgedTold' /\ NotifiedPerRecord'
  <2>1. own[u] \cap events = {}
    BY OwnIsNew
  <2>2. QED
    BY <1>2, <2>1 DEF CommitDetection, AgedTold, NotifiedPerRecord
<1>3. ASSUME NEW e \in Event, NotifySlack(e) PROVE AgedTold' /\ NotifiedPerRecord'
  <2>1. AgedTold' /\ e \in events' \ outbox'
    BY <1>3 DEF NotifySlack, AgedTold, dbVars
  <2>2. posts[e.test][e.run] \in Nat /\ deletions[e.test][e.run] \in Nat
    BY DEF RetentionTypeOK, TypeOK, Event
  <2>3. posts[e.test][e.run] # deletions[e.test][e.run] + 1
    BY <1>3 DEF NotifySlack, AgedTold, NotifiedPerRecord, RecordsOK, OneEventPerRun, SameKey, Event
  <2>4. posts[e.test][e.run] <= deletions[e.test][e.run]
    BY <2>2, <2>3 DEF NotifiedPerRecord, Event
  <2> SUFFICES ASSUME NEW t \in Tests, NEW r \in Runs
               PROVE  /\ posts'[t][r] <= deletions[t][r] + 1
                      /\ posts'[t][r] = deletions[t][r] + 1 =>
                           \E f \in events' \ outbox' : f.test = t /\ f.run = r
    BY <2>1 DEF NotifiedPerRecord
  <2>5. CASE t = e.test /\ r = e.run
    <3>1. posts'[t][r] \in {posts[t][r], posts[t][r] + 1}
      BY <1>3, <2>5 DEF NotifySlack, Posted, TypeOK
    <3>2. QED
      BY <2>1, <2>2, <2>4, <2>5, <3>1
  <2>6. CASE ~(t = e.test /\ r = e.run)
    <3>1. posts'[t][r] = posts[t][r]
      BY <1>3, <2>6 DEF NotifySlack, Posted, TypeOK, Event
    <3>2. events \ outbox \subseteq events' \ outbox'
      BY <1>3 DEF NotifySlack, dbVars
    <3>3. QED
      BY <3>1, <3>2 DEF NotifiedPerRecord
  <2>7. QED
    BY <2>5, <2>6
<1>4. QED
  BY <1>1, <1>2, <1>3, AnswersStep

(* An event that goes has been told, and makes room for one more message.  *)
LEMMA DeletionTells ==
    ASSUME RetentionTypeOK, AgedTold, NotifiedPerRecord,
           NEW s \in Servers, DeleteOldFlakeEvents(s)
    PROVE  AgedTold' /\ NotifiedPerRecord'
<1>1. events' = events \ aged /\ aged' = {} /\ UNCHANGED <<outbox, posts>>
  BY DEF DeleteOldFlakeEvents, Old, slackVars
<1>2. ASSUME NEW t \in Tests, NEW r \in Runs
      PROVE  /\ posts[t][r] <= deletions'[t][r] + 1
             /\ posts[t][r] = deletions'[t][r] + 1 =>
                  \E f \in events' \ outbox : f.test = t /\ f.run = r
  <2>1. posts[t][r] \in Nat /\ deletions[t][r] \in Nat
    BY DEF RetentionTypeOK, TypeOK
  <2>2. CASE \E e \in aged : e.test = t /\ e.run = r
    <3>1. deletions'[t][r] = deletions[t][r] + 1
      BY <2>2 DEF DeleteOldFlakeEvents
    <3>2. QED
      BY <2>1, <3>1 DEF NotifiedPerRecord
  <2>3. CASE ~\E e \in aged : e.test = t /\ e.run = r
    <3>1. deletions'[t][r] = deletions[t][r]
      BY <2>3 DEF DeleteOldFlakeEvents
    <3>2. QED
      BY <1>1, <2>3, <3>1 DEF NotifiedPerRecord
  <2>4. QED
    BY <2>2, <2>3
<1>3. QED
  BY <1>1, <1>2 DEF AgedTold, NotifiedPerRecord

LEMMA MessagesKept ==
    ASSUME RetentionTypeOK, RecordsOK, AgedTold, NotifiedPerRecord, [RetentionNext]_allVars
    PROVE  AgedTold' /\ NotifiedPerRecord'
<1>1. CASE Waits
  BY <1>1 DEF Waits, vars, dbVars, slackVars, AgedTold, NotifiedPerRecord
<1>2. QED
  BY <1>1, DetectionTells, DeletionTells, RetentionStep

-----------------------------------------------------------------------------
(* No flake gets lost *)

(* A run in which a flake was recorded stays one, deleted or not.          *)
LEMMA RecordedStep ==
    ASSUME RetentionTypeOK, [RetentionNext]_allVars, NEW t \in Tests
    PROVE  Recorded(t) \subseteq Recorded(t)'
<1>1. CASE Detects
  BY <1>1, EventsStep DEF Detects, Recorded, RetentionTypeOK
<1>2. CASE Waits
  BY <1>2 DEF Waits, vars, dbVars, Recorded
<1>3. ASSUME NEW s \in Servers, DeleteOldFlakeEvents(s) PROVE Recorded(t) \subseteq Recorded(t)'
  <2> SUFFICES ASSUME NEW r \in Recorded(t)
               PROVE  deletions'[t][r] > 0 \/ \E e \in events' : e.test = t /\ e.run = r
    BY DEF Recorded
  <2>1. r \in Runs /\ deletions[t][r] \in Nat
    BY DEF Recorded, RetentionTypeOK
  <2>2. CASE \E e \in aged : e.test = t /\ e.run = r
    BY <1>3, <2>1, <2>2 DEF DeleteOldFlakeEvents
  <2>3. CASE ~\E e \in aged : e.test = t /\ e.run = r
    BY <1>3, <2>1, <2>3 DEF DeleteOldFlakeEvents, Old, Recorded
  <2>4. QED
    BY <2>2, <2>3
<1>4. QED
  BY <1>1, <1>2, <1>3, RetentionStep

LEMMA AccountedKept ==
    ASSUME RetentionTypeOK, LocalsOK, FlakesAccounted, [RetentionNext]_allVars
    PROVE  FlakesAccounted'
<1> SUFFICES ASSUME NEW t \in Tests, NEW r \in Runs, FlakeDetected(results'[t][r])
             PROVE  r \in Recorded(t)' \/ \E u \in Uploads : Covers(u, t, r)'
  BY DEF FlakesAccounted
<1>1. Recorded(t) \subseteq Recorded(t)'
  BY RecordedStep
<1>2. CASE [Next]_vars
  <2>1. CASE results'[t][r] # results[t][r]
    BY <1>2, <2>1, NewResultsCovered DEF RetentionTypeOK
  <2>2. CASE results'[t][r] = results[t][r] /\ r \notin Recorded(t)
    <3>1. PICK u \in Uploads : Covers(u, t, r)
      BY <2>2 DEF FlakesAccounted
    <3>2. Covers(u, t, r)' \/ \E e \in events' : e.test = t /\ e.run = r
      BY <1>2, <2>2, <3>1, CoversKept DEF RetentionTypeOK
    <3>3. QED
      BY <3>2 DEF Recorded
  <2>3. QED
    BY <1>1, <2>1, <2>2
<1>3. ASSUME NEW s \in Servers, DeleteOldFlakeEvents(s)
      PROVE  r \in Recorded(t)' \/ \E u \in Uploads : Covers(u, t, r)'
  BY <1>1, <1>3 DEF FlakesAccounted, DeleteOldFlakeEvents, Covers, Candidates, txVars
<1>4. QED
  BY <1>2, <1>3, RetentionStep DEF Detects, Waits
-----------------------------------------------------------------------------
(* Statistics: what counts claim was recorded at some time *)

LEMMA RunsCounted ==
    ASSUME NEW S \in SUBSET Runs, NEW T \in SUBSET Runs, S \subseteq T
    PROVE  /\ Cardinality(S) \in Nat /\ Cardinality(T) \in Nat
           /\ Cardinality(S) <= Cardinality(T)
BY CountType, FS_Subset

(* The runs that a request's counts may rest on only become more while its *)
(* transaction is open, and so do the runs that a test is seen in.         *)
LEMMA SeenStep ==
    ASSUME RetentionTypeOK, LocalsOK, [RetentionNext]_allVars, NEW t \in Tests
    PROVE  /\ Cardinality(RunsSeen(t)) \in Nat
           /\ Cardinality(RunsSeen(t)') \in Nat
           /\ Cardinality(RunsSeen(t)) <= Cardinality(RunsSeen(t)')
<1>1. CASE [Next]_vars
  BY <1>1, SeenMonotone DEF RetentionTypeOK
<1>2. ASSUME NEW s \in Servers, DeleteOldFlakeEvents(s) PROVE RunsSeen(t)' = RunsSeen(t)
  BY <1>2 DEF DeleteOldFlakeEvents, RunsSeen, Rows
<1>3. RunsSeen(t) \in SUBSET Runs
  BY DEF RunsSeen
<1>4. QED
  BY <1>1, <1>2, <1>3, RunsCounted, RetentionStep DEF Detects, Waits

LEMMA RecordedCount ==
    ASSUME RetentionTypeOK, [RetentionNext]_allVars, NEW t \in Tests
    PROVE  /\ Cardinality(Recorded(t)) \in Nat
           /\ Cardinality(Recorded(t)') \in Nat
           /\ Cardinality(Recorded(t)) <= Cardinality(Recorded(t)')
<1>1. Recorded(t) \in SUBSET Runs /\ Recorded(t)' \in SUBSET Runs
  BY DEF Recorded
<1>2. QED
  BY <1>1, RecordedStep, RunsCounted

LEMMA KnownCount ==
    ASSUME RetentionTypeOK, [RetentionNext]_allVars, NEW t \in Tests, NEW u \in Uploads
    PROVE  /\ Cardinality(Known(u, t)) \in Nat
           /\ Cardinality(Known(u, t)') \in Nat
           /\ own[u] \subseteq own'[u] \/ own[u] \subseteq events' =>
                Cardinality(Known(u, t)) <= Cardinality(Known(u, t)')
<1>1. Known(u, t) \in SUBSET Runs /\ Known(u, t)' \in SUBSET Runs
  BY DEF Known, Recorded, MixedRuns
<1>2. own[u] \subseteq own'[u] \/ own[u] \subseteq events' => Known(u, t) \subseteq Known(u, t)'
  BY RecordedStep DEF Known, MixedRuns, Recorded
<1>3. QED
  BY <1>1, <1>2, RunsCounted

(* CountsRecorded for one request                                          *)
ReadsKnown(u) ==
    /\ pc[u] \in {"countMixed", "upsert"} =>
         total[u] <= Cardinality(RunsSeen(cur[u].test))
    /\ pc[u] = "upsert" => mixed[u] <= Cardinality(Known(u, cur[u].test))

RowsKnown(u) ==
    \A t \in Tests :
        /\ ownStats[u][t].mixed <= Cardinality(Known(u, t))
        /\ ownStats[u][t].total <= Cardinality(RunsSeen(t))
        /\ ownStats[u][t].mixed <= ownStats[u][t].total

(* A request without an open transaction claims nothing.                   *)
LEMMA NothingClaimed ==
    ASSUME RetentionTypeOK, LocalsOK, [RetentionNext]_allVars, NEW u \in Uploads,
           ownStats'[u] = [t \in Tests |-> NoStats], pc'[u] \notin {"countMixed", "upsert"}
    PROVE  ReadsKnown(u)' /\ RowsKnown(u)'
<1>1. ASSUME NEW t \in Tests
      PROVE  /\ ownStats'[u][t].mixed <= Cardinality(Known(u, t)')
             /\ ownStats'[u][t].total <= Cardinality(RunsSeen(t)')
             /\ ownStats'[u][t].mixed <= ownStats'[u][t].total
  <2>1. ownStats'[u][t].mixed = 0 /\ ownStats'[u][t].total = 0
    BY DEF NoStats
  <2>2. QED
    BY <2>1, SeenStep, KnownCount
<1>2. QED
  BY <1>1 DEF ReadsKnown, RowsKnown

(* What was claimed stays known.                                           *)
LEMMA ReadsStay ==
    ASSUME RetentionTypeOK, LocalsOK, [RetentionNext]_allVars, NEW u \in Uploads,
           own[u] \subseteq own'[u] \/ own[u] \subseteq events', ReadsKnown(u),
           pc'[u] = pc[u], cur'[u] = cur[u], total'[u] = total[u], mixed'[u] = mixed[u]
    PROVE  ReadsKnown(u)'
<1>1. CASE pc[u] \in {"countMixed", "upsert"}
  <2>1. PICK t \in Tests : cur[u].test = t
    BY <1>1 DEF LocalsOK, Handling, Event
  <2>2. total[u] \in Nat /\ mixed[u] \in Nat
    BY DEF RetentionTypeOK, TypeOK
  <2>3. total'[u] <= Cardinality(RunsSeen(t)')
    BY <1>1, <2>1, <2>2, SeenStep DEF ReadsKnown
  <2>4. pc[u] = "upsert" => mixed'[u] <= Cardinality(Known(u, t)')
    BY <2>1, <2>2, KnownCount DEF ReadsKnown
  <2>5. cur'[u].test = t
    BY <2>1
  <2>6. QED
    BY <2>3, <2>4, <2>5 DEF ReadsKnown, RunsSeen, Known, Recorded, MixedRuns
<1>2. CASE pc[u] \notin {"countMixed", "upsert"}
  BY <1>2 DEF ReadsKnown
<1>3. QED
  BY <1>1, <1>2

LEMMA RowsStay ==
    ASSUME RetentionTypeOK, LocalsOK, [RetentionNext]_allVars, NEW u \in Uploads,
           own[u] \subseteq own'[u] \/ own[u] \subseteq events',
           RowsKnown(u), ownStats'[u] = ownStats[u]
    PROVE  RowsKnown(u)'
<1>1. ASSUME NEW t \in Tests
      PROVE  /\ ownStats'[u][t].mixed <= Cardinality(Known(u, t)')
             /\ ownStats'[u][t].total <= Cardinality(RunsSeen(t)')
             /\ ownStats'[u][t].mixed <= ownStats'[u][t].total
  <2>1. ownStats[u][t].mixed \in Nat /\ ownStats[u][t].total \in Nat
    BY DEF RetentionTypeOK, TypeOK, Stats
  <2>2. QED
    BY <2>1, SeenStep, KnownCount DEF RowsKnown
<1>2. QED
  BY <1>1 DEF RowsKnown
(* The statements of UpdateStats (stats.go:28-92), seen by their request   *)
LEMMA CountTotalKnown ==
    ASSUME RetentionTypeOK, LocalsOK, [RetentionNext]_allVars, NEW u \in Uploads, CountTotalRuns(u)
    PROVE  ReadsKnown(u)'
<1>1. cur[u].test \in Tests
  BY DEF CountTotalRuns, LocalsOK, Handling, Event
<1>2. Cardinality(RunsSeen(cur[u].test)) \in Nat
  BY <1>1, SeenStep
<1>3. /\ pc'[u] = "countMixed" /\ cur' = cur
      /\ total'[u] = Cardinality(RunsSeen(cur[u].test)) /\ results' = results
  BY DEF CountTotalRuns, RetentionTypeOK, TypeOK, dbVars
<1>4. QED
  BY <1>2, <1>3 DEF ReadsKnown, RunsSeen

LEMMA CountMixedKnown ==
    ASSUME RetentionTypeOK, LocalsOK, [RetentionNext]_allVars, NEW u \in Uploads, ReadsKnown(u),
           CountMixedOutcomeRuns(u), UNCHANGED deletions
    PROVE  ReadsKnown(u)'
<1>1. /\ pc[u] = "countMixed" /\ pc'[u] = "upsert" /\ cur' = cur /\ total' = total
      /\ mixed'[u] = Cardinality(MixedRuns(cur[u].test, events \cup own[u]))
      /\ results' = results /\ events' = events /\ own' = own
  BY DEF CountMixedOutcomeRuns, RetentionTypeOK, TypeOK, dbVars
<1>2. PICK t \in Tests : cur[u].test = t
  BY <1>1 DEF LocalsOK, Handling, Event
<1>3. mixed'[u] <= Cardinality(Known(u, t))
  <2>1. /\ MixedRuns(t, events \cup own[u]) \in SUBSET Runs
        /\ Known(u, t) \in SUBSET Runs
        /\ MixedRuns(t, events \cup own[u]) \subseteq Known(u, t)
    BY DEF MixedRuns, Known, Recorded
  <2>2. QED
    BY <1>1, <1>2, <2>1, RunsCounted
<1>4. QED
  BY <1>1, <1>2, <1>3 DEF ReadsKnown, RunsSeen, Known, Recorded, MixedRuns

LEMMA UpsertKnown ==
    ASSUME RetentionTypeOK, LocalsOK, [RetentionNext]_allVars, NEW u \in Uploads,
           ReadsKnown(u), RowsKnown(u), UpsertStats(u), UNCHANGED deletions
    PROVE  ReadsKnown(u)' /\ RowsKnown(u)'
<1>1. /\ pc[u] = "upsert" /\ pc'[u] = "scan" /\ results' = results /\ events' = events
      /\ own' = own /\ mixed[u] <= total[u] /\ cur[u].test \in Tests
  BY DEF UpsertStats, RetentionTypeOK, TypeOK, LocalsOK, Handling, Event, dbVars
<1>2. \A t \in Tests : ownStats'[u][t] = IF t = cur[u].test
                                          THEN [mixed |-> mixed[u], total |-> total[u]]
                                          ELSE ownStats[u][t]
  BY DEF UpsertStats, RetentionTypeOK, TypeOK
<1>3. ReadsKnown(u)'
  BY <1>1 DEF ReadsKnown
<1>4. ASSUME NEW t \in Tests
      PROVE  /\ ownStats'[u][t].mixed <= Cardinality(Known(u, t))
             /\ ownStats'[u][t].total <= Cardinality(RunsSeen(t))
             /\ ownStats'[u][t].mixed <= ownStats'[u][t].total
  <2>1. CASE t = cur[u].test
    <3>1. ownStats'[u][t].mixed = mixed[u] /\ ownStats'[u][t].total = total[u]
      BY <1>2, <2>1
    <3>2. QED
      BY <1>1, <2>1, <3>1 DEF ReadsKnown
  <2>2. CASE t # cur[u].test
    BY <1>2, <2>2 DEF RowsKnown
  <2>3. QED
    BY <2>1, <2>2
<1>5. QED
  BY <1>1, <1>3, <1>4 DEF RowsKnown, RunsSeen, Known, Recorded, MixedRuns

(* One step, seen by one request.                                          *)
LEMMA RequestKnows ==
    ASSUME RetentionTypeOK, LocalsOK, [RetentionNext]_allVars, NEW u \in Uploads,
           ReadsKnown(u), RowsKnown(u)
    PROVE  ReadsKnown(u)' /\ RowsKnown(u)'
<1> DEFINE Goal == ReadsKnown(u)' /\ RowsKnown(u)'
           Same == /\ ownStats'[u] = ownStats[u] /\ pc'[u] = pc[u] /\ cur'[u] = cur[u]
                   /\ total'[u] = total[u] /\ mixed'[u] = mixed[u] /\ own'[u] = own[u]
<1> TypeOK
  BY DEF RetentionTypeOK
<1>1. ASSUME NEW how, EndDetection(u, how) PROVE Goal
  BY <1>1, NothingClaimed DEF EndDetection, TypeOK
<1>2. CASE ServerCrash
  BY <1>2, NothingClaimed DEF ServerCrash, Active, InDetection, Handling, TypeOK
<1>3. CASE Same
  BY <1>3, ReadsStay, RowsStay
<1>4. ASSUME own[u] \subseteq own'[u], ownStats'[u] = ownStats[u],
             pc'[u] \notin {"countMixed", "upsert"}
      PROVE  Goal
  BY <1>4, RowsStay DEF ReadsKnown
<1>5. CASE Step(u) /\ UNCHANGED deletions
  <2>1. CASE UpsertStats(u)
    BY <1>5, <2>1, UpsertKnown
  <2>2. CASE CountTotalRuns(u)
    BY <2>2, CountTotalKnown, RowsStay DEF CountTotalRuns
  <2>3. CASE CountMixedOutcomeRuns(u)
    BY <1>5, <2>3, CountMixedKnown, RowsStay DEF CountMixedOutcomeRuns
  <2>4. CASE PersistIngestion(u) \/ ReadAttempts(u) \/ NextTest(u)
               \/ InsertEvent(u) \/ DuplicateEvent(u)
    BY <1>4, <2>4 DEF PersistIngestion, ReadAttempts, NextTest, InsertEvent,
       DuplicateEvent, TypeOK, txVars
  <2>5. QED
    BY <1>1, <1>5, <2>1, <2>2, <2>3, <2>4
    DEF Step, InsertInAborted, ScoreRejected, DeadlockVictim, CommitDetection,
        CommitAborted, FailDetection
<1>6. CASE Receive(u)
  BY <1>4, <1>6 DEF Receive, TypeOK, txVars
<1>7. CASE CancelRequest(u) \/ LoseCommitAnswer(u)
  BY <1>1, <1>7 DEF CancelRequest, LoseCommitAnswer
<1>8. ASSUME NEW v \in Uploads \ {u},
             Receive(v) \/ Step(v) \/ CancelRequest(v) \/ LoseCommitAnswer(v)
      PROVE  Same
  BY <1>8 DEF Step, Receive, PersistIngestion, ReadAttempts, NextTest, InsertEvent,
     DuplicateEvent, InsertInAborted, CountTotalRuns, CountMixedOutcomeRuns, UpsertStats,
     ScoreRejected, DeadlockVictim, CommitDetection, CommitAborted, CancelRequest,
     LoseCommitAnswer, FailDetection, EndDetection, TypeOK, txVars
<1>9. ASSUME NEW e \in Event, NotifySlack(e) PROVE Same
  BY <1>9 DEF NotifySlack, txVars
<1>10. CASE UNCHANGED vars
  BY <1>3, <1>10 DEF vars, txVars
<1>11. ASSUME NEW s \in Servers, DeleteOldFlakeEvents(s) PROVE Same
  BY <1>11 DEF DeleteOldFlakeEvents, txVars
<1>12. CASE Detects
  BY <1>2, <1>3, <1>5, <1>6, <1>7, <1>8, <1>9, <1>10, <1>12 DEF Detects, Next
<1>13. QED
  BY <1>3, <1>10, <1>11, <1>12, RetentionStep DEF Waits

(* What is committed was known to the request, and is recorded with it.    *)
LEMMA StatsKept ==
    ASSUME RetentionTypeOK, LocalsOK, CountsRecorded, StatsRecorded, [RetentionNext]_allVars
    PROVE  StatsRecorded'
<1> SUFFICES ASSUME NEW t \in Tests
             PROVE  /\ stats'[t].mixed <= Cardinality(Recorded(t)')
                    /\ stats'[t].total <= Cardinality(RunsSeen(t)')
                    /\ stats'[t].mixed <= stats'[t].total
  BY DEF StatsRecorded
<1>1. stats[t].mixed \in Nat /\ stats[t].total \in Nat
  BY DEF RetentionTypeOK, TypeOK, Stats
<1>2. CASE stats' = stats
  BY <1>1, <1>2, SeenStep, RecordedCount DEF StatsRecorded
<1>3. ASSUME NEW u \in Uploads, stats' = CommittedStats(u), events' = events \cup own[u],
             UNCHANGED deletions
      PROVE  /\ stats'[t].mixed <= Cardinality(Recorded(t)')
             /\ stats'[t].total <= Cardinality(RunsSeen(t)')
             /\ stats'[t].mixed <= stats'[t].total
  <2>1. stats'[t] = ownStats[u][t] \/ stats'[t] = stats[t]
    BY <1>3 DEF CommittedStats
  <2>2. CASE stats'[t] = ownStats[u][t]
    <3>1. Known(u, t) = Recorded(t)'
      BY <1>3 DEF Known, Recorded, MixedRuns
    <3>2. ownStats[u][t].total \in Nat
      BY DEF RetentionTypeOK, TypeOK, Stats
    <3>3. QED
      BY <2>2, <3>1, <3>2, SeenStep DEF CountsRecorded
  <2>3. CASE stats'[t] = stats[t]
    BY <1>1, <2>3, SeenStep, RecordedCount DEF StatsRecorded
  <2>4. QED
    BY <2>1, <2>2, <2>3
<1>4. CASE Detects
  BY <1>2, <1>3, <1>4, StatsStep DEF Detects, RetentionTypeOK
<1>5. QED
  BY <1>2, <1>4, RetentionStep DEF Waits, DeleteOldFlakeEvents, vars, dbVars

-----------------------------------------------------------------------------
LEMMA RetentionInitHolds == RetentionInit => RetentionInv
<1> SUFFICES ASSUME RetentionInit PROVE RetentionInv
  OBVIOUS
<1>1. Init /\ DetectionInv /\ CountsOK
  BY InitDetectionInv, CountsInit DEF RetentionInit
<1>2. RetentionTypeOK
  <2>1. jobFaults \in 0 .. MaxJobFaults /\ deletions \in [Tests -> [Runs -> Nat]]
    BY FlakeRetentionAssumption DEF RetentionInit
  <2>2. QED
    BY <1>1, <2>1 DEF RetentionInit, RetentionTypeOK, DetectionInv
<1>3. AgedTold /\ NotifiedPerRecord
  BY DEF RetentionInit, Init, AgedTold, NotifiedPerRecord
<1>4. \A t \in Tests : Recorded(t) = {}
  BY DEF RetentionInit, Init, Recorded
<1>5. FlakesAccounted
  BY <1>1, <1>4 DEF DetectionInv, FlakesCovered, FlakesAccounted, Init
<1>6. ASSUME NEW u \in Uploads, NEW t \in Tests
      PROVE  /\ Known(u, t) = MixedRuns(t, events \cup own[u])
             /\ Recorded(t) = MixedRuns(t, events)
  BY <1>4 DEF Known, RetentionInit, Init, MixedRuns
<1>7. CountsRecorded
  BY <1>1, <1>6 DEF CountsOK, CountsBacked, CountsRecorded, Init
<1>8. StatsRecorded
  BY <1>1, <1>4 DEF CountsOK, StatsBacked, StatsRecorded, RetentionInit, Init, MixedRuns
<1>9. QED
  BY <1>1, <1>2, <1>3, <1>5, <1>7, <1>8 DEF RetentionInv, DetectionInv

LEMMA RetentionInvStep == RetentionInv /\ [RetentionNext]_allVars => RetentionInv'
<1> SUFFICES ASSUME RetentionInv, [RetentionNext]_allVars PROVE RetentionInv'
  OBVIOUS
<1> USE DEF RetentionInv
<1>1. RecordsOK'
  BY RecordsKept DEF RecordsOK, RetentionTypeOK
<1>2. RetentionTypeOK'
  BY RetentionTyped
<1>3. AgedTold' /\ NotifiedPerRecord'
  BY MessagesKept DEF RecordsOK, RetentionTypeOK
<1>4. FlakesAccounted'
  BY AccountedKept
<1>5. CountsRecorded'
  <2>1. ASSUME NEW u \in Uploads PROVE ReadsKnown(u)' /\ RowsKnown(u)'
    BY RequestKnows DEF CountsRecorded, ReadsKnown, RowsKnown
  <2>2. QED
    BY <2>1 DEF CountsRecorded, ReadsKnown, RowsKnown
<1>6. StatsRecorded'
  BY StatsKept
<1>7. QED
  BY <1>1, <1>2, <1>3, <1>4, <1>5, <1>6 DEF RecordsOK

(* Whatever uploads, detections, stops of servers and runs of the retention*)
(* job do to each other (retention.go, detector.go, stats.go), what the    *)
(* tables say stays accounted for.                                         *)
THEOREM RetentionInvariant == RetentionSpec => []RetentionInv
BY RetentionInitHolds, RetentionInvStep, PTL DEF RetentionSpec

(* Slack hears of a flake once for each time it was recorded               *)
(* (detector.go:136-142, retention.go:32-43).                              *)
THEOREM NotificationsBounded == RetentionSpec => []NotifiedPerRecord
<1>1. RetentionInv => NotifiedPerRecord
  BY DEF RetentionInv
<1>2. QED
  BY <1>1, RetentionInvariant, PTL

(* No flake of a run whose uploads all ended well is missing but those that*)
(* the job deleted (persistence.go:104-121, retention.go:32-43).           *)
THEOREM OnlyDeletedMissing == RetentionSpec => []MissingOnlyDeleted
<1>1. RetentionInv => MissingOnlyDeleted
  <2> SUFFICES ASSUME RetentionInv, NEW r \in Runs,
                      \A u \in UploadsOf(r) : Ended(u) /\ outcome[u] = "ok",
                      NEW t \in Tests, FlakeDetected(results[t][r])
               PROVE  r \in Recorded(t)
    BY DEF MissingOnlyDeleted
  <2>1. \A u \in Uploads : ~Covers(u, t, r)
    BY DEF Covers, UploadsOf, Ended, InDetection, Handling
  <2>2. QED
    BY <2>1 DEF RetentionInv, FlakesAccounted
<1>2. QED
  BY <1>1, RetentionInvariant, PTL

(* Late results are as harmless with retention, which deletes no result.   *)
THEOREM LateResultsHarmlessAlways == RetentionSpec => LateResultsKeepFlake
<1>1. RetentionInv /\ RetentionInv' /\ [RetentionNext]_allVars =>
        (results' # results =>
          \A t \in Tests, r \in Runs : FlakeDetected(results[t][r]) =>
            /\ FlakeDetected(results'[t][r])
            /\ DetectFlakePattern(results'[t][r]).failed
                  <= DetectFlakePattern(results[t][r]).failed)
  <2> SUFFICES ASSUME RetentionInv, RetentionInv', [RetentionNext]_allVars, results' # results
               PROVE  [Next]_vars
    BY LateStep DEF RetentionInv, RetentionTypeOK
  <2>1. \A s \in Servers : ~DeleteOldFlakeEvents(s)
    BY DEF DeleteOldFlakeEvents
  <2>2. QED
    BY <2>1, RetentionStep DEF RetentionInv, Detects, Waits
<1>2. QED
  BY <1>1, RetentionInvariant, PTL DEF RetentionSpec, LateResultsKeepFlake

(* Uploads, detections and the job together implement the forgetful ledger:*)
(* a reader of the tables sees results stored, whole batches of backed     *)
(* events arrive, and events go (retention.go:32-43, detector.go:50-154).  *)
THEOREM LedgerForgets == RetentionSpec => ForgetsEvents
<1>1. RetentionInit => Ledger!Init
  BY DEF RetentionInit, Init, Ledger!Init, NoResult, Ledger!NoResult
<1>2. RetentionInv /\ RetentionInv' /\ [RetentionNext]_allVars =>
        [Ledger!Next \/ Ledger!Forget]_(Ledger!vars)
  <2> SUFFICES ASSUME RetentionInv, RetentionInv', [RetentionNext]_allVars
               PROVE  [Ledger!Next \/ Ledger!Forget]_(Ledger!vars)
    OBVIOUS
  <2> USE DEF RetentionInv, RetentionTypeOK
  <2>1. CASE [Next]_vars
    BY <2>1, TablesStep, StoreRefines, RecordRefines DEF Ledger!Next, Ledger!vars
  <2>2. ASSUME NEW s \in Servers, DeleteOldFlakeEvents(s) PROVE Ledger!Forget
    BY <2>2 DEF DeleteOldFlakeEvents, Ledger!Forget
  <2>3. QED
    BY <2>1, <2>2, RetentionStep DEF Detects, Waits
<1>3. QED
  BY <1>1, <1>2, RetentionInvariant, PTL DEF RetentionSpec, ForgetsEvents, Ledger!ForgetfulSpec

(* The job deletes committed rows only and holds none between two of its   *)
(* statements, so detections wait for each other as they do without it     *)
(* (retention.go:32-43, detector.go:87-113, stats.go:56-103).              *)
THEOREM NoDetectionStrandedWithRetention == RetentionSpec => []WaitsEnd
<1>1. RetentionInit => HoldersDetect
  BY DEF RetentionInit, Init, HoldersDetect
<1>2. RetentionInv /\ HoldersDetect /\ [RetentionNext]_allVars => HoldersDetect'
  <2> SUFFICES ASSUME RetentionInv, HoldersDetect, [RetentionNext]_allVars
               PROVE  HoldersDetect'
    OBVIOUS
  <2> USE DEF RetentionInv, RetentionTypeOK
  <2>1. CASE [Next]_vars
    BY <2>1, HoldersStep
  <2>2. ASSUME NEW s \in Servers, DeleteOldFlakeEvents(s) PROVE UNCHANGED <<pc, ownStats>>
    BY <2>2 DEF DeleteOldFlakeEvents, txVars, vars, detectionVars
  <2>3. QED
    BY <2>1, <2>2, RetentionStep DEF Detects, Waits, HoldersDetect
<1>3. RetentionInv /\ HoldersDetect => WaitsEnd
  BY DetectionsProceed DEF RetentionInv, RetentionTypeOK
<1>4. QED
  BY <1>1, <1>2, <1>3, RetentionInvariant, PTL DEF RetentionSpec

-----------------------------------------------------------------------------
(* The page of a test (flake/service.go GetFlakeDetail) *)

PagesTypeOK ==
    /\ view \in [Clients -> {"idle", "stats", "evidence", "count", "done", "notFound", "error"}]
    /\ \A c \in Clients : view[c] # "idle" => test[c] \in Tests
    /\ test \in [Clients -> Tests \cup {NoTest}]
    /\ outside \in [Clients -> SUBSET (Runs \X Nat)]
    /\ claimed \in [Clients -> Nat]
    /\ shown \in [Clients -> Nat]
    /\ counted \in [Clients -> Nat]

(* The runs of a client's evidence, and those before its cutoff            *)
EvidenceRuns(c) ==
    {r \in Runs : Row(test[c], r) \notin outside[c] /\ \E e \in events : e.test = test[c] /\ e.run = r}
Cut(c) == {row[1] : row \in outside[c]}

(* What a page says so far is on record, but for what is cut or retired.   *)
PageOK(c) ==
    LET gone == Retired(test[c])
    IN  /\ view[c] = "evidence" => claimed[c] <= Cardinality(Recorded(test[c]))
        /\ view[c] \in {"count", "done"} /\ shown[c] < EvidenceLimit =>
             claimed[c] <= shown[c] + Cardinality(gone \cup Cut(c))
        /\ view[c] = "count" =>
             /\ claimed[c] <= Cardinality(EvidenceRuns(c) \cup (gone \cup Cut(c)))
             /\ shown[c] <= Cardinality(EvidenceRuns(c) \cup gone)
        /\ view[c] = "done" =>
             /\ claimed[c] <= counted[c] + Cardinality(gone \cup Cut(c))
             /\ shown[c] <= counted[c] + Cardinality(gone)

LEMMA RunsJoined ==
    ASSUME NEW S \in SUBSET Runs, NEW T \in SUBSET Runs
    PROVE  /\ Cardinality(S \cup T) \in Nat
           /\ Cardinality(S \cup T) <= Cardinality(S) + Cardinality(T)
<1>1. S \cup T \in SUBSET Runs /\ S \cap T \in SUBSET Runs
  OBVIOUS
<1>2. /\ Cardinality(S) \in Nat /\ Cardinality(T) \in Nat
      /\ Cardinality(S \cup T) \in Nat /\ Cardinality(S \cap T) \in Nat
  BY <1>1, CountType
<1>3. Cardinality(S \cup T) = Cardinality(S) + Cardinality(T) - Cardinality(S \cap T)
  BY CountType, FS_Union
<1>4. QED
  BY <1>2, <1>3

LEMMA PageRuns ==
    ASSUME PagesTypeOK, NEW c \in Clients
    PROVE  /\ EvidenceRuns(c) \in SUBSET Runs
           /\ Cut(c) \in SUBSET Runs
           /\ Retired(test[c]) \in SUBSET Runs
<1>1. \A row \in outside[c] : row[1] \in Runs
  BY DEF PagesTypeOK
<1>2. QED
  BY <1>1 DEF EvidenceRuns, Cut, Retired

(* There is one event for each run of the evidence.                        *)
LEMMA EvidenceCount ==
    ASSUME RetentionTypeOK, PagesTypeOK, NEW c \in Clients, test[c] \in Tests
    PROVE  Cardinality(Evidence(c)) = Cardinality(EvidenceRuns(c))
<1> DEFINE t == test[c]
           row == [r \in EvidenceRuns(c) |-> Row(t, r)]
<1>1. \A e \in events : e.run \in Runs
  BY DEF RetentionTypeOK, TypeOK, Event
<1>2. row \in [EvidenceRuns(c) -> Evidence(c)]
  BY DEF EvidenceRuns, Evidence, RowsOf
<1>3. \A r, s \in EvidenceRuns(c) : row[r] = row[s] => r = s
  BY DEF Row
<1>4. ASSUME NEW y \in Evidence(c) PROVE \E r \in EvidenceRuns(c) : row[r] = y
  <2>1. PICK e \in events : e.test = t /\ y = Row(t, e.run) /\ y \notin outside[c]
    BY <1>4 DEF Evidence, RowsOf
  <2>2. e.run \in EvidenceRuns(c)
    BY <1>1, <2>1 DEF EvidenceRuns
  <2>3. QED
    BY <2>1, <2>2
<1>5. row \in Bijection(EvidenceRuns(c), Evidence(c))
  BY <1>2, <1>3, <1>4 DEF Bijection, Injection, Surjection, IsInjective
<1>6. IsFiniteSet(EvidenceRuns(c))
  BY PageRuns, CountType
<1>7. QED
  BY <1>5, <1>6, FS_Bijection DEF ExistsBijection

(* Every run in which the flake was recorded is evidence, cut or retired.  *)
LEMMA RecordedShown ==
    ASSUME RetentionTypeOK, PagesTypeOK, NEW c \in Clients
    PROVE  Recorded(test[c]) \subseteq EvidenceRuns(c) \cup (Retired(test[c]) \cup Cut(c))
<1> SUFFICES ASSUME NEW r \in Recorded(test[c]), r \notin Retired(test[c]), r \notin EvidenceRuns(c)
             PROVE  r \in Cut(c)
  OBVIOUS
<1>1. Row(test[c], r) \in outside[c]
  BY DEF Recorded, Retired, EvidenceRuns
<1>2. QED
  BY <1>1 DEF Cut, Row

(* Evidence that goes is retired, and what is retired stays so.            *)
LEMMA EvidenceStep ==
    ASSUME RetentionTypeOK, [RetentionNext]_allVars, NEW c \in Clients,
           test'[c] = test[c], test[c] \in Tests, outside'[c] = outside[c]
    PROVE  /\ Retired(test[c]) \subseteq Retired(test[c])'
           /\ EvidenceRuns(c) \subseteq EvidenceRuns(c)' \cup Retired(test[c])'
<1> DEFINE t == test[c]
<1>1. CASE events \subseteq events' /\ deletions' = deletions /\ aged \subseteq aged'
  BY <1>1 DEF Retired, EvidenceRuns, Row
<1>2. ASSUME NEW s \in Servers, DeleteOldFlakeEvents(s)
      PROVE  /\ Retired(t) \subseteq Retired(t)'
             /\ EvidenceRuns(c) \subseteq EvidenceRuns(c)' \cup Retired(t)'
  <2>1. \A r \in Runs : deletions[t][r] \in Nat
    BY DEF RetentionTypeOK
  <2>2. \A r \in Runs : deletions'[t][r] =
          IF \E e \in aged : e.test = t /\ e.run = r THEN deletions[t][r] + 1 ELSE deletions[t][r]
    BY <1>2 DEF DeleteOldFlakeEvents
  <2>3. Retired(t) \subseteq {r \in Runs : deletions'[t][r] > 0}
    BY <2>1, <2>2 DEF Retired
  <2>4. ASSUME NEW r \in EvidenceRuns(c), ~(deletions'[t][r] > 0) PROVE r \in EvidenceRuns(c)'
    <3>1. r \in Runs /\ ~\E e \in aged : e.test = t /\ e.run = r
      BY <2>1, <2>2, <2>4 DEF EvidenceRuns
    <3>2. deletions'[t][r] = deletions[t][r] /\ events' = events \ aged
      BY <1>2, <2>2, <3>1 DEF DeleteOldFlakeEvents, Old
    <3>3. QED
      BY <2>4, <3>1, <3>2 DEF EvidenceRuns, Row
  <2>5. \A r \in EvidenceRuns(c) : r \in Runs
    BY DEF EvidenceRuns
  <2>6. {r \in Runs : deletions'[t][r] > 0} \subseteq {r \in Runs : deletions'[t][r] > 0 \/ \E e \in aged' : e.test = t /\ e.run = r}
    OBVIOUS
  <2>7. QED
    BY <2>3, <2>4, <2>5, <2>6 DEF Retired
<1>3. CASE Detects
  BY <1>1, <1>3, EventsStep DEF Detects, RetentionTypeOK
<1>4. CASE Waits
  BY <1>1, <1>4 DEF Waits, vars, dbVars
<1>5. QED
  BY <1>2, <1>3, <1>4, RetentionStep

(* Steps of the program around the clients                                 *)
LEMMA PagesWait ==
    ASSUME RetentionTypeOK, PagesTypeOK, [RetentionNext]_allVars, NEW c \in Clients, PageOK(c),
           test'[c] = test[c], outside'[c] = outside[c], view'[c] = view[c],
           claimed'[c] = claimed[c], shown'[c] = shown[c], counted'[c] = counted[c]
    PROVE  PageOK(c)'
<1>1. CASE view[c] = "idle"
  BY <1>1 DEF PageOK
<1>2. CASE view[c] # "idle"
  <2> DEFINE gone == Retired(test[c])
  <2>1. test[c] \in Tests /\ claimed[c] \in Nat /\ shown[c] \in Nat /\ counted[c] \in Nat
    BY <1>2 DEF PagesTypeOK
  <2>2. gone \subseteq gone' /\ EvidenceRuns(c) \subseteq EvidenceRuns(c)' \cup gone'
    BY <2>1, EvidenceStep
  <2>3. Cut(c)' = Cut(c)
    BY DEF Cut
  <2>4. /\ gone \in SUBSET Runs /\ gone' \in SUBSET Runs /\ Cut(c) \in SUBSET Runs
        /\ EvidenceRuns(c) \in SUBSET Runs /\ EvidenceRuns(c)' \in SUBSET Runs
    BY PageRuns DEF Retired, EvidenceRuns
  <2>5. /\ Cardinality(gone) \in Nat /\ Cardinality(gone') \in Nat
        /\ Cardinality(gone) <= Cardinality(gone')
    BY <2>2, <2>4, RunsCounted
  <2>6. /\ Cardinality(gone \cup Cut(c)) \in Nat /\ Cardinality(gone' \cup Cut(c)) \in Nat
        /\ Cardinality(gone \cup Cut(c)) <= Cardinality(gone' \cup Cut(c))
    <3>1. /\ gone \cup Cut(c) \in SUBSET Runs /\ gone' \cup Cut(c) \in SUBSET Runs
          /\ gone \cup Cut(c) \subseteq gone' \cup Cut(c)
      BY <2>2, <2>4
    <3>2. QED
      BY <3>1, RunsCounted
  <2>7. /\ Cardinality(EvidenceRuns(c) \cup gone) \in Nat
        /\ Cardinality(EvidenceRuns(c)' \cup gone') \in Nat
        /\ Cardinality(EvidenceRuns(c) \cup gone) <= Cardinality(EvidenceRuns(c)' \cup gone')
    <3>1. /\ EvidenceRuns(c) \cup gone \in SUBSET Runs /\ EvidenceRuns(c)' \cup gone' \in SUBSET Runs
          /\ EvidenceRuns(c) \cup gone \subseteq EvidenceRuns(c)' \cup gone'
      BY <2>2, <2>4
    <3>2. QED
      BY <3>1, RunsCounted
  <2> DEFINE near == EvidenceRuns(c) \cup (gone \cup Cut(c))
             then == EvidenceRuns(c)' \cup (gone' \cup Cut(c))
  <2>8. /\ Cardinality(near) \in Nat /\ Cardinality(then) \in Nat
        /\ Cardinality(near) <= Cardinality(then)
    <3>1. near \in SUBSET Runs /\ then \in SUBSET Runs /\ near \subseteq then
      BY <2>2, <2>4
    <3>2. QED
      BY <3>1, RunsCounted
  <2>9. /\ Cardinality(Recorded(test[c])) \in Nat /\ Cardinality(Recorded(test[c])') \in Nat
        /\ Cardinality(Recorded(test[c])) <= Cardinality(Recorded(test[c])')
    <3>1. PICK t \in Tests : t = test[c]
      BY <2>1
    <3>2. Recorded(test[c]) = Recorded(t) /\ Recorded(test[c])' = Recorded(t)'
      BY <3>1 DEF Recorded
    <3>3. QED
      BY <3>2, RecordedCount
  <2>10. QED
    BY <2>1, <2>3, <2>5, <2>6, <2>7, <2>8, <2>9 DEF PageOK
<1>3. QED
  BY <1>1, <1>2

(* A statement of the client's own page                                    *)
LEMMA PageStep ==
    ASSUME RetentionTypeOK, StatsRecorded, PagesTypeOK, NEW c \in Clients, PageOK(c),
           OpenPage(c) \/ ReadPage(c)
    PROVE  PageOK(c)'
<1> DEFINE t == test[c]
           gone == Retired(t)
<1>1. CASE OpenPage(c) \/ FlakeNotFound(c) \/ FailPage(c)
  <2>1. view'[c] \in {"stats", "notFound", "error"}
    BY <1>1 DEF OpenPage, FlakeNotFound, FailPage, PagesTypeOK
  <2>2. QED
    BY <2>1 DEF PageOK
<1>2. CASE ReadStats(c)
  <2>1. /\ t \in Tests /\ view'[c] = "evidence" /\ claimed'[c] = stats[t].mixed
        /\ UNCHANGED <<allVars, test>>
    BY <1>2 DEF ReadStats, PagesTypeOK
  <2>2. Recorded(t)' = Recorded(t)
    BY <2>1 DEF allVars, detectionVars, vars, dbVars, retentionVars, Recorded
  <2>3. QED
    BY <2>1, <2>2 DEF PageOK, StatsRecorded
<1>3. CASE ReadEvidence(c)
  <2>1. /\ t \in Tests /\ view[c] = "evidence" /\ view'[c] = "count"
        /\ shown'[c] = Limited(Cardinality(Evidence(c)))
        /\ UNCHANGED <<allVars, test, outside, claimed>>
    BY <1>3 DEF ReadEvidence, PagesTypeOK
  <2>2. gone' = gone /\ Cut(c)' = Cut(c) /\ EvidenceRuns(c)' = EvidenceRuns(c)
    BY <2>1 DEF allVars, detectionVars, vars, dbVars, retentionVars, Retired, Cut, EvidenceRuns, Row
  <2>3. /\ EvidenceRuns(c) \in SUBSET Runs /\ gone \in SUBSET Runs /\ Cut(c) \in SUBSET Runs
        /\ gone \cup Cut(c) \in SUBSET Runs /\ EvidenceRuns(c) \cup gone \in SUBSET Runs
        /\ Recorded(t) \in SUBSET Runs /\ EvidenceRuns(c) \cup (gone \cup Cut(c)) \in SUBSET Runs
    BY PageRuns DEF Recorded
  <2>4. Recorded(t) \subseteq EvidenceRuns(c) \cup (gone \cup Cut(c))
    BY RecordedShown
  <2>5. /\ Cardinality(Recorded(t)) \in Nat
        /\ Cardinality(Recorded(t)) <= Cardinality(EvidenceRuns(c) \cup (gone \cup Cut(c)))
    BY <2>3, <2>4, RunsCounted
  <2>6. /\ Cardinality(EvidenceRuns(c) \cup (gone \cup Cut(c))) \in Nat
        /\ Cardinality(EvidenceRuns(c) \cup (gone \cup Cut(c)))
             <= Cardinality(EvidenceRuns(c)) + Cardinality(gone \cup Cut(c))
    BY <2>3, RunsJoined
  <2>7. /\ Cardinality(EvidenceRuns(c)) \in Nat /\ Cardinality(gone \cup Cut(c)) \in Nat
        /\ Cardinality(EvidenceRuns(c) \cup gone) \in Nat
        /\ Cardinality(EvidenceRuns(c)) <= Cardinality(EvidenceRuns(c) \cup gone)
    BY <2>3, CountType, RunsCounted
  <2>8. /\ shown'[c] <= Cardinality(EvidenceRuns(c)) /\ shown'[c] \in Nat
        /\ shown'[c] < EvidenceLimit => shown'[c] = Cardinality(EvidenceRuns(c))
    BY <2>1, <2>7, EvidenceCount, FlakePagesAssumption DEF Limited
  <2>9. claimed[c] \in Nat /\ claimed[c] <= Cardinality(Recorded(t))
    BY <2>1 DEF PageOK, PagesTypeOK
  <2>10. /\ shown'[c] < EvidenceLimit => claimed[c] <= shown'[c] + Cardinality(gone \cup Cut(c))
         /\ claimed[c] <= Cardinality(EvidenceRuns(c) \cup (gone \cup Cut(c)))
    BY <2>5, <2>6, <2>7, <2>8, <2>9
  <2>11. shown'[c] <= Cardinality(EvidenceRuns(c) \cup gone)
    BY <2>7, <2>8
  <2>12. QED
    BY <2>1, <2>2, <2>10, <2>11 DEF PageOK
<1>4. CASE CountEvidence(c)
  <2>1. /\ t \in Tests /\ view[c] = "count" /\ view'[c] = "done"
        /\ counted'[c] = Cardinality(Evidence(c))
        /\ UNCHANGED <<allVars, test, outside, claimed, shown>>
    BY <1>4 DEF CountEvidence, PagesTypeOK
  <2>2. gone' = gone /\ Cut(c)' = Cut(c)
    BY <2>1 DEF allVars, detectionVars, vars, dbVars, retentionVars, Retired, Cut
  <2>3. /\ EvidenceRuns(c) \in SUBSET Runs /\ gone \in SUBSET Runs
        /\ gone \cup Cut(c) \in SUBSET Runs
    BY PageRuns
  <2>4. /\ Cardinality(EvidenceRuns(c) \cup gone) \in Nat
        /\ Cardinality(EvidenceRuns(c) \cup gone) <= Cardinality(EvidenceRuns(c)) + Cardinality(gone)
        /\ Cardinality(EvidenceRuns(c)) \in Nat /\ Cardinality(gone) \in Nat
    BY <2>3, RunsJoined, CountType
  <2>5. /\ Cardinality(EvidenceRuns(c) \cup (gone \cup Cut(c))) \in Nat
        /\ Cardinality(EvidenceRuns(c) \cup (gone \cup Cut(c)))
             <= Cardinality(EvidenceRuns(c)) + Cardinality(gone \cup Cut(c))
        /\ Cardinality(gone \cup Cut(c)) \in Nat
    BY <2>3, RunsJoined, CountType
  <2>6. counted'[c] = Cardinality(EvidenceRuns(c))
    BY <2>1, EvidenceCount
  <2>7. /\ shown[c] \in Nat /\ shown[c] <= Cardinality(EvidenceRuns(c) \cup gone)
        /\ claimed[c] \in Nat /\ claimed[c] <= Cardinality(EvidenceRuns(c) \cup (gone \cup Cut(c)))
    BY <2>1 DEF PageOK, PagesTypeOK
  <2>8. /\ shown[c] <= counted'[c] + Cardinality(gone)
        /\ claimed[c] <= counted'[c] + Cardinality(gone \cup Cut(c))
    BY <2>4, <2>6, <2>7, <2>5
  <2>9. QED
    BY <2>1, <2>2, <2>8 DEF PageOK
<1>5. QED
  BY <1>1, <1>2, <1>3, <1>4 DEF ReadPage

LEMMA PagesTyped ==
    ASSUME RetentionTypeOK, PagesTypeOK, [PagesNext]_pagesVars
    PROVE  PagesTypeOK'
<1>1. CASE UNCHANGED pageVars
  BY <1>1 DEF pageVars, PagesTypeOK
<1>2. ASSUME NEW c \in Clients, OpenPage(c) PROVE PagesTypeOK'
  <2>0. PICK t \in Tests : \E rows \in SUBSET RowsOf(t, events) :
          test' = [test EXCEPT ![c] = t] /\ outside' = [outside EXCEPT ![c] = rows]
    BY <1>2 DEF OpenPage
  <2>1. PICK rows \in SUBSET RowsOf(t, events) :
          test' = [test EXCEPT ![c] = t] /\ outside' = [outside EXCEPT ![c] = rows]
    BY <2>0
  <2>2. \A e \in events : e.run \in Runs /\ deletions[t][e.run] \in Nat
    BY DEF RetentionTypeOK, TypeOK, Event
  <2>3. rows \in SUBSET (Runs \X Nat)
    BY <2>2 DEF RowsOf, Row
  <2>4. QED
    BY <1>2, <2>1, <2>3 DEF OpenPage, PagesTypeOK
<1>3. ASSUME NEW c \in Clients, ReadStats(c) PROVE PagesTypeOK'
  <2>1. stats[test[c]].mixed \in Nat
    BY <1>3 DEF ReadStats, RetentionTypeOK, TypeOK, Stats, PagesTypeOK
  <2>2. QED
    BY <1>3, <2>1 DEF ReadStats, PagesTypeOK
<1>4. ASSUME NEW c \in Clients, FlakeNotFound(c) \/ FailPage(c) PROVE PagesTypeOK'
  BY <1>4 DEF FlakeNotFound, FailPage, PagesTypeOK
<1>5. ASSUME NEW c \in Clients, ReadEvidence(c) \/ CountEvidence(c) PROVE PagesTypeOK'
  <2>1. view[c] # "idle"
    BY <1>5 DEF ReadEvidence, CountEvidence
  <2>2. Cardinality(Evidence(c)) \in Nat /\ Limited(Cardinality(Evidence(c))) \in Nat
    BY <2>1, EvidenceCount, PageRuns, CountType, FlakePagesAssumption DEF PagesTypeOK, Limited
  <2>3. QED
    BY <1>5, <2>2 DEF ReadEvidence, CountEvidence, PagesTypeOK
<1>6. QED
  BY <1>1, <1>2, <1>3, <1>4, <1>5 DEF PagesNext, ReadPage, pagesVars

PagesInv == RetentionInv /\ PagesTypeOK /\ \A c \in Clients : PageOK(c)

LEMMA PagesInvStep == PagesInv /\ [PagesNext]_pagesVars => PagesInv'
<1> SUFFICES ASSUME PagesInv, [PagesNext]_pagesVars PROVE PagesInv'
  OBVIOUS
<1> USE DEF PagesInv
<1>1. [RetentionNext]_allVars
  BY DEF PagesNext, pagesVars, OpenPage, ReadPage, ReadStats, FlakeNotFound, ReadEvidence, CountEvidence,
     FailPage
<1>2. RetentionInv'
  BY <1>1, RetentionInvStep
<1>3. RetentionTypeOK /\ StatsRecorded
  BY DEF RetentionInv
<1>4. ASSUME NEW c \in Clients PROVE PageOK(c)'
  <2>1. CASE UNCHANGED pageVars
    BY <1>1, <1>3, <2>1, PagesWait DEF pageVars
  <2>2. CASE OpenPage(c) \/ ReadPage(c)
    BY <1>3, <2>2, PageStep
  <2>3. ASSUME NEW d \in Clients, d # c, OpenPage(d) \/ ReadPage(d) PROVE PageOK(c)'
    <3>1. /\ test'[c] = test[c] /\ outside'[c] = outside[c] /\ view'[c] = view[c]
          /\ claimed'[c] = claimed[c] /\ shown'[c] = shown[c] /\ counted'[c] = counted[c]
      BY <2>3 DEF OpenPage, ReadPage, ReadStats, FlakeNotFound, ReadEvidence, CountEvidence,
         FailPage, PagesTypeOK
    <3>2. QED
      BY <1>1, <1>3, <3>1, PagesWait
  <2>4. QED
    BY <2>1, <2>2, <2>3 DEF PagesNext, pagesVars
<1>5. QED
  BY <1>2, <1>3, <1>4, PagesTyped

(* The page of a test accounts for the flaky runs it claims, by the total  *)
(* always and by the events it shows unless the list is cut at its limit,  *)
(* although it is read in three moments (flake/service.go:112-220).        *)
THEOREM PagesAccount == PagesSpec => []PageAccounts
<1>1. PagesInit => PagesInv
  BY RetentionInitHolds DEF PagesInit, PagesInv, PagesTypeOK, PageOK
<1>2. PagesInv => PageAccounts
  BY DEF PagesInv, PageOK, PageAccounts, Cut
<1>3. QED
  BY <1>1, <1>2, PagesInvStep, PTL DEF PagesSpec
=============================================================================
