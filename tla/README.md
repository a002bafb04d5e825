# FlakeGuard: TLA+ models, checks and proofs

FlakeGuard receives JUnit reports from CI, stores them in PostgreSQL, and finds
*flakes*: tests that failed in one attempt of a CI run and passed in a later
attempt of the same run. It is a Go program of stateless HTTP handlers; all
shared state is in the database, and every interesting interleaving is one of
SQL statements of concurrent requests at PostgreSQL's default isolation level,
READ COMMITTED. This directory models those parts whose correctness depends on
such interleavings, on failures between two steps, or on a case distinction.

## Inventory

| Component | State | Operations | Interacts with | Hard part | What makes it correct |
|---|---|---|---|---|---|
| ingestion `ingest/` | `test_results`, `ci_runs`, `ci_run_attempts`, `ci_jobs`, `junit_files`, `ingestions` | `POST /ingest/junit`: authenticate, parse, one transaction | calls detection after its commit | retries, conflicting and late attempts, failure between the two transactions | the first result of an attempt stays |
| flake detection `flake/detector.go` | `flake_events` | `DetectFlakes`, one transaction | reads results; calls statistics; starts Slack goroutines | same flake found by several requests, unique keys, aborted transactions, deadlocks | one justified event per test and run, none missed |
| statistics `flake/stats.go` | `flake_stats` | `UpdateStats` inside that transaction | reads results and events | counts read in separate snapshots, lost updates | never more than the tables hold |
| Slack `slack/`, `notifySlackAsync` | none | one POST per new event, in a goroutine | reads project settings | at-most-once, lost on a crash, settings that change meanwhile | only committed events, each once, only where Slack was on |
| members `orgs/members_service.go` | `org_memberships` | `UpdateMemberRole`, `RemoveMember` | invites insert memberships | last owner, stale role of the actor, deadlocks | an owner remains, decisions hold when they take effect |
| invites `orgs/invites_service.go` | `org_invites` | `CreateInvite`, `RevokeInvite`, `AcceptInvite` | writes memberships | accept against revoke against replace | one verdict per invite |
| API keys `apikeys/`, `apikey/` | `api_keys` | create, rotate, revoke; authentication of uploads | guards ingestion | racing rotations, names, clocks, early failures | a rotation is one exchange |
| migrations `db/migrations.go` | schema, `schema_migrations` | `RunMigrations` at startup in dev mode | startup of the server | several servers, a crash between apply and record | files in order, whole schema before serving |
| retention `retention/`, scheduler in `cmd/flakeguard/main.go` | deletes events, clears files | a daily job on each server | removes what statistics count and pages show | deletion beside detection, failing statements, servers that stop | only old data goes, and goes in the end |
| flake queries `flake/service.go`, `flake/handlers.go` | none | the list, the page of a test | read what detection writes and retention deletes | a page is three statements, each with its own snapshot | a page accounts for what it claims |
| projects and Slack settings `projects/` | `projects` | create, configure Slack, remove Slack | read by notification goroutines; write audit entries | check, change and entry are separate statements | on only with a webhook |
| audit log `audit/` | `audit_log` | one INSERT after a change; pages of the log | all handlers | written after the commit, errors only logged; pages read while others write | entries account for changes; a reader misses none |
| user authentication `auth/` | `users`, a map of failed logins | signup, login, logout | all pages | the map is shared, under one mutex, and only grows | not modelled |
| web pages, routing, configuration, upload limits, CLI | none | | | | not modelled: no state of their own |

## Plan

1. *Done.* `FlakePattern`, `FlakeDetection`, `FlakeLedger` and their proofs: what
   the program is for.
2. *Done.* `OrgMembers`, `OrgInvites`: the rules about who may do what, with row
   locks and deadlocks; held against `Organization`.
3. *Done.* `ApiKeys`, `KeyRing`: rotation, and who is let in.
4. *Done.* `Migrations`.
5. *Done.* `FlakeRetention`, an extension of `FlakeDetection` by the retention job,
   and `FlakePages`, an extension of that by a client who opens the page of a test.
6. *Done.* `ProjectSettings`, composed with `AuditLog` and held against `Notices`.
7. *Done.* Proofs of every safety property and refinement that a run checks.
   Waits are stated as safety (`WaitsEnd`, `InviteWaitsEnd`, `KeyWaitsEnd`), so that
   the part of the liveness which depends on locks is proved too.
8. Left: the limiter of audit entries on failed logins (`auth/`), whose map is
   never emptied; signup beside invites; the audit entries of the member, invite
   and key handlers, which follow their commits as those of `ProjectSettings` do;
   the lists of flakes with their filters.

## Modules

| Module | What it is |
|---|---|
| `FlakePattern` | `detectFlakePattern` as operators on a history (attempt -> status), and the definition of a flake |
| `FlakeDetection` | uploads, the ingestion and detection transactions, statistics, notifications, faults |
| `FlakeLedger` | abstract specification of the tables `test_results` and `flake_events` |
| `OrgMembers` | role changes and removals |
| `OrgInvites` | extends `OrgMembers` by invites |
| `Organization` | abstract specification of memberships and invites: offer, withdraw, find, accept, change |
| `ApiKeys` | create, rotate, revoke, and the authentication of uploads |
| `KeyRing` | abstract specification of API keys: issue, exchange, withdraw |
| `Migrations` | servers that migrate at startup |
| `FlakeRetention` | extends `FlakeDetection` by time and the retention job |
| `FlakePages` | extends `FlakeRetention` by clients that open the page of a test |
| `AuditLog` | entries of the audit log and readers that page through it |
| `ProjectSettings` | extends `AuditLog` by the requests that change a project and the goroutines that read it |
| `Notices` | abstract specification of Slack messages: one attempt each |
| `MC*` | small instances for TLC: inputs, initial states, symmetry |
| `*Proofs` | theorems |
| `FiniteLemmas` | lemmas about finite sets that several of them use |

How state corresponds to the code:

* **Database tables** are functions or sets (`results`, `events`, `stats`, `role`,
  `invites`, `key`, `recorded`). Only committed rows are in them, except in
  `ApiKeys`, where a row names the request that made it (`maker`) and is
  committed once that request is done (`Committed`).
* **A request** is an element of `Uploads`, `Requests` or `Ops` with a `pc` that
  names its next SQL statement; its Go local variables are functions from
  requests (`todo`, `cur`, `total`, `actorRole`, `toLock`, `expires` ...). What it
  has written and not committed is `own`, `ownStats`, `revoked`, `inserted`.
* **One action per SQL statement** with the Go code around it. An action ends
  where the next statement of another request can run in between. A single
  autocommitted statement (`RevokeInvite`, `Create`, `RevokeKey`) is one action.
  The last write of a transaction and its COMMIT are one action, because nobody
  sees the write before the COMMIT and its row is already locked.
* **Locks.** `lock`, `inviteLock` and the pc of a rotation say who holds a row of
  `SELECT ... FOR UPDATE`; an action that needs a row held by another request is
  not enabled. A locking statement picks its rows in a snapshot and locks them
  one at a time, in any order; a row that no longer matches is dropped, as READ
  COMMITTED does. An INSERT waits for an uncommitted row with the same unique key.
* **Deadlocks.** Where a cycle of waits is possible, one member fails: `Blockers(q)`
  are the requests that `q` waits for, `Deadlocked(q)` says that `q` belongs to a
  group in which everybody waits for a member and is waited for by one.
  PostgreSQL breaks single circles; such a group holds one and is no more than
  circles that meet, and which of its members fails is left open.
* **Aborted transactions.** After an error every statement of a transaction
  fails and its COMMIT rolls back (`aborted` in `FlakeDetection`).

### FlakeDetection

`Receive` stands for `HandleJUnitUpload` up to `PersistIngestion`: a report that
was refused changes nothing. `PersistIngestion` is one action: uploads of one
run are serialized by the row lock that `upsertCIRun` takes and holds, uploads
of other runs write other result rows, and deadlocks on `test_cases` are
covered by `CancelRequest`. Then `ReadAttempts` (`getTestAttempts`),
`NextTest` (the loop over a Go map, in any order), `InsertEvent`,
`DuplicateEvent` or `InsertInAborted` (`insertFlakeEvent`), `CountTotalRuns`,
`CountMixedOutcomeRuns` and `UpsertStats` or `ScoreRejected` (`UpdateStats`),
`CommitDetection` or `CommitAborted`. `NotifySlack` is one goroutine.
`CancelRequest` rolls back an open transaction at any point; `LoseCommitAnswer`
commits and reports a failure; `ServerCrash` drops all requests and goroutines.
One project, job and variant are modelled: test identity separates the others.

### OrgMembers and OrgInvites

A removal is a change to `NotMember`: `UpdateMemberRole` and `RemoveMember` take
the same path but for the rules of `AdminMay`. `OrgMembers` allows any
accepted invite (`Join`) at any time; `OrgInvites` replaces that by the three
invite operations and is shown to implement `OrgMembers` (`AsMembers`), so
everything proved of members holds with invites too. Both kinds of rows together
implement `Organization` (`ImplementsOrganization`), in which an acceptance is one
step that ends an open invite and makes its addressee a member with the role it
names, and an offer may replace what is open for its address. An acceptance by
someone who is a member already adds nobody: `AcceptInvite` reads that membership
back (`MarkAccepted`) without a lock and commits later (`CommitAccept`), and a removal
may come between. `Organization` says so with `found`, the open invites whose addressee
was found to be a member (`Find`; `GiveUp` when the acceptance fails): they alone may
be used up without making a member, and while they are in `found` nobody revokes them. Initial states are all
memberships with an owner, which is what creation and invites can lead to.
A server crash ends single requests as `CancelRequest` and `CancelOp` do. A COMMIT of an invite request that takes effect
although its answer is lost leaves the outcome `cancelled`, which says nothing of the
tables (`UseUp`, `InsertInvite`, `RevokeInvite`).

Requests about invites lock each other in two ways: the UPDATE of a creation locks
the open invites of its address in any order, so that two creations may deadlock
where two are open (`OpDeadlockVictim`), and two acceptances by one user insert the
same membership. That INSERT waits for no member request: one that has locked the row
leaves it there until it writes and commits, which is one action, and `ON CONFLICT
DO NOTHING` does not wait for a lock alone.

### ApiKeys

The handler's unlocked read (`ReadForRotate`) computes the inherited expiry;
`Begin` fixes the database's `NOW()`; `LockKey`, `InsertHeir`, `CommitRotation`
are the transaction. `Holders` is who holds the row of a key. The Go check that the final UPDATE touched a row is not an
action: `LocksOK` in the proved invariant shows that it always does. Days stand
for instants; the server's and the database's clocks are one `day` read at
different statements. `maker`, `revokedBy`, `parent` are history of a row, as
the audit entries record it. Left out: `last_used_at`, the token, and the
permission of the caller, which is checked once before everything modelled. A COMMIT
that takes effect although its answer is lost, of a rotation or of the single statement
of a creation or a revocation, gives the request the outcome `lost`: the handler
answers 500, the key is made or ended all the same (`Effect`, `TookEffect`).

### Migrations

Servers start, list `schema_migrations`, apply a file and record it in two steps,
as `applyMigration` does. A file in `OneShot` fails on a schema that has it:
`0004_api_keys_expiration.sql` has an `ADD CONSTRAINT` without a guard; the
others are written to be repeatable. That two servers may fail on each other's
DDL inside one file is a `Crash`.

A server that is `down` includes one that has not been started; which files there
are never changes.

### FlakeRetention and FlakePages

The age of a row is a flag: `aged` holds the events older than 180 days, `expired`
says that some file older than 30 days still has its content. `StartJob`,
`ClearOldJunitContent` and `DeleteOldFlakeEvents` are the job of one server's
scheduler; `FailJob` is a statement that fails, after which the job gives up until
the next day; `StopJobs` happens with `ServerCrash`. Each of the two statements is
one transaction. An event does not grow old while its goroutine is about to post:
a goroutine lives for seconds. `deletions` counts how often a test lost an old
event in a run; it makes a deleted and re-created event two.

In `FlakePages` a client chooses how far back it looks: the rows in `outside` are
before its cutoff, either some of the old ones or all of them and more.
`ReadStats`, `ReadEvidence` and `CountEvidence` are the three statements of the
page, which the API and the web page (`web/flake_handlers.go`) share; both show at most
100 events, `EvidenceLimit`. Any failure of the first statement is answered as not found
(`FlakeNotFound`), one of the others as an internal error (`FailPage`). `PageAccounts`
therefore has two parts: what a page claims is accounted for by the total it counts
whatever the limit is, and by the events it shows when these are fewer than the limit.

### ProjectSettings, AuditLog and Notices

A request is `LoadProject` (`GetByID`), `Authorize` (`RequireOrgMutatePermission`),
`ChangeProject` (one statement: INSERT for `Create`, UPDATE for `ConfigureSlack` and
`RemoveSlack`), `LogEntry` and `WriteEntry` (the INSERT of the audit entry, which
begins, fixing `created_at`, and commits), each with its refusal. `mutators` are the
users whose role allows changes; it changes at any time (`ChangeRole`), also between
the check and the change. `LoseAnswer` is a change that is committed although the
handler sees an error. `GetSlackWebhookURL` has no callers and is left out.

A goroutine is started (`StartNotification`) by a detection that committed, reads
the settings in one statement (`LoadSettings`) and posts (`PostNotification`).
`SkipNotification` is every way in which it ends without a message: Slack is off,
a read fails, or the request does not reach Slack. An answer of Slack that is not
success, or that does not come in time, is only logged.

An audit entry is its `created_at`, a number; requests are given different ones.
(Two entries with the same `created_at` have no defined order, because ORDER BY has
no tie-breaker, and a page boundary between them may skip one.) A reader is
`OpenLog`, then `CountEntries` and `FetchPage` in turns until a page is empty, or,
if it goes by the total (`byTotal`), until it was sent as many entries as the total
said. `offered` and `owed` are history, for the properties.

## Runs

| Run | Bounds | Shows |
|---|---|---|
| `flake_detection` | 3 uploads, 2 tests, 1 run, 3 attempts, 1 fault | the scan agrees with the definition; events are announced once and none is missed, late results unmake none; implements `FlakeLedger` |
| `flake_stats` | 4 uploads, 2 tests, 2 runs, no fault | `StatsBacked`; of uploads that wait one always goes on or fails (`WaitsEnd`); uploads are answered |
| `org_members` | 3 users, 2 requests, every change asked for by two of them | inductive invariant with "an owner remains"; decisions hold; of requests that wait one always goes on; requests are answered |
| `org_invites` | an owner and a guest, 4 invites, 2 invite requests, 1 removal | inductive invariant; one verdict per invite; `InviteWaitsEnd`; implements `OrgMembers` and `Organization`; answered |
| `api_keys` | 3 keys, 3 names, 2 requests, 1 upload, 2 days | ended once, limits inherited, revoked tokens shut out, implements `KeyRing`; inductive invariant; short waits (`KeyWaitsEnd`); answered |
| `migrations` | 4 files (the repository's), 2 servers, 2 crashes | files in order, whole schema before serving; only a half-applied file keeps a server from serving |
| `project_settings` | 2 requests, 1 project, 2 webhooks, 1 flake, 1 reader, 1 earlier entry, page size 1 | the log accounts for the changes, messages go only where Slack was on and implement `Notices`, readers miss no entry, inductive invariant; requests and goroutines end |
| `retention` | 4 uploads of 1 test in 2 runs, 2 servers, 1 fault, 1 page of at most 1 event | only old events go missing and are announced again, statistics and pages stay accounted for, inductive invariant; old data goes |

Why the bounds are enough: three uploads are the least with which a flake (two)
meets a third that repeats, contradicts or races; with three attempts two
uploads can see the same flake as different pairs of attempts; two tests make an
aborted or deadlocked transaction lose something; two runs and four uploads are
the least with which statistics are lost. Two requests are every pair of racing
operations, and a third user or key is the bystander that must not be touched.
Four invites are the two that the guest may have at first, which is what it
takes for two creations to deadlock over them, and a row for each creation; requests
revoke and accept the first two. Runs with
liveness properties cannot use TLC's symmetry. There the MC module fixes names
instead: users are numbered by their first roles, keys and names are taken in
order, uploads are dealt their reports. `flake_detection` uploads attempts that
fail or pass as a whole and retries of a single test that pass; that the scan
agrees with the definition for every mix of outcomes is proved. `flake_stats`
injects no faults: those are in `flake_detection`, and `StatsBacked` and `WaitsEnd`
with faults are proved. In `project_settings` the first of the two requests arrives first,
one webhook is only ever switched on, and a behaviour has a goroutine or a
reader, which have nothing to do with each other; two requests and an earlier
entry are the least with which an entry is written between two pages of a reader
and another before it. In `retention` the failing upload of each run is stored
before the retries come, which is every way in which a flake arises but for the
order of its two attempts, and a behaviour has a page or one fault. A page is cut
when it shows one event of two, and two servers are the least whose jobs run at once:
one may clear or delete between the steps of the other, or hang for good. `MaxFaults`, `MaxJobFaults`, `MaxCrashes`, `MaxDay`,
`EvidenceLimit` and the sizes of the constant sets are
the only bounds; the theorems hold without them. `CHECK_DEADLOCK FALSE` is in
every configuration because a finished set of requests is a final state.

### What the code says of itself and does not keep

Each of these runs violates one property that quotes the repository.

| Run | What is said | What happens |
|---|---|---|
| `duplicates_tolerated` | detector.go:98: duplicates are logged and do not fail | the duplicate aborts the transaction, the other flakes of the detection are lost with it |
| `stats_count_mixed_runs` | stats.go:109: counts the runs with both outcomes | two concurrent detections lose an update |
| `score_in_range` | 0001_schema.sql:250: a score is at most 1 | the counts are read in two snapshots, the CHECK refuses the score and the detection is lost |
| `one_active_invite` | extra-implementations.md:21 | two concurrent creations leave two active invites |

More disagreements and oddities can be read off the models without a run of
their own:

* extra-implementations.md:30 says that an ADMIN cannot change an OWNER or ADMIN;
  a request that read its actor as OWNER (`ReadActor`) still does so after the
  actor was demoted. `Authorize` of `ProjectSettings` has the same window.
* extra-implementations.md:27 speaks of leaving an organization; `RefuseActor`
  refuses a MEMBER or VIEWER who asks for it.
* development.md:29 says that migrations run at startup. A crash between `Apply` and
  `Record` of 0004 stops every later start: `ApplyFails`, and `HalfApplied` in
  `ServesUnlessHalfApplied`. That no restart mends it is proved (`NothingMends`).
* A user may be told that they accepted an invite and be no member: one who was a
  member, and was removed between the read of their role and the COMMIT of
  `AcceptInvite` (invites_service.go:261-269). The invite is used up, so they need a
  new one. `ImplementsOrganization` allows this and no other way.
* runbook.md:47 and retention.go:31 say that aggregated statistics are preserved when
  events are deleted. They stay until the next flake of the test; then `UpsertStats`
  counts the events that are left and the number drops.
* runbook.md:29 gives removing the webhook as the way to stop Slack messages; a
  goroutine that has read the settings still posts (`PostedWhereConfigured` says how
  late).
* A page size above 200 is not cut to 200 but replaced by the default of 50
  (`AppliedLimit`).

## Fairness

Weak fairness of a request's own steps: Go keeps running a handler, and
PostgreSQL wakes a waiter when a lock is released. No fairness is assumed of
arrivals, faults, cancellations, expiry or the clock. Deadlock resolution is a
step of the request, as `deadlock_timeout` guarantees. Notification goroutines of
`FlakeDetection` are not fair: nothing there waits for them. `Migrations` assumes
that a server that did not start is started again; it assumes nothing of crashes. `FlakeRetention`
assumes that of the servers' jobs one always takes a step, and the next day the next
one: not that each of them does, so that old data goes even if all servers but one hang.
Failing statements are bounded by `MaxJobFaults`, so that one day a job gets through. In
`ProjectSettings` a handler and a goroutine keep running; the latter's post ends at
the timeout of its HTTP client. Role changes, readers and detections are not fair.

## Proofs

All theorems hold for every number of users, uploads, requests, tests, runs,
keys, names and for unbounded faults and time.

| Module | Theorems | Argument |
|---|---|---|
| `FlakeDetectionProofs` | `PatternCorrect`, `PatternsCorrect`, `LateResultsHarmless` | the failure at which the scan stops and the earliest failure have the same first later pass, or the earlier one would have stopped it; a stored report only adds rows |
| | `TypeCorrect`, `DetectionInvariant`, `EventsCorrect`, `NoFlakeIsMissed` | `DetectionInv`: what a detection has read stays justified because results are never replaced (`CandidatesJustified`); uncommitted events own their keys (`KeysClaimed`); each flake in the results has an event or a request that answers for it (`FlakesCovered`) |
| | `LedgerImplemented` | a step stores results, commits `own`, or stutters; `KeysClaimed` and `CandidatesJustified` make the batch a legal one |
| | `AnswersCorrect`, `PostsCorrect`, `StatsCorrect`, `SystemInvariant` | the outbox holds committed events that have not been posted; `CountsBacked`: events and results only grow, so counts read earlier are still backed |
| | `NoDetectionStranded` | an upload waits only for detections under way (`HoldersDetect`), and see below on waits |
| `FlakeRetentionProofs` | `RetentionInvariant`, `NotificationsBounded`, `OnlyDeletedMissing` | events no longer only grow, but the runs in which one was recorded do (`Recorded`): `CountsRecorded` and `FlakesAccounted` say of `Recorded` what the invariants of detection say of events; `AgedTold` keeps an event until it was told |
| | `LateResultsHarmlessAlways`, `LedgerForgets` | a step of `FlakeRetention` is one of detection, leaves the tables alone, or deletes old events, which `FlakeLedger` allows as `Forget` (`ForgetsEvents`) |
| | `NoDetectionStrandedWithRetention` | the job holds no row between two of its statements |
| | `PagesAccount` | an event that a statement of the page saw is still there for the next, or its run is `Retired`, which only grows; a list shorter than the limit is all of them |
| `OrgMembersProofs` | `MembersInvariant`, `OwnerRemains`, `DecisionsHold` | `RowsHeld`: owners counted are locked until the commit, so of two owners counted one is left |
| | `NobodyStranded` | who holds a row is under way (`HoldersRun`), and see below on waits |
| `OrgInvitesProofs` | `InvitesImplementMembers`, `OwnerRemainsWithInvites`, `DecisionsHoldWithInvites`, `NobodyStrandedWithInvites` | a step of the invite requests is a `Join` or leaves members alone, so what is proved of `OrgMembers` carries over |
| | `SettledForGood`, `OneVerdictOnly`, `InvitesInvariant` | `InvitesHeld`: what a request is about to settle it holds and has seen open, so that nobody has a verdict on it yet |
| | `PromiseKept` | `WorkOK`: what a request revokes is open and made out to its addressee, what it accepts to its actor, because an invite is never readdressed; `FoundStays`, `MarkFinds`, `CancelGivesUp`: what is in `found` is held by the one acceptance that found it |
| | `NoInviteStranded` | see below on waits |
| `ApiKeysProofs` | `RotationsInvariant`, `KeysEndOnce`, `KeysTyped`, `LimitsInherited`, `DeadTokensShutOut`, `RingImplemented` | `LocksOK`: one rotation at a time is past its lock, and its key is not revoked; `EndsOK`: a request that took effect, told so or not, is the one its key names |
| | `KeyWaitsAreShort` | a request that holds a row waits at most for a name, and who holds a name is about to commit |
| `ProjectSettingsProofs` | `SettingsInvariant`, `TrailAccounts`, `PostsAllowed`, `WalksComplete`, `NoticesImplemented` | `StampsOK`: entries are stamped apart and in the past; `WalksOK`: `Newer` is injective, so a page of L entries covers the L places behind the offset, and a new entry only pushes others back; `ReadsOffered`: what a goroutine has read was on since it began |
| `MigrationsProofs` | `MigrationsInvariant`, `FilesInOrder` | `BeliefsOK`: what a server has read is a part of what is recorded, from the first file on; `TablesOK`: at most one file is applied and not recorded, so a server that applies another has the file before it recorded |
| | `NothingMends` | a file that is applied, unrecorded and cannot be repeated is the pending one of every server, whose `Apply` fails (`HalfAppliedForGood`) |

**Waits.** `WaitsEnd` and `InviteWaitsEnd` say of every group of requests that wait
for nobody outside it, some of them under way, that one goes on: it waits for nobody,
or it is the member of a deadlock that fails. So nobody waits for ever for others who
wait, as long as those under way keep running, which is the fairness that the liveness
properties assume. The argument is `SomeCircle` of `FiniteLemmas`: in a finite group
in which everybody waits for a member some wait in a circle, which is what the
deadlock detection finds. What has to be proved of the code is that a holder of a row
is itself a request under way, not one that ended without releasing it. `KeyWaitsEnd`
says more of the keys: there are no circles there, and a wait ends after at most two
others have finished and what was waited for is free.

Assumptions on constants are the named `ASSUME`s of the modules: attempts are
positive, sets of requests and runs are finite, markers such as `NoRequest` are
not requests. TLC evaluates them in every run.

Every safety property, action property and refinement that a passing run checks is a
theorem. Some theorems state formulas that are in no run: inductive invariants and
their parts, and the action properties and the refinement of `SettledForGood`,
`NothingMends` and `LedgerForgets`. Only model-checked: liveness (`Answered` of three modules, `InviteAnswered`,
`RequestsAnswered`, `NotificationsEnd`, `OldDataGoes`, `ServesUnlessHalfApplied`),
because liveness under fairness and `ENABLED` are beyond the prover, and the
violations above, which TLC shows by a behaviour.

## Not modelled

User authentication: signed cookies and password hashes need no shared state. Its
one shared structure, the map that limits audit entries on failed logins, is used
under a mutex in one step and can only be wrong by growing without end; it is in
the plan. Lists and web pages, which select and format what other parts keep;
parsing and limits (an upload is a report or is refused); strings, so neither
byte-wise truncation nor token collisions; `last_used_at`; the audit entries of
other handlers than those of projects; creation of organizations, of which the
models take the result as initial states; pool exhaustion; PostgreSQL itself,
beyond what is listed above.
