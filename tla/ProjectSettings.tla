-------------------------- MODULE ProjectSettings --------------------------
(***************************************************************************)
(* The projects of one organization and their Slack settings (projects/),  *)
(* the goroutines that read the settings to announce a flake               *)
(* (flake/detector.go, slack/client.go), and the audit entries that the    *)
(* changes leave (audit/audit.go).                                         *)
(*                                                                         *)
(* A request checks, changes and logs with separate statements, so that    *)
(* others run in between; each change is a single statement.  A goroutine  *)
(* reads the settings once and posts later, with a context of its own.     *)
(***************************************************************************)
EXTENDS AuditLog

CONSTANTS Users, Slugs, Hooks,
          Asks,         \* the requests that are made
          Flakes,       \* new flake events that are announced
          ProjectOf     \* the project of a flake

NoHook == "no webhook"
NoProject == [hook |-> "no project"]
Settings == [enabled : BOOLEAN, hook : Hooks \cup {NoHook}]

\* HandleCreate needs a slug; HandleConfigureSlack a webhook, even to switch it off.
Ask == [op : {"create", "remove"}, user : Users, slug : Slugs]
         \cup [op : {"configure"}, user : Users, slug : Slugs, set : [enabled : BOOLEAN, hook : Hooks]]
NoAsk == [op |-> "none"]

ASSUME ProjectSettingsAssumption ==
    /\ Asks \subseteq Ask
    /\ NoHook \notin Hooks
    /\ ProjectOf \in [Flakes -> Slugs]

VARIABLES
    mutators,    \* the users whose role may change projects (OWNER, ADMIN)
    project,     \* projects by slug
    pc, ask, outcome,
    changed,     \* history: requests whose change is committed
    gopc,        \* a notification goroutine's next step
    hookRead,    \* the webhook it has read
    told,        \* the webhooks a flake was posted to
    offered      \* history: the webhooks that were on since its goroutine began

requestVars == <<pc, ask, outcome>>
slackVars == <<gopc, hookRead, told>>
vars == <<auditVars, mutators, project, requestVars, changed, slackVars, offered>>

Refusals == {"notFound", "forbidden", "conflict"}
Outcomes == {"none", "ok", "unlogged", "lost", "cancelled", "crashed"} \cup Refusals
Unchanged == {"load", "authorize", "change"}
UnderWay == Unchanged \cup {"log", "entry"}

\* Earlier requests may have created the projects and set up Slack.
Init ==
    /\ InitLog
    /\ mutators = Users
    /\ project \in [Slugs -> {NoProject} \cup {p \in Settings : p.enabled => p.hook # NoHook}]
    /\ pc = [q \in Requests |-> "idle"]
    /\ ask = [q \in Requests |-> NoAsk]
    /\ outcome = [q \in Requests |-> "none"]
    /\ changed = {}
    /\ gopc = [f \in Flakes |-> "none"]
    /\ hookRead = [f \in Flakes |-> NoHook]
    /\ told = [f \in Flakes |-> {}]
    /\ offered = [f \in Flakes |-> {}]

Exists(s) == project[s] # NoProject

\* HasSlackConfigured, and the check of notifySlackAsync
Configured(p) == p.enabled /\ p.hook # NoHook

-----------------------------------------------------------------------------
(* Requests *)

Goto(q, step) == pc' = [pc EXCEPT ![q] = step]

End(q, how) ==
    /\ Goto(q, "done")
    /\ outcome' = [outcome EXCEPT ![q] = how]
    /\ UNCHANGED ask

Refuse(q, how) ==
    /\ End(q, how)
    /\ UNCHANGED <<auditVars, mutators, project, changed, slackVars, offered>>

Receive(q) ==
    /\ pc[q] = "idle"
    /\ \E a \in Asks :
         /\ ask' = [ask EXCEPT ![q] = a]
         /\ Goto(q, IF a.op = "create" THEN "authorize" ELSE "load")
    /\ UNCHANGED <<auditVars, mutators, project, outcome, changed, slackVars, offered>>

\* GetByID: the project names the organization whose role counts.
LoadProject(q) ==
    /\ pc[q] = "load"
    /\ Exists(ask[q].slug)
    /\ Goto(q, "authorize")
    /\ UNCHANGED <<auditVars, mutators, project, ask, outcome, changed, slackVars, offered>>

RefuseProject(q) == pc[q] = "load" /\ ~Exists(ask[q].slug) /\ Refuse(q, "notFound")

\* RequireOrgMutatePermission
Authorize(q) ==
    /\ pc[q] = "authorize"
    /\ ask[q].user \in mutators
    /\ Goto(q, "change")
    /\ UNCHANGED <<auditVars, mutators, project, ask, outcome, changed, slackVars, offered>>

RefuseUser(q) == pc[q] = "authorize" /\ ask[q].user \notin mutators /\ Refuse(q, "forbidden")

\* A bug: the settings stay on when the webhook is removed.
ChangedKeepingOn(a) ==
    CASE a.op = "create" -> [enabled |-> FALSE, hook |-> NoHook]
      [] a.op = "configure" -> a.set
      [] a.op = "remove" -> [project[a.slug] EXCEPT !.hook = NoHook]

\* Create, ConfigureSlack and RemoveSlack: what the one statement leaves.
Changed(a) ==
    CASE a.op = "configure" -> a.set
      [] a.op \in {"create", "remove"} -> [enabled |-> FALSE, hook |-> NoHook]

\* UNIQUE (org_id, slug), error 23505
SlugTaken(q) == ask[q].op = "create" /\ Exists(ask[q].slug)

WriteChange(q) ==
    /\ pc[q] = "change"
    /\ ~SlugTaken(q)
    /\ LET a == ask[q] IN
         /\ project' = [project EXCEPT ![a.slug] = Changed(a)]
         /\ offered' = [f \in Flakes |->
              IF gopc[f] # "none" /\ ProjectOf[f] = a.slug /\ Configured(Changed(a))
              THEN offered[f] \cup {Changed(a).hook} ELSE offered[f]]
    /\ changed' = changed \cup {q}
    /\ UNCHANGED <<auditVars, mutators, slackVars>>

ChangeProject(q) ==
    /\ WriteChange(q)
    /\ Goto(q, "log")
    /\ UNCHANGED <<ask, outcome>>

\* A bug: a taken slug is tried again.
RetrySlug(q) ==
    /\ pc[q] = "change"
    /\ SlugTaken(q)
    /\ Goto(q, "authorize")
    /\ UNCHANGED <<auditVars, mutators, project, ask, outcome, changed, slackVars, offered>>

RefuseSlug(q) == pc[q] = "change" /\ SlugTaken(q) /\ Refuse(q, "conflict")

\* A bug: the entry is written before the change.
LogFirst(q) ==
    /\ pc[q] \in {"change", "log"}
    /\ BeginEntry(q)
    /\ Goto(q, "entry")
    /\ UNCHANGED <<mutators, project, ask, outcome, changed, slackVars, offered>>

\* The statement of the audit entry begins, and commits; the request is answered.
LogEntry(q) ==
    /\ pc[q] = "log"
    /\ BeginEntry(q)
    /\ Goto(q, "entry")
    /\ UNCHANGED <<mutators, project, ask, outcome, changed, slackVars, offered>>

WriteEntry(q) ==
    /\ pc[q] = "entry"
    /\ CommitEntry(q)
    /\ End(q, "ok")
    /\ UNCHANGED <<mutators, project, changed, slackVars, offered>>

\* Its error is logged; the request is answered all the same.
MissEntry(q) == pc[q] \in {"log", "entry"} /\ Refuse(q, "unlogged")

\* The client leaves or the database fails before the change ...
CancelRequest(q) == pc[q] \in Unchanged /\ Refuse(q, "cancelled")

\* ... or when it is committed: the handler takes that for a failure and stops.
LoseAnswer(q) == WriteChange(q) /\ End(q, "lost")

\* UpdateMemberRole, RemoveMember or AcceptInvite commits.
ChangeRole(u) ==
    /\ mutators' \in {mutators \cup {u}, mutators \ {u}}
    /\ UNCHANGED <<auditVars, project, requestVars, changed, slackVars, offered>>

-----------------------------------------------------------------------------
(* Notifications *)

Goroutine(f, step) == gopc' = [gopc EXCEPT ![f] = step]

\* CommitDetection of FlakeDetection starts a goroutine for a new event.
StartNotification(f) ==
    /\ gopc[f] = "none"
    /\ Exists(ProjectOf[f])
    /\ Goroutine(f, "load")
    /\ offered' = [offered EXCEPT ![f] =
          IF Configured(project[ProjectOf[f]]) THEN {project[ProjectOf[f]].hook} ELSE {}]
    /\ UNCHANGED <<auditVars, mutators, project, requestVars, changed, hookRead, told>>

\* A bug: it only looks whether there is a webhook.
LoadAnyHook(f) ==
    /\ gopc[f] = "load"
    /\ project[ProjectOf[f]].hook # NoHook
    /\ hookRead' = [hookRead EXCEPT ![f] = project[ProjectOf[f]].hook]
    /\ Goroutine(f, "post")
    /\ UNCHANGED <<auditVars, mutators, project, requestVars, changed, told, offered>>

\* notifySlackAsync: GetByID reads both columns at once.
LoadSettings(f) ==
    /\ gopc[f] = "load"
    /\ Configured(project[ProjectOf[f]])
    /\ hookRead' = [hookRead EXCEPT ![f] = project[ProjectOf[f]].hook]
    /\ Goroutine(f, "post")
    /\ UNCHANGED <<auditVars, mutators, project, requestVars, changed, told, offered>>

\* A bug: it waits until Slack is set up.
SkipLater(f) ==
    /\ gopc[f] = "post"
    /\ Goroutine(f, "done")
    /\ hookRead' = [hookRead EXCEPT ![f] = NoHook]
    /\ UNCHANGED <<auditVars, mutators, project, requestVars, changed, told, offered>>

\* Slack is off; or a read of the project, its organization or the flake fails, or the
\* message does not get out.
SkipNotification(f) ==
    /\ gopc[f] \in {"load", "post"}
    /\ Goroutine(f, "done")
    /\ hookRead' = [hookRead EXCEPT ![f] = NoHook]
    /\ UNCHANGED <<auditVars, mutators, project, requestVars, changed, told, offered>>

\* A bug: a post that is not answered in time is tried again.
PostAgain(f) ==
    /\ gopc[f] = "post"
    /\ told' = [told EXCEPT ![f] = @ \cup {hookRead[f]}]
    /\ gopc' \in {gopc, [gopc EXCEPT ![f] = "done"]}
    /\ UNCHANGED <<auditVars, mutators, project, requestVars, changed, hookRead, offered>>

\* PostFlakeNotification: one attempt that arrives; whatever Slack answers, or that
\* it does not answer in time, is only logged.
PostNotification(f) ==
    /\ gopc[f] = "post"
    /\ told' = [told EXCEPT ![f] = @ \cup {hookRead[f]}]
    /\ Goroutine(f, "done")
    /\ hookRead' = [hookRead EXCEPT ![f] = NoHook]
    /\ UNCHANGED <<auditVars, mutators, project, requestVars, changed, offered>>

\* The server stops: requests and goroutines are gone.
ServerCrash ==
    /\ pc' = [q \in Requests |-> IF pc[q] \in UnderWay THEN "done" ELSE pc[q]]
    /\ outcome' = [q \in Requests |-> IF pc[q] \in UnderWay THEN "crashed" ELSE outcome[q]]
    /\ gopc' = [f \in Flakes |-> IF gopc[f] = "none" THEN "none" ELSE "done"]
    /\ hookRead' = [f \in Flakes |-> NoHook]
    /\ UNCHANGED <<auditVars, mutators, project, ask, changed, told, offered>>

-----------------------------------------------------------------------------
Handle(q) ==
    \/ LoadProject(q) \/ RefuseProject(q)
    \/ Authorize(q) \/ RefuseUser(q)
    \/ ChangeProject(q) \/ RefuseSlug(q)
    \/ LogEntry(q) \/ WriteEntry(q)

Notify(f) == LoadSettings(f) \/ SkipNotification(f) \/ PostNotification(f)

ReadLog(r) ==
    /\ Read(r)
    /\ UNCHANGED <<mutators, project, requestVars, changed, slackVars, offered>>

Next ==
    \/ \E q \in Requests :
         Receive(q) \/ Handle(q) \/ MissEntry(q) \/ CancelRequest(q) \/ LoseAnswer(q)
    \/ \E u \in Users : ChangeRole(u)
    \/ \E f \in Flakes : StartNotification(f) \/ Notify(f)
    \/ \E r \in Readers : ReadLog(r)
    \/ ServerCrash

Spec == Init /\ [][Next]_vars

\* A handler keeps running, and so does a goroutine: its post ends at a timeout.
Fairness ==
    /\ \A q \in Requests : WF_vars(Handle(q))
    /\ \A f \in Flakes : WF_vars(Notify(f))

FairSpec == Spec /\ Fairness
-----------------------------------------------------------------------------
(* Properties *)

SettingsTypeOK ==
    /\ LogTypeOK
    /\ mutators \in SUBSET Users
    /\ project \in [Slugs -> Settings \cup {NoProject}]
    /\ pc \in [Requests -> {"idle", "done"} \cup UnderWay]
    /\ ask \in [Requests -> Asks \cup {NoAsk}]
    /\ outcome \in [Requests -> Outcomes]
    /\ changed \in SUBSET Requests
    /\ gopc \in [Flakes -> {"none", "load", "post", "done"}]
    /\ hookRead \in [Flakes -> Hooks \cup {NoHook}]
    /\ told \in [Flakes -> SUBSET Hooks]
    /\ offered \in [Flakes -> SUBSET Hooks]

\* A project whose notifications are on has a webhook, however configurations and
\* removals of several users interleave.
OnOnlyWithHook ==
    \A s \in Slugs : Exists(s) /\ project[s].enabled => project[s].hook # NoHook

HasEntry(q) == stamp[q] # 0 /\ stamp[q] \in entries

\* The audit log accounts for the changes: every entry is about a change that was
\* committed, no two requests share one, a refused or cancelled request has changed
\* nothing, and a change without an entry is one whose handler was cut off, or whose
\* INSERT failed, between the two.
AuditTrail ==
    \A q \in Requests :
        /\ HasEntry(q) => q \in changed
        /\ \A p \in Requests \ {q} : stamp[q] # 0 => stamp[p] # stamp[q]
        /\ outcome[q] \in Refusals \cup {"cancelled"} => q \notin changed
        /\ q \in changed /\ pc[q] = "done" /\ ~HasEntry(q) =>
             outcome[q] \in {"unlogged", "lost", "crashed"}

\* A flake is posted to no webhook but one that was set and on at some moment since
\* the flake was announced: never to one that was removed, replaced or switched off
\* before, though a change that comes after the goroutine has read the settings does
\* not stop its message.
PostedWhereConfigured == \A f \in Flakes : told[f] \subseteq offered[f]

\* Step by step, with settings that change and reads that fail, the goroutines keep
\* the promise about messages: one attempt each, and none after it.
ImplementedNotices ==
    INSTANCE Notices WITH
        Notice <- Flakes,
        announced <- {f \in Flakes : gopc[f] # "none"},
        pending <- {f \in Flakes : gopc[f] \in {"load", "post"}},
        delivered <- {f \in Flakes : told[f] # {}}
ImplementsNotices == ImplementedNotices!Spec

\* Every request is answered, or its server is gone.
RequestsAnswered == \A q \in Requests : pc[q] \in UnderWay ~> pc[q] = "done"

\* Every goroutine ends, whether Slack is set up or not.
NotificationsEnd == \A f \in Flakes : gopc[f] = "load" ~> gopc[f] = "done"

-----------------------------------------------------------------------------
(* Why they hold *)

\* A request past its check has one that was asked for, and is not answered yet; only
\* one whose change is committed is about to write an entry.
RequestsOK ==
    \A q \in Requests :
        /\ pc[q] \in UnderWay => ask[q] \in Asks
        /\ pc[q] # "done" => outcome[q] = "none"
        /\ pc[q] \in {"idle"} \cup Unchanged => q \notin changed /\ stamp[q] = 0
        /\ pc[q] \in {"log", "entry"} =>
             q \in changed /\ ~HasEntry(q) /\ (stamp[q] = 0 <=> pc[q] = "log")

\* What a goroutine has read was on since it began.
ReadsOffered ==
    \A f \in Flakes :
        /\ gopc[f] = "post" => hookRead[f] \in offered[f]
        /\ gopc[f] = "load" /\ Configured(project[ProjectOf[f]]) =>
             project[ProjectOf[f]].hook \in offered[f]
        /\ gopc[f] # "none" => Exists(ProjectOf[f])
        /\ gopc[f] = "none" => told[f] = {}

SettingsInv ==
    /\ SettingsTypeOK
    /\ StampsOK
    /\ WalksOK
    /\ RequestsOK
    /\ AuditTrail
    /\ OnOnlyWithHook
    /\ ReadsOffered
    /\ PostedWhereConfigured
=============================================================================
