---------------------------- MODULE MCFlakePages ----------------------------
(***************************************************************************)
(* A small instance of FlakePages: one failing upload for each run, stored *)
(* before the others come, and passing retries.  Requests and runs are     *)
(* numbered; who is who means nothing, so requests arrive in their order.  *)
(***************************************************************************)
EXTENDS FlakePages

FlakyReports ==
    {[run |-> r, attempt |-> a, outcome |-> [t \in Tests |-> IF a = 1 THEN "failed" ELSE "passed"]] :
        r \in Runs, a \in Attempts}

ReceiveInOrder(u) ==
    /\ \A v \in Uploads : v < u => pc[v] = "done" \/ (u \notin Runs /\ v \notin Runs /\ pc[v] # "idle")
    /\ Receive(u)
    /\ IF u \in Runs THEN payload'[u].attempt = 1 /\ payload'[u].run = u
                     ELSE payload'[u].attempt = 2

NoFault == faults = 0 /\ jobFaults = 0
NoPage == \A c \in Clients : view[c] = "idle"

\* A behaviour has a page, or one fault: a statement of the job fails, or the server
\* stops while the job runs.
OrderedNext ==
    \/ \E u \in Uploads :
         (ReceiveInOrder(u) \/ Step(u)) /\ UNCHANGED <<retentionVars, pageVars>>
    \/ \E e \in Event : NotifySlack(e) /\ UNCHANGED <<retentionVars, pageVars>>
    \/ ServerCrash /\ StopJobs /\ NoFault /\ NoPage /\ job # job' /\ UNCHANGED pageVars
    \/ \E e \in Event : AgeEvent(e) /\ UNCHANGED pageVars
    \/ AgeFiles /\ UNCHANGED pageVars
    \/ \E s \in Servers : RunRetentionJob(s) /\ UNCHANGED pageVars
    \/ \E s \in Servers : FailJob(s) /\ NoFault /\ NoPage /\ UNCHANGED pageVars
    \/ \E c \in Clients : OpenPage(c) /\ NoFault
    \/ \E c \in Clients : ReadPage(c)

OrderedSpec == PagesInit /\ [][OrderedNext]_pagesVars /\ RetentionFairness
=============================================================================
