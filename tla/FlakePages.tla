----------------------------- MODULE FlakePages -----------------------------
(***************************************************************************)
(* The pages that show flakes, while uploads and retention go on           *)
(* (flake/service.go, flake/handlers.go).  The page of a test is put       *)
(* together from three statements, each of which sees the database of its  *)
(* own moment: the test's statistics, the events that are their evidence,  *)
(* and the number of those events.                                         *)
(***************************************************************************)
EXTENDS FlakeRetention

CONSTANTS Clients,
          EvidenceLimit   \* how many events a page shows, 100

ASSUME FlakePagesAssumption == EvidenceLimit \in Nat \ {0}

NoTest == "no test"

VARIABLES
    view,       \* the next step of a client
    test,       \* the test it opens
    outside,    \* the events of the test before cutoffDate
    claimed,    \* mixed_outcome_runs on its page
    shown,      \* the number of events on its page, at most EvidenceLimit
    counted     \* the total of the evidence

pageVars == <<view, test, outside, claimed, shown, counted>>
pagesVars == <<allVars, pageVars>>

PagesInit ==
    /\ RetentionInit
    /\ view = [c \in Clients |-> "idle"]
    /\ test = [c \in Clients |-> NoTest]
    /\ outside = [c \in Clients |-> {}]
    /\ claimed = [c \in Clients |-> 0]
    /\ shown = [c \in Clients |-> 0]
    /\ counted = [c \in Clients |-> 0]

\* An event of the test in a run, told from one that is recorded when it is deleted
Row(t, r) == <<r, deletions[t][r]>>
RowsOf(t, S) == {Row(t, e.run) : e \in {f \in S : f.test = t}}

\* A client follows a link to a test and asks for a number of days: fewer than events
\* are kept, and older ones are outside, or more.
OpenPage(c) ==
    /\ view[c] = "idle"
    /\ \E t \in Tests : \E rows \in SUBSET RowsOf(t, events) :
         /\ RowsOf(t, aged) \subseteq rows \/ rows \subseteq RowsOf(t, aged)
         /\ test' = [test EXCEPT ![c] = t]
         /\ outside' = [outside EXCEPT ![c] = rows]
    /\ view' = [view EXCEPT ![c] = "stats"]
    /\ UNCHANGED <<allVars, claimed, shown, counted>>

\* GetFlakeDetail
ReadStats(c) ==
    /\ view[c] = "stats"
    /\ stats[test[c]] # NoStats
    /\ claimed' = [claimed EXCEPT ![c] = stats[test[c]].mixed]
    /\ view' = [view EXCEPT ![c] = "evidence"]
    /\ UNCHANGED <<allVars, test, outside, shown, counted>>

\* ErrFlakeNotFound, whether there is no row or the statement failed
FlakeNotFound(c) ==
    /\ view[c] = "stats"
    /\ view' = [view EXCEPT ![c] = "notFound"]
    /\ UNCHANGED <<allVars, test, outside, claimed, shown, counted>>

\* fe.created_at >= cutoffDate
Evidence(c) == RowsOf(test[c], events) \ outside[c]

\* LIMIT $3 OFFSET 0: the newest, which of them the page leaves out does not matter here
Limited(n) == IF n < EvidenceLimit THEN n ELSE EvidenceLimit

ReadEvidence(c) ==
    /\ view[c] = "evidence"
    /\ shown' = [shown EXCEPT ![c] = Limited(Cardinality(Evidence(c)))]
    /\ view' = [view EXCEPT ![c] = "count"]
    /\ UNCHANGED <<allVars, test, outside, claimed, counted>>

CountEvidence(c) ==
    /\ view[c] = "count"
    /\ counted' = [counted EXCEPT ![c] = Cardinality(Evidence(c))]
    /\ view' = [view EXCEPT ![c] = "done"]
    /\ UNCHANGED <<allVars, test, outside, claimed, shown>>

\* A later statement fails: an internal error, and no page
FailPage(c) ==
    /\ view[c] \in {"evidence", "count"}
    /\ view' = [view EXCEPT ![c] = "error"]
    /\ UNCHANGED <<allVars, test, outside, claimed, shown, counted>>

ReadPage(c) ==
    ReadStats(c) \/ FlakeNotFound(c) \/ ReadEvidence(c) \/ CountEvidence(c) \/ FailPage(c)

PagesNext ==
    \/ RetentionNext /\ UNCHANGED pageVars
    \/ \E c \in Clients : OpenPage(c) \/ ReadPage(c)

PagesSpec == PagesInit /\ [][PagesNext]_pagesVars

-----------------------------------------------------------------------------
(* Properties *)

\* The runs of a test whose event has been old at some time
Retired(t) == {r \in Runs : deletions[t][r] > 0 \/ \E e \in aged : e.test = t /\ e.run = r}

\* A page never claims more flaky runs than it counts, nor shows more than it counts,
\* and claims no more than it shows unless the list is as long as a page can be, although
\* it is read in three moments of a database that detections write to: each statement
\* sees what the one before it saw.  Only an event that is before the cutoff, or was old
\* enough to be deleted, can be missing.
PageAccounts ==
    \A c \in Clients : view[c] = "done" =>
        LET gone == Retired(test[c])
            missing == Cardinality(gone \cup {row[1] : row \in outside[c]})
        IN  /\ claimed[c] <= counted[c] + missing
            /\ shown[c] < EvidenceLimit => claimed[c] <= shown[c] + missing
            /\ shown[c] <= counted[c] + Cardinality(gone)
=============================================================================
