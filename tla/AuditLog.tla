------------------------------ MODULE AuditLog ------------------------------
(***************************************************************************)
(* The audit log of an organization.  A request writes one entry when its  *)
(* change is committed, with a statement of its own (audit/audit.go); the  *)
(* log is read in pages, newest entry first, by one statement that counts  *)
(* the entries and another that fetches the page (audit/reader.go).        *)
(* Nothing is ever removed from it.                                        *)
(*                                                                         *)
(* An entry is known by its created_at, which is the time its INSERT       *)
(* begins; INSERTs that overlap may commit in either order.                *)
(***************************************************************************)
EXTENDS Naturals, FiniteSets

CONSTANTS Requests,      \* the requests that write entries
          Readers,       \* the clients that read the log from end to end
          Earlier,       \* the number of entries that are there already
          Limits,        \* the page sizes that are asked for
          MaxLimit, DefaultLimit

ASSUME AuditLogAssumption ==
    /\ IsFiniteSet(Requests)
    /\ Earlier \in Nat /\ Limits \subseteq Nat
    /\ MaxLimit \in Nat /\ DefaultLimit \in 1 .. MaxLimit

VARIABLES
    entries,     \* audit_log, as committed
    stamp,       \* created_at of a request's entry, 0 before its INSERT
    reading,     \* a reader's next step
    limit,       \* the page size it asks for
    byTotal,     \* it stops at the total it is told, not at an empty page
    offset,      \* what it has been sent so far
    total,       \* the count of the page under way
    seen,        \* the entries it has been sent
    owed         \* history: the entries that were there when it began

readerVars == <<reading, limit, byTotal, offset, total, seen, owed>>
auditVars == <<entries, stamp, readerVars>>

InitLog ==
    /\ entries = 1 .. Earlier
    /\ stamp = [q \in Requests |-> 0]
    /\ reading = [r \in Readers |-> "idle"]
    /\ limit = [r \in Readers |-> 0]
    /\ byTotal = [r \in Readers |-> FALSE]
    /\ offset = [r \in Readers |-> 0]
    /\ total = [r \in Readers |-> 0]
    /\ seen = [r \in Readers |-> {}]
    /\ owed = [r \in Readers |-> {}]

-----------------------------------------------------------------------------
(* Writing *)

Now == 1 + Earlier + Cardinality({q \in Requests : stamp[q] # 0})

\* Writer.Log: the INSERT begins, and fixes created_at = NOW().
BeginEntry(q) ==
    /\ stamp' = [stamp EXCEPT ![q] = Now]
    /\ UNCHANGED <<entries, readerVars>>

\* It commits.
CommitEntry(q) ==
    /\ entries' = entries \cup {stamp[q]}
    /\ UNCHANGED <<stamp, readerVars>>

-----------------------------------------------------------------------------
(* Reading *)

\* ListByOrgPage replaces a limit it does not accept.
AppliedLimit(l) == IF l = 0 \/ l > MaxLimit THEN DefaultLimit ELSE l

Newer(n) == Cardinality({m \in entries : m > n})

\* A bug: OFFSET counts from one.
PageFromOne(o, l) == {n \in entries : o < Newer(n) /\ Newer(n) <= o + AppliedLimit(l)}

\* ORDER BY created_at DESC LIMIT l OFFSET o
Page(o, l) == {n \in entries : o <= Newer(n) /\ Newer(n) < o + AppliedLimit(l)}

\* A client begins to read the log.
OpenLog(r) ==
    /\ reading[r] = "idle"
    /\ reading' = [reading EXCEPT ![r] = "count"]
    /\ limit' \in {[limit EXCEPT ![r] = l] : l \in Limits}
    /\ byTotal' \in {[byTotal EXCEPT ![r] = b] : b \in BOOLEAN}
    /\ owed' = [owed EXCEPT ![r] = entries]
    /\ UNCHANGED <<entries, stamp, offset, total, seen>>

\* SELECT COUNT(*)
CountEntries(r) ==
    /\ reading[r] = "count"
    /\ total' = [total EXCEPT ![r] = Cardinality(entries)]
    /\ reading' = [reading EXCEPT ![r] = "page"]
    /\ UNCHANGED <<entries, stamp, limit, byTotal, offset, seen, owed>>

\* The page; the client goes on behind the entries it was sent.
FetchPage(r) ==
    /\ reading[r] = "page"
    /\ LET page == Page(offset[r], limit[r])
           next == offset[r] + Cardinality(page)
       IN  /\ seen' = [seen EXCEPT ![r] = @ \cup page]
           /\ offset' = [offset EXCEPT ![r] = next]
           /\ reading' = [reading EXCEPT ![r] =
                 IF page = {} \/ (byTotal[r] /\ next >= total[r]) THEN "done" ELSE "count"]
    /\ total' = [total EXCEPT ![r] = 0]
    /\ UNCHANGED <<entries, stamp, limit, byTotal, owed>>

Read(r) == OpenLog(r) \/ CountEntries(r) \/ FetchPage(r)

-----------------------------------------------------------------------------
LogTypeOK ==
    /\ entries \in SUBSET Nat
    /\ stamp \in [Requests -> Nat]
    /\ reading \in [Readers -> {"idle", "count", "page", "done"}]
    /\ limit \in [Readers -> Limits \cup {0}]
    /\ byTotal \in [Readers -> BOOLEAN]
    /\ offset \in [Readers -> Nat]
    /\ total \in [Readers -> Nat]
    /\ seen \in [Readers -> SUBSET Nat]
    /\ owed \in [Readers -> SUBSET Nat]

\* Nothing is stamped with a time to come.
StampsOK ==
    /\ \A n \in entries : n < Now
    /\ \A q \in Requests : stamp[q] < Now

\* A reader has been sent, of the entries it is owed, all that are newer than its offset
\* says, and was told a total of at least as many as it is owed.
WalkOK(r) ==
    /\ reading[r] = "idle" => offset[r] = 0
    /\ reading[r] # "idle" =>
         /\ owed[r] \subseteq entries
         /\ \A n \in owed[r] \ seen[r] : offset[r] <= Newer(n)
    /\ reading[r] = "page" => Cardinality(owed[r]) <= total[r]

WalksOK == \A r \in Readers : WalkOK(r)

\* A client that reads page after page until one is empty misses no entry that was
\* there when it began, whatever is written meanwhile and in whatever order: new
\* entries only push old ones to later pages.  One that stops at the total can miss
\* some, because the count is older than the page, but not while nobody writes.
WalkSeesAll ==
    \A r \in Readers : reading[r] = "done" =>
        owed[r] \subseteq seen[r] \/ (byTotal[r] /\ entries # owed[r])
=============================================================================
