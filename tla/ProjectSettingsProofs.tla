----------------------- MODULE ProjectSettingsProofs -----------------------
(***************************************************************************)
(* Project settings, notifications and the audit log, for every number of  *)
(* requests, readers, entries, projects, webhooks and flakes.              *)
(***************************************************************************)
EXTENDS ProjectSettings, FiniteSetTheorems, TLAPS

-----------------------------------------------------------------------------
(* The clock of the log (audit.go: created_at) *)

LEMMA NowType == Now \in Nat /\ Now > Earlier
<1>1. IsFiniteSet({q \in Requests : stamp[q] # 0})
  BY FS_Subset, AuditLogAssumption
<1>2. QED
  BY <1>1, FS_CardinalityType, AuditLogAssumption DEF Now

(* An entry that begins takes the present moment and moves it on.          *)
LEMMA NowMoves ==
    ASSUME LogTypeOK, NEW q \in Requests, stamp[q] = 0, stamp' = [stamp EXCEPT ![q] = Now]
    PROVE  Now' = Now + 1
<1> DEFINE Stamped == {p \in Requests : stamp[p] # 0}
<1>1. IsFiniteSet(Stamped) /\ q \notin Stamped
  BY FS_Subset, AuditLogAssumption
<1>2. Stamped' = Stamped \cup {q}
  BY NowType, AuditLogAssumption DEF LogTypeOK
<1>3. Cardinality(Stamped') = Cardinality(Stamped) + 1 /\ Cardinality(Stamped) \in Nat
  BY <1>1, <1>2, FS_AddElement, FS_CardinalityType
<1>4. QED
  BY <1>3, AuditLogAssumption DEF Now

(* No more than finitely many entries have been written.                   *)
LEMMA EntriesFinite ==
    ASSUME LogTypeOK, StampsOK
    PROVE  IsFiniteSet(entries)
<1>1. entries \in SUBSET (0 .. Now)
  BY NowType DEF LogTypeOK, StampsOK
<1>2. IsFiniteSet(0 .. Now)
  BY NowType, FS_Interval
<1>3. QED
  BY <1>1, <1>2, FS_Subset

-----------------------------------------------------------------------------
(* Pages of the log (reader.go) *)

LEMMA LimitType ==
    ASSUME NEW l \in Nat
    PROVE  AppliedLimit(l) \in Nat \ {0}
BY AuditLogAssumption DEF AppliedLimit

LEMMA NewerType ==
    ASSUME LogTypeOK, StampsOK, NEW n \in Nat
    PROVE  /\ Newer(n) \in Nat
           /\ n \in entries => Newer(n) < Cardinality(entries)
<1> DEFINE S == {m \in entries : m > n}
<1>1. IsFiniteSet(entries) /\ S \in SUBSET entries
  BY EntriesFinite
<1>2. Cardinality(entries) \in Nat /\ Cardinality(S) \in Nat
  BY <1>1, FS_Subset, FS_CardinalityType
<1>3. Cardinality(S) <= Cardinality(entries) /\ (Cardinality(entries) = Cardinality(S) => entries = S)
  BY <1>1, FS_Subset
<1>4. n \in entries => Cardinality(S) # Cardinality(entries)
  BY <1>3
<1>5. QED
  BY <1>2, <1>3, <1>4 DEF Newer

(* Of two entries the older one has more that are newer.                   *)
LEMMA NewerOrder ==
    ASSUME LogTypeOK, StampsOK, NEW m \in entries, NEW n \in entries, m < n
    PROVE  Newer(n) < Newer(m)
<1> DEFINE S == {k \in entries : k > m}
           T == {k \in entries : k > n}
<1>1. m \in Nat /\ n \in Nat
  BY DEF LogTypeOK
<1>2. \A k \in entries : k \in Nat
  BY DEF LogTypeOK
<1>3. n \in S /\ n \notin T /\ S \in SUBSET entries
  BY <1>1
<1> IsFiniteSet(S)
  BY <1>3, EntriesFinite, FS_Subset
<1> T \in SUBSET S
  <2>1. ASSUME NEW k \in T PROVE k > m
    BY <1>1, <1>2
  <2>2. QED
    BY <2>1
<1>4. Cardinality(T) <= Cardinality(S) /\ Cardinality(S) # Cardinality(T)
  BY <1>3, FS_Subset
<1>5. Cardinality(T) \in Nat /\ Cardinality(S) \in Nat
  BY <1>1, NewerType DEF Newer
<1>6. QED
  BY <1>4, <1>5 DEF Newer

(* The number of entries in a range of places is at most its length.       *)
LEMMA PlacesBound ==
    ASSUME LogTypeOK, StampsOK, NEW a \in Nat, NEW b \in Nat,
           NEW S \in SUBSET {n \in entries : a <= Newer(n) /\ Newer(n) < a + b}
    PROVE  IsFiniteSet(S) /\ Cardinality(S) \in Nat /\ Cardinality(S) <= b
<1> DEFINE place == [n \in S |-> Newer(n)]
           I == a .. (a + b - 1)
<1>1. place \in [S -> I]
  BY NewerType DEF LogTypeOK
<1>2. ASSUME NEW m \in S, NEW n \in S, place[m] = place[n] PROVE m = n
  <2>1. m \in Nat /\ n \in Nat /\ Newer(m) \in Nat /\ Newer(n) \in Nat
    BY NewerType DEF LogTypeOK
  <2>2. ~(m < n) /\ ~(n < m)
    BY <1>2, <2>1, NewerOrder
  <2>3. QED
    BY <2>1, <2>2
<1>3. place \in Injection(S, I)
  BY <1>1, <1>2 DEF Injection, IsInjective
<1>4. IsFiniteSet(I) /\ Cardinality(I) = b
  BY FS_Interval
<1>5. IsFiniteSet(S) /\ Cardinality(S) <= Cardinality(I)
  BY <1>3, <1>4, FS_Injection
<1>6. QED
  BY <1>4, <1>5, FS_CardinalityType

(* Entries behind an offset: some page there has one of them.              *)
LEMMA PageNotEmpty ==
    ASSUME LogTypeOK, StampsOK, NEW o \in Nat, NEW l \in Nat,
           NEW n \in entries, o <= Newer(n)
    PROVE  Page(o, l) # {}
<1> DEFINE Front == {m \in entries : Newer(m) < o}
           Back == {m \in entries : o <= Newer(m)}
           N == Cardinality(entries)
<1> SUFFICES ASSUME Page(o, l) = {} PROVE FALSE
  OBVIOUS
<1>1. ASSUME NEW m \in entries
      PROVE  m \in Nat /\ Newer(m) \in Nat /\ Newer(m) < N
  BY NewerType DEF LogTypeOK
<1>2. N \in Nat
  BY EntriesFinite, FS_CardinalityType
<1>3. ASSUME NEW m \in Back PROVE o + 1 <= Newer(m)
  BY <1>1, LimitType DEF Page
<1>4. o + 1 < N
  BY <1>1, <1>2, <1>3
<1>5. Front \in SUBSET {m \in entries : 0 <= Newer(m) /\ Newer(m) < 0 + o}
  BY <1>1
<1>6. IsFiniteSet(Front) /\ Cardinality(Front) \in Nat /\ Cardinality(Front) <= o
  BY <1>5, PlacesBound
<1>7. Back \in SUBSET {m \in entries : o + 1 <= Newer(m) /\ Newer(m) < (o + 1) + (N - (o + 1))}
  BY <1>1, <1>2, <1>3
<1>8. IsFiniteSet(Back) /\ Cardinality(Back) \in Nat /\ Cardinality(Back) <= N - (o + 1)
  BY <1>2, <1>4, <1>7, PlacesBound
<1>9. entries = Front \cup Back /\ Front \cap Back = {}
  BY <1>1
<1>10. N = Cardinality(Front) + Cardinality(Back)
  BY <1>6, <1>8, <1>9, FS_Union, FS_EmptySet
<1>11. QED
  BY <1>2, <1>6, <1>8, <1>10

(* New entries only push an entry to a later place.                        *)
LEMMA NewerGrows ==
    ASSUME LogTypeOK, StampsOK, NEW x, entries' = entries \cup {x}, NEW n \in Nat
    PROVE  Newer(n) <= Newer(n)'
<1>1. {m \in entries : m > n} \in SUBSET {m \in entries' : m > n}
  OBVIOUS
<1>2. IsFiniteSet({m \in entries' : m > n})
  BY EntriesFinite, FS_AddElement, FS_Subset
<1>3. QED
  BY <1>1, <1>2, FS_Subset DEF Newer
-----------------------------------------------------------------------------
(* Readers of the log *)

LEMMA ReaderType ==
    ASSUME LogTypeOK, NEW r \in Readers
    PROVE  limit[r] \in Nat /\ offset[r] \in Nat
<1>1. \A l \in Limits : l \in Nat
  BY AuditLogAssumption
<1>2. limit[r] \in Limits \cup {0} /\ offset[r] \in Nat
  BY DEF LogTypeOK
<1>3. QED
  BY <1>1, <1>2

LEMMA ReadTyped ==
    ASSUME LogTypeOK, StampsOK, NEW r \in Readers, Read(r)
    PROVE  LogTypeOK' /\ StampsOK'
<1>1. Cardinality(entries) \in Nat /\ Cardinality(Page(offset[r], limit[r])) \in Nat
  <2>1. Page(offset[r], limit[r]) \in SUBSET entries
    BY DEF Page
  <2>2. QED
    BY <2>1, EntriesFinite, FS_Subset, FS_CardinalityType
<1>2. limit[r] \in Nat /\ offset[r] \in Nat
  BY ReaderType
<1>3. Page(offset[r], limit[r]) \in SUBSET Nat
  BY DEF Page, LogTypeOK
<1>4. UNCHANGED <<entries, stamp>>
  BY DEF Read, OpenLog, CountEntries, FetchPage
<1>5. StampsOK'
  BY <1>4 DEF StampsOK, Now
<1>6. CASE OpenLog(r)
  <2>1. PICK l \in Limits : limit' = [limit EXCEPT ![r] = l]
    BY <1>6 DEF OpenLog
  <2>2. PICK b \in BOOLEAN : byTotal' = [byTotal EXCEPT ![r] = b]
    BY <1>6 DEF OpenLog
  <2>3. limit' \in [Readers -> Limits \cup {0}]
    BY <2>1 DEF LogTypeOK
  <2>4. byTotal' \in [Readers -> BOOLEAN]
    BY <2>2 DEF LogTypeOK
  <2>5. LogTypeOK'
    BY <1>6, <2>3, <2>4 DEF OpenLog, LogTypeOK
  <2>6. QED
    BY <1>5, <2>5
<1>7. CASE CountEntries(r)
  BY <1>1, <1>5, <1>7 DEF CountEntries, LogTypeOK
<1>8. CASE FetchPage(r)
  <2>1. seen' \in [Readers -> SUBSET Nat]
    BY <1>3, <1>8 DEF FetchPage, LogTypeOK
  <2>2. offset' \in [Readers -> Nat]
    <3>1. offset[r] + Cardinality(Page(offset[r], limit[r])) \in Nat
      BY <1>1, <1>2
    <3>2. QED
      BY <1>8, <3>1 DEF FetchPage, LogTypeOK
  <2>3. reading' \in [Readers -> {"idle", "count", "page", "done"}]
    BY <1>8 DEF FetchPage, LogTypeOK
  <2>4. LogTypeOK'
    BY <1>8, <2>1, <2>2, <2>3 DEF FetchPage, LogTypeOK
  <2>5. QED
    BY <1>5, <2>4
<1>9. QED
  BY <1>6, <1>7, <1>8 DEF Read

(* What the reader r is sent leaves only entries that are still to come.   *)
LEMMA FetchLeaves ==
    ASSUME LogTypeOK, StampsOK, WalksOK, NEW r \in Readers, FetchPage(r),
           NEW n \in owed[r] \ seen'[r]
    PROVE  /\ n \in entries /\ n \notin seen[r]
           /\ offset'[r] \in Nat /\ offset'[r] <= Newer(n)
           /\ Page(offset[r], limit[r]) # {}
<1> DEFINE page == Page(offset[r], limit[r])
           L == AppliedLimit(limit[r])
<1>1. limit[r] \in Nat /\ offset[r] \in Nat /\ L \in Nat
  BY ReaderType, LimitType
<1>2. n \in entries /\ n \notin seen[r] /\ n \notin page
  BY DEF FetchPage, LogTypeOK, WalksOK, WalkOK
<1>3. n \in Nat /\ Newer(n) \in Nat /\ offset[r] <= Newer(n)
  BY <1>2, NewerType DEF FetchPage, LogTypeOK, WalksOK, WalkOK
<1>4. offset[r] + L <= Newer(n)
  BY <1>1, <1>2, <1>3 DEF Page
<1>5. page \in SUBSET {m \in entries : offset[r] <= Newer(m) /\ Newer(m) < offset[r] + L}
  BY DEF Page
<1>6. Cardinality(page) \in Nat /\ Cardinality(page) <= L
  BY <1>1, <1>5, PlacesBound
<1>7. offset'[r] = offset[r] + Cardinality(page)
  BY DEF FetchPage, LogTypeOK
<1>8. QED
  BY <1>1, <1>2, <1>3, <1>4, <1>6, <1>7, PageNotEmpty

(* The walks of the readers that do not move go on as they were.           *)
LEMMA WalkStays ==
    ASSUME LogTypeOK, StampsOK, WalksOK, WalkSeesAll, NEW r \in Readers,
           entries' = entries \/ \E x : entries' = entries \cup {x},
           reading'[r] = reading[r], byTotal'[r] = byTotal[r], offset'[r] = offset[r],
           total'[r] = total[r], seen'[r] = seen[r], owed'[r] = owed[r]
    PROVE  /\ WalkOK(r)'
           /\ reading'[r] = "done" =>
                owed'[r] \subseteq seen'[r] \/ (byTotal'[r] /\ entries' # owed'[r])
<1>1. entries \subseteq entries'
  OBVIOUS
<1>2. ASSUME NEW n \in owed[r] \ seen[r], reading[r] # "idle" PROVE offset[r] <= Newer(n)'
  <2>1. n \in Nat /\ Newer(n) \in Nat /\ offset[r] \in Nat /\ offset[r] <= Newer(n)
    BY <1>2, NewerType DEF WalksOK, WalkOK, LogTypeOK
  <2>2. CASE entries' = entries
    BY <2>1, <2>2 DEF Newer
  <2>3. ASSUME NEW x, entries' = entries \cup {x} PROVE offset[r] <= Newer(n)'
    <3>1. Newer(n) <= Newer(n)'
      BY <2>1, <2>3, NewerGrows
    <3>2. {m \in entries' : m > n} \in SUBSET entries' /\ IsFiniteSet(entries')
      BY <2>3, EntriesFinite, FS_AddElement
    <3>3. Newer(n)' \in Nat
      BY <3>2, FS_Subset, FS_CardinalityType DEF Newer
    <3>4. QED
      BY <2>1, <3>1, <3>3
  <2>4. QED
    BY <2>2, <2>3
<1>3. reading[r] = "done" => owed[r] \subseteq seen[r] \/ (byTotal[r] /\ entries' # owed[r])
  BY <1>1 DEF WalkSeesAll, WalksOK, WalkOK
<1>4. QED
  BY <1>1, <1>2, <1>3 DEF WalksOK, WalkOK

(* A step of a reader, for that reader                                     *)
LEMMA WalkGoesOn ==
    ASSUME LogTypeOK, StampsOK, WalksOK, NEW r \in Readers, Read(r)
    PROVE  /\ WalkOK(r)'
           /\ reading'[r] = "done" =>
                owed'[r] \subseteq seen'[r] \/ (byTotal'[r] /\ entries' # owed'[r])
<1>1. UNCHANGED entries
  BY DEF Read, OpenLog, CountEntries, FetchPage
<1>2. \A n : Newer(n)' = Newer(n)
  BY <1>1 DEF Newer
<1>3. CASE OpenLog(r)
  <2>1. /\ reading[r] = "idle" /\ reading'[r] = "count"
        /\ owed'[r] = entries /\ UNCHANGED <<offset, seen>>
    BY <1>3 DEF OpenLog, LogTypeOK
  <2>2. \A n \in entries : Newer(n) \in Nat
    BY NewerType DEF LogTypeOK
  <2>3. offset[r] = 0
    BY <2>1 DEF WalksOK, WalkOK
  <2>4. QED
    BY <1>1, <1>2, <2>1, <2>2, <2>3 DEF WalkOK
<1>4. CASE CountEntries(r)
  <2>1. /\ reading[r] = "count" /\ reading'[r] = "page"
        /\ total'[r] = Cardinality(entries)
        /\ UNCHANGED <<offset, seen, owed>>
    BY <1>4 DEF CountEntries, LogTypeOK
  <2>2. owed[r] \in SUBSET entries
    BY <2>1 DEF WalksOK, WalkOK
  <2>3. Cardinality(owed[r]) <= Cardinality(entries)
    BY <2>2, EntriesFinite, FS_Subset
  <2>4. QED
    BY <1>1, <1>2, <2>1, <2>3 DEF WalksOK, WalkOK
<1>5. CASE FetchPage(r)
  <2>1. /\ owed' = owed /\ reading[r] = "page" /\ reading'[r] \in {"count", "done"}
        /\ byTotal' = byTotal
        /\ reading'[r] = "done" =>
             \/ Page(offset[r], limit[r]) = {}
             \/ byTotal[r] /\ offset'[r] >= total[r]
    BY <1>5 DEF FetchPage, LogTypeOK
  <2>2. owed[r] \subseteq entries /\ Cardinality(owed[r]) <= total[r]
    BY <2>1 DEF WalksOK, WalkOK
  <2>3. ASSUME NEW n \in owed[r] \ seen'[r] PROVE offset'[r] <= Newer(n)
    BY <1>5, <2>3, FetchLeaves
  <2>4. ASSUME reading'[r] = "done", NEW n \in owed[r] \ seen'[r]
        PROVE  byTotal[r] /\ entries # owed[r]
    <3>1. /\ n \in entries /\ offset'[r] \in Nat /\ offset'[r] <= Newer(n)
          /\ Page(offset[r], limit[r]) # {}
      BY <1>5, <2>4, FetchLeaves
    <3>2. Newer(n) \in Nat /\ Newer(n) < Cardinality(entries)
      BY <3>1, NewerType DEF LogTypeOK
    <3>3. Cardinality(entries) \in Nat /\ total[r] \in Nat
      BY EntriesFinite, FS_CardinalityType DEF LogTypeOK
    <3>4. byTotal[r] /\ total[r] <= offset'[r]
      BY <2>1, <2>4, <3>1, <3>3
    <3>5. total[r] < Cardinality(entries)
      BY <3>1, <3>2, <3>3, <3>4
    <3>6. QED
      BY <2>2, <3>3, <3>4, <3>5
  <2>5. QED
    BY <1>1, <1>2, <2>1, <2>2, <2>3, <2>4 DEF WalkOK
<1>6. QED
  BY <1>3, <1>4, <1>5 DEF Read
-----------------------------------------------------------------------------
(* The log and its readers, whatever a step does *)

(* A step leaves the log alone, begins or commits an entry, or reads.      *)
LogStep ==
    \/ UNCHANGED auditVars
    \/ \E q \in Requests : stamp[q] = 0 /\ BeginEntry(q)
    \/ \E q \in Requests : stamp[q] # 0 /\ CommitEntry(q)
    \/ \E r \in Readers : Read(r)

LEMMA StepsLog ==
    ASSUME RequestsOK, [Next]_vars
    PROVE  LogStep
<1>1. CASE UNCHANGED vars
  BY <1>1 DEF vars, LogStep
<1>2. ASSUME NEW q \in Requests, LogEntry(q) \/ WriteEntry(q) PROVE LogStep
  BY <1>2 DEF LogEntry, WriteEntry, RequestsOK, LogStep
<1>3. ASSUME NEW r \in Readers, ReadLog(r) PROVE LogStep
  BY <1>3 DEF ReadLog, LogStep
<1>4. ASSUME NEW q \in Requests,
             \/ Receive(q) \/ LoadProject(q) \/ RefuseProject(q) \/ Authorize(q)
             \/ RefuseUser(q) \/ ChangeProject(q) \/ RefuseSlug(q)
             \/ MissEntry(q) \/ CancelRequest(q) \/ LoseAnswer(q)
      PROVE  LogStep
  BY <1>4 DEF Receive, LoadProject, RefuseProject, Authorize, RefuseUser, ChangeProject,
              RefuseSlug, MissEntry, CancelRequest, LoseAnswer, WriteChange, Refuse, LogStep
<1>5. ASSUME NEW f \in Flakes, StartNotification(f) \/ Notify(f) PROVE LogStep
  BY <1>5 DEF StartNotification, Notify, LoadSettings, SkipNotification, PostNotification, LogStep
<1>6. ASSUME NEW u \in Users, ChangeRole(u) PROVE LogStep
  BY <1>6 DEF ChangeRole, LogStep
<1>7. CASE ServerCrash
  BY <1>7 DEF ServerCrash, LogStep
<1>8. QED
  BY <1>1, <1>2, <1>3, <1>4, <1>5, <1>6, <1>7 DEF Next, Handle

LEMMA LogTyped ==
    ASSUME LogTypeOK, StampsOK, LogStep
    PROVE  LogTypeOK' /\ StampsOK'
<1>1. CASE UNCHANGED auditVars
  BY <1>1 DEF auditVars, readerVars, LogTypeOK, StampsOK, Now
<1>2. ASSUME NEW q \in Requests, stamp[q] = 0, BeginEntry(q) PROVE LogTypeOK' /\ StampsOK'
  <2>1. Now' = Now + 1 /\ Now \in Nat
    BY <1>2, NowMoves, NowType DEF BeginEntry
  <2>2. stamp' \in [Requests -> Nat] /\ \A p \in Requests : stamp'[p] \in {stamp[p], Now}
    BY <1>2, <2>1 DEF BeginEntry, LogTypeOK
  <2>3. StampsOK'
    BY <1>2, <2>1, <2>2 DEF BeginEntry, LogTypeOK, StampsOK
  <2>4. QED
    BY <1>2, <2>2, <2>3 DEF BeginEntry, LogTypeOK, readerVars
<1>3. ASSUME NEW q \in Requests, CommitEntry(q) PROVE LogTypeOK' /\ StampsOK'
  <2>1. Now' = Now
    BY <1>3 DEF CommitEntry, Now
  <2>2. QED
    BY <1>3, <2>1 DEF CommitEntry, LogTypeOK, StampsOK, readerVars
<1>4. QED
  BY <1>1, <1>2, <1>3, ReadTyped DEF LogStep

LEMMA WalksKept ==
    ASSUME LogTypeOK, StampsOK, WalksOK, WalkSeesAll, LogStep
    PROVE  WalksOK' /\ WalkSeesAll'
<1> SUFFICES ASSUME NEW r \in Readers
             PROVE  /\ WalkOK(r)'
                    /\ reading'[r] = "done" =>
                         owed'[r] \subseteq seen'[r] \/ (byTotal'[r] /\ entries' # owed'[r])
  BY DEF WalksOK, WalkSeesAll
<1>1. CASE Read(r)
  BY <1>1, WalkGoesOn
<1>2. ASSUME entries' = entries \/ \E x : entries' = entries \cup {x}, UNCHANGED readerVars
      PROVE  /\ WalkOK(r)'
             /\ reading'[r] = "done" =>
                  owed'[r] \subseteq seen'[r] \/ (byTotal'[r] /\ entries' # owed'[r])
  BY <1>2, WalkStays DEF readerVars
<1>3. ASSUME NEW s \in Readers, s # r, Read(s)
      PROVE  /\ entries' = entries
             /\ reading'[r] = reading[r] /\ byTotal'[r] = byTotal[r] /\ offset'[r] = offset[r]
             /\ total'[r] = total[r] /\ seen'[r] = seen[r] /\ owed'[r] = owed[r]
  BY <1>3 DEF Read, OpenLog, CountEntries, FetchPage, LogTypeOK
<1>4. QED
  BY <1>1, <1>2, <1>3, WalkStays DEF LogStep, auditVars, BeginEntry, CommitEntry
-----------------------------------------------------------------------------
(* Types *)

LEMMA AskType ==
    ASSUME NEW a \in Asks
    PROVE  /\ a.slug \in Slugs
           /\ a.op \in {"create", "remove", "configure"}
           /\ a.op = "configure" => a.set \in [enabled : BOOLEAN, hook : Hooks]
<1>1. a \in Ask
  BY ProjectSettingsAssumption
<1>2. QED
  BY <1>1 DEF Ask

LEMMA NotNoProject ==
    ASSUME NEW p \in Settings
    PROVE  p # NoProject
<1>1. DOMAIN p = {"enabled", "hook"}
  BY DEF Settings
<1>2. DOMAIN NoProject = {"hook"}
  BY DEF NoProject
<1>3. QED
  BY <1>1, <1>2

(* What a change leaves has a webhook if it is on.                         *)
LEMMA ChangedType ==
    ASSUME NEW a \in Asks
    PROVE  /\ Changed(a) \in Settings /\ Changed(a) # NoProject
           /\ Changed(a).enabled => Changed(a).hook # NoHook
           /\ Configured(Changed(a)) => Changed(a).hook \in Hooks
<1>1. CASE a.op = "configure"
  <2>1. Changed(a) = a.set /\ a.set \in [enabled : BOOLEAN, hook : Hooks]
    BY <1>1, AskType DEF Changed
  <2>2. a.set \in Settings /\ a.set.hook \in Hooks
    BY <2>1 DEF Settings
  <2>3. QED
    BY <2>1, <2>2, NotNoProject, ProjectSettingsAssumption DEF Configured
<1>2. CASE a.op \in {"create", "remove"}
  <2>1. Changed(a) = [enabled |-> FALSE, hook |-> NoHook]
    BY <1>2 DEF Changed
  <2>2. [enabled |-> FALSE, hook |-> NoHook] \in Settings
    BY DEF Settings
  <2>3. ~Changed(a).enabled
    BY <2>1
  <2>4. QED
    BY <2>1, <2>2, <2>3, NotNoProject DEF Configured
<1>3. QED
  BY <1>1, <1>2, AskType

LEMMA EndType ==
    ASSUME SettingsTypeOK, NEW q \in Requests, NEW how \in Outcomes, End(q, how)
    PROVE  /\ pc' \in [Requests -> {"idle", "done"} \cup UnderWay]
           /\ ask' \in [Requests -> Asks \cup {NoAsk}]
           /\ outcome' \in [Requests -> Outcomes]
BY DEF End, Goto, SettingsTypeOK, UnderWay, Unchanged

LEMMA ChangeType ==
    ASSUME SettingsTypeOK, RequestsOK, NEW q \in Requests, WriteChange(q)
    PROVE  /\ project' \in [Slugs -> Settings \cup {NoProject}]
           /\ offered' \in [Flakes -> SUBSET Hooks]
           /\ changed' \in SUBSET Requests
           /\ ask[q] \in Asks
<1>1. ask[q] \in Asks
  BY DEF WriteChange, RequestsOK, UnderWay, Unchanged
<1>2. Changed(ask[q]) \in Settings /\ (Configured(Changed(ask[q])) => Changed(ask[q]).hook \in Hooks)
  BY <1>1, ChangedType
<1>3. project' \in [Slugs -> Settings \cup {NoProject}] /\ changed' \in SUBSET Requests
  BY <1>2 DEF WriteChange, SettingsTypeOK
<1>4. offered' \in [Flakes -> SUBSET Hooks]
  BY <1>2 DEF WriteChange, SettingsTypeOK
<1>5. QED
  BY <1>1, <1>3, <1>4

(* A webhook that is on is one.                                            *)
LEMMA HookType ==
    ASSUME SettingsTypeOK, NEW s \in Slugs, Exists(s), Configured(project[s])
    PROVE  project[s].hook \in Hooks
<1>1. project[s] \in Settings
  BY DEF SettingsTypeOK, Exists
<1>2. QED
  BY <1>1 DEF Settings, Configured

LEMMA SettingsTyped ==
    ASSUME SettingsTypeOK, StampsOK, RequestsOK, ReadsOffered, [Next]_vars
    PROVE  SettingsTypeOK'
<1> USE DEF UnderWay, Unchanged
<1>0. LogTypeOK'
  BY StepsLog, LogTyped DEF SettingsTypeOK
<1>1. CASE UNCHANGED vars
  BY <1>0, <1>1 DEF vars, requestVars, slackVars, SettingsTypeOK
<1>2. ASSUME NEW q \in Requests, Receive(q) PROVE SettingsTypeOK'
  BY <1>0, <1>2 DEF Receive, Goto, slackVars, SettingsTypeOK
<1>3. ASSUME NEW q \in Requests, LoadProject(q) \/ Authorize(q) \/ LogEntry(q)
      PROVE  SettingsTypeOK'
  BY <1>0, <1>3 DEF LoadProject, Authorize, LogEntry, Goto, slackVars, SettingsTypeOK
<1>4. ASSUME NEW q \in Requests,
             \/ RefuseProject(q) \/ RefuseUser(q) \/ RefuseSlug(q)
             \/ MissEntry(q) \/ CancelRequest(q)
      PROVE  SettingsTypeOK'
  <2>1. PICK how \in Outcomes : Refuse(q, how)
    BY <1>4 DEF RefuseProject, RefuseUser, RefuseSlug, MissEntry, CancelRequest, Outcomes, Refusals
  <2>2. QED
    BY <1>0, <2>1, EndType DEF Refuse, slackVars, SettingsTypeOK
<1>5. ASSUME NEW q \in Requests, ChangeProject(q) PROVE SettingsTypeOK'
  <2>1. pc' \in [Requests -> {"idle", "done"} \cup UnderWay]
    BY <1>5 DEF ChangeProject, Goto, SettingsTypeOK
  <2>2. QED
    BY <1>0, <1>5, <2>1, ChangeType DEF ChangeProject, WriteChange, slackVars, SettingsTypeOK
<1>6. ASSUME NEW q \in Requests, LoseAnswer(q) PROVE SettingsTypeOK'
  <2>1. "lost" \in Outcomes
    BY DEF Outcomes
  <2>2. QED
    BY <1>0, <1>6, <2>1, ChangeType, EndType DEF LoseAnswer, WriteChange, slackVars, SettingsTypeOK
<1>7. ASSUME NEW q \in Requests, WriteEntry(q) PROVE SettingsTypeOK'
  <2>1. "ok" \in Outcomes
    BY DEF Outcomes
  <2>2. QED
    BY <1>0, <1>7, <2>1, EndType DEF WriteEntry, slackVars, SettingsTypeOK
<1>8. ASSUME NEW u \in Users, ChangeRole(u) PROVE SettingsTypeOK'
  BY <1>0, <1>8 DEF ChangeRole, requestVars, slackVars, SettingsTypeOK
<1>9. ASSUME NEW f \in Flakes, StartNotification(f) PROVE SettingsTypeOK'
  <2>1. ProjectOf[f] \in Slugs
    BY ProjectSettingsAssumption
  <2>2. offered' \in [Flakes -> SUBSET Hooks]
    BY <1>9, <2>1, HookType DEF StartNotification, SettingsTypeOK
  <2>3. QED
    BY <1>0, <1>9, <2>2 DEF StartNotification, Goroutine, requestVars, SettingsTypeOK
<1>10. ASSUME NEW f \in Flakes, Notify(f) PROVE SettingsTypeOK'
  <2>1. ProjectOf[f] \in Slugs
    BY ProjectSettingsAssumption
  <2>2. gopc' \in [Flakes -> {"none", "load", "post", "done"}]
    BY <1>10 DEF Notify, LoadSettings, SkipNotification, PostNotification, Goroutine, SettingsTypeOK
  <2>3. hookRead' \in [Flakes -> Hooks \cup {NoHook}]
    BY <1>10, <2>1, HookType DEF Notify, LoadSettings, SkipNotification, PostNotification,
                                  ReadsOffered, SettingsTypeOK
  <2>4. told' \in [Flakes -> SUBSET Hooks]
    BY <1>10 DEF Notify, LoadSettings, SkipNotification, PostNotification, ReadsOffered, SettingsTypeOK
  <2>5. QED
    BY <1>0, <1>10, <2>2, <2>3, <2>4
    DEF Notify, LoadSettings, SkipNotification, PostNotification, requestVars, SettingsTypeOK
<1>11. ASSUME NEW r \in Readers, ReadLog(r) PROVE SettingsTypeOK'
  BY <1>0, <1>11 DEF ReadLog, requestVars, slackVars, SettingsTypeOK
<1>12. CASE ServerCrash
  BY <1>0, <1>12 DEF ServerCrash, Outcomes, SettingsTypeOK
<1>13. QED
  BY <1>1, <1>2, <1>3, <1>4, <1>5, <1>6, <1>7, <1>8, <1>9, <1>10, <1>11, <1>12 DEF Next, Handle
-----------------------------------------------------------------------------
(* Requests and their entries *)

(* What AuditTrail says of one request                                     *)
Accounted(q) ==
    /\ HasEntry(q) => q \in changed
    /\ outcome[q] \in Refusals \cup {"cancelled"} => q \notin changed
    /\ q \in changed /\ pc[q] = "done" /\ ~HasEntry(q) => outcome[q] \in {"unlogged", "lost", "crashed"}

RequestOK(q) ==
    /\ pc[q] \in UnderWay => ask[q] \in Asks
    /\ pc[q] # "done" => outcome[q] = "none"
    /\ pc[q] \in {"idle"} \cup Unchanged => q \notin changed /\ stamp[q] = 0
    /\ pc[q] \in {"log", "entry"} =>
         q \in changed /\ ~HasEntry(q) /\ (stamp[q] = 0 <=> pc[q] = "log")

OwnStamps == \A p, q \in Requests : p # q /\ stamp[q] # 0 => stamp[p] # stamp[q]

LEMMA RequestParts ==
    /\ RequestsOK <=> \A q \in Requests : RequestOK(q)
    /\ AuditTrail <=> OwnStamps /\ \A q \in Requests : Accounted(q)
BY DEF RequestsOK, RequestOK, AuditTrail, OwnStamps, Accounted

(* Stamps are given once, and each to one request.                         *)
LEMMA StampsStay ==
    ASSUME LogTypeOK, StampsOK, OwnStamps, LogStep
    PROVE  OwnStamps'
<1>1. ASSUME NEW q \in Requests, stamp[q] = 0, BeginEntry(q) PROVE OwnStamps'
  <2>1. \A p \in Requests : stamp[p] # Now
    BY NowType DEF LogTypeOK, StampsOK
  <2>2. \A p \in Requests : stamp'[p] = IF p = q THEN Now ELSE stamp[p]
    BY <1>1 DEF BeginEntry, LogTypeOK
  <2>3. QED
    BY <2>1, <2>2 DEF OwnStamps
<1>2. CASE UNCHANGED stamp
  BY <1>2 DEF OwnStamps
<1>3. QED
  BY <1>1, <1>2 DEF LogStep, auditVars, CommitEntry, Read, OpenLog, CountEntries, FetchPage

(* A step that is not q's leaves q's entry and q's change as they are.     *)
LEMMA OthersStay ==
    ASSUME NEW q \in Requests, RequestOK(q), Accounted(q),
           pc'[q] = pc[q], ask'[q] = ask[q], outcome'[q] = outcome[q],
           q \in changed' <=> q \in changed,
           stamp'[q] = stamp[q], stamp[q] # 0 => (stamp[q] \in entries' <=> stamp[q] \in entries)
    PROVE  RequestOK(q)' /\ Accounted(q)'
BY DEF RequestOK, Accounted, HasEntry

(* A step of the request q, for q itself                                   *)
LEMMA OwnStep ==
    ASSUME SettingsTypeOK, StampsOK, NEW q \in Requests, RequestOK(q), Accounted(q),
           Receive(q) \/ Handle(q) \/ MissEntry(q) \/ CancelRequest(q) \/ LoseAnswer(q)
    PROVE  RequestOK(q)' /\ Accounted(q)'
<1> USE DEF UnderWay, Unchanged
<1> DEFINE Kept == UNCHANGED <<entries, stamp, changed>>
<1>1. CASE Receive(q)
  <2>1. /\ pc[q] = "idle" /\ pc'[q] \in {"load", "authorize"}
        /\ ask'[q] \in Asks /\ outcome' = outcome /\ Kept
    BY <1>1 DEF Receive, Goto, auditVars, SettingsTypeOK
  <2>2. QED
    BY <2>1 DEF RequestOK, Accounted, HasEntry, Refusals
<1>2. CASE LoadProject(q) \/ Authorize(q)
  <2>1. /\ pc[q] \in Unchanged /\ pc'[q] \in Unchanged
        /\ ask' = ask /\ outcome' = outcome /\ Kept
    BY <1>2 DEF LoadProject, Authorize, Goto, auditVars, SettingsTypeOK
  <2>2. QED
    BY <2>1 DEF RequestOK, Accounted, HasEntry, Refusals
<1>3. CASE RefuseProject(q) \/ RefuseUser(q) \/ RefuseSlug(q) \/ CancelRequest(q)
  <2>1. pc[q] \in Unchanged /\ pc'[q] = "done" /\ Kept
    BY <1>3 DEF RefuseProject, RefuseUser, RefuseSlug, CancelRequest, Refuse, End, Goto,
                auditVars, SettingsTypeOK
  <2>2. QED
    BY <2>1 DEF RequestOK, Accounted, HasEntry
<1>4. CASE MissEntry(q)
  <2>1. pc[q] \in {"log", "entry"} /\ pc'[q] = "done" /\ outcome'[q] = "unlogged" /\ Kept
    BY <1>4 DEF MissEntry, Refuse, End, Goto, auditVars, SettingsTypeOK
  <2>2. QED
    BY <2>1 DEF RequestOK, Accounted, HasEntry, Refusals
<1>5. CASE ChangeProject(q)
  <2>1. /\ pc[q] = "change" /\ pc'[q] = "log" /\ ask' = ask /\ outcome' = outcome
        /\ q \in changed' /\ stamp' = stamp /\ entries' = entries
    BY <1>5 DEF ChangeProject, WriteChange, Goto, auditVars, SettingsTypeOK
  <2>2. QED
    BY <2>1 DEF RequestOK, Accounted, HasEntry, Refusals
<1>6. CASE LoseAnswer(q)
  <2>1. /\ pc[q] = "change" /\ pc'[q] = "done" /\ outcome'[q] = "lost"
        /\ q \in changed' /\ stamp' = stamp /\ entries' = entries
    BY <1>6 DEF LoseAnswer, WriteChange, End, Goto, auditVars, SettingsTypeOK
  <2>2. QED
    BY <2>1 DEF RequestOK, Accounted, HasEntry, Refusals
<1>7. CASE LogEntry(q)
  <2>1. /\ pc[q] = "log" /\ pc'[q] = "entry" /\ ask' = ask /\ outcome' = outcome
        /\ changed' = changed /\ stamp'[q] = Now /\ entries' = entries
    BY <1>7 DEF LogEntry, BeginEntry, Goto, SettingsTypeOK, LogTypeOK
  <2>2. Now \notin entries /\ Now # 0
    BY NowType, AuditLogAssumption DEF StampsOK, SettingsTypeOK, LogTypeOK
  <2>3. QED
    BY <2>1, <2>2 DEF RequestOK, Accounted, HasEntry, Refusals
<1>8. CASE WriteEntry(q)
  <2>1. /\ pc[q] = "entry" /\ pc'[q] = "done" /\ outcome'[q] = "ok"
        /\ changed' = changed /\ stamp' = stamp /\ stamp[q] \in entries'
    BY <1>8 DEF WriteEntry, CommitEntry, End, Goto, SettingsTypeOK
  <2>2. QED
    BY <2>1 DEF RequestOK, Accounted, HasEntry, Refusals
<1>9. QED
  BY <1>1, <1>2, <1>3, <1>4, <1>5, <1>6, <1>7, <1>8 DEF Handle

LEMMA RequestsKept ==
    ASSUME SettingsTypeOK, StampsOK, RequestsOK, AuditTrail, [Next]_vars
    PROVE  RequestsOK' /\ AuditTrail'
<1>1. OwnStamps'
  BY StampsStay, StepsLog, RequestParts DEF SettingsTypeOK
<1> SUFFICES ASSUME NEW p \in Requests PROVE RequestOK(p)' /\ Accounted(p)'
  BY <1>1 DEF RequestsOK, RequestOK, AuditTrail, OwnStamps, Accounted
<1>2. RequestOK(p) /\ Accounted(p) /\ OwnStamps
  BY RequestParts
<1>3. ASSUME NEW q \in Requests,
             Receive(q) \/ Handle(q) \/ MissEntry(q) \/ CancelRequest(q) \/ LoseAnswer(q)
      PROVE  RequestOK(p)' /\ Accounted(p)'
  <2>1. CASE p = q
    BY <1>2, <1>3, <2>1, OwnStep
  <2>2. CASE p # q
    <3>1. pc'[p] = pc[p] /\ ask'[p] = ask[p] /\ outcome'[p] = outcome[p]
      BY <1>3, <2>2 DEF Receive, Handle, LoadProject, RefuseProject, Authorize, RefuseUser,
           ChangeProject, RefuseSlug, LogEntry, WriteEntry, MissEntry, CancelRequest, LoseAnswer,
           WriteChange, Refuse, End, Goto, SettingsTypeOK
    <3>2. p \in changed' <=> p \in changed
      BY <1>3, <2>2 DEF Receive, Handle, LoadProject, RefuseProject, Authorize, RefuseUser,
           ChangeProject, RefuseSlug, LogEntry, WriteEntry, MissEntry, CancelRequest, LoseAnswer,
           WriteChange, Refuse
    <3>3. stamp'[p] = stamp[p]
      BY <1>3, <2>2 DEF Receive, Handle, LoadProject, RefuseProject, Authorize, RefuseUser,
           ChangeProject, RefuseSlug, LogEntry, WriteEntry, MissEntry, CancelRequest, LoseAnswer,
           WriteChange, Refuse, BeginEntry, CommitEntry, auditVars, SettingsTypeOK, LogTypeOK
    <3>4. entries' = entries \/ entries' = entries \cup {stamp[q]}
      BY <1>3 DEF Receive, Handle, LoadProject, RefuseProject, Authorize, RefuseUser,
           ChangeProject, RefuseSlug, LogEntry, WriteEntry, MissEntry, CancelRequest, LoseAnswer,
           WriteChange, Refuse, BeginEntry, CommitEntry, auditVars
    <3>5. stamp[p] # 0 => stamp[p] # stamp[q]
      BY <1>2, <2>2 DEF OwnStamps
    <3>6. QED
      BY <1>2, <3>1, <3>2, <3>3, <3>4, <3>5, OthersStay
  <2>3. QED
    BY <2>1, <2>2
<1>4. ASSUME UNCHANGED <<entries, stamp, requestVars, changed>>
      PROVE  RequestOK(p)' /\ Accounted(p)'
  BY <1>2, <1>4, OthersStay DEF requestVars
<1>5. CASE ServerCrash
  <2>1. UNCHANGED <<entries, stamp, ask, changed>>
    BY <1>5 DEF ServerCrash, auditVars
  <2>2. CASE pc[p] \in UnderWay
    <3>1. pc'[p] = "done" /\ outcome'[p] = "crashed"
      BY <1>5, <2>2 DEF ServerCrash
    <3>2. QED
      BY <1>2, <2>1, <2>2, <3>1 DEF RequestOK, Accounted, HasEntry, Refusals, UnderWay, Unchanged
  <2>3. CASE pc[p] \notin UnderWay
    <3>1. pc'[p] = pc[p] /\ outcome'[p] = outcome[p]
      BY <1>5, <2>3 DEF ServerCrash
    <3>2. QED
      BY <1>2, <2>1, <3>1, OthersStay
  <2>4. QED
    BY <2>2, <2>3
<1>6. ASSUME NEW r \in Readers, ReadLog(r) PROVE RequestOK(p)' /\ Accounted(p)'
  BY <1>4, <1>6 DEF ReadLog, Read, OpenLog, CountEntries, FetchPage
<1>7. CASE \/ UNCHANGED vars
           \/ \E u \in Users : ChangeRole(u)
           \/ \E f \in Flakes : StartNotification(f) \/ Notify(f)
  BY <1>4, <1>7 DEF vars, auditVars, ChangeRole, StartNotification, Notify, LoadSettings,
                    SkipNotification, PostNotification
<1>8. QED
  BY <1>3, <1>5, <1>6, <1>7 DEF Next
-----------------------------------------------------------------------------
(* Settings and goroutines *)

(* What the three invariants say of one goroutine                          *)
GoroutineOK(f) ==
    /\ gopc[f] = "post" => hookRead[f] \in offered[f]
    /\ gopc[f] = "load" /\ Configured(project[ProjectOf[f]]) =>
         project[ProjectOf[f]].hook \in offered[f]
    /\ gopc[f] # "none" => Exists(ProjectOf[f])
    /\ gopc[f] = "none" => told[f] = {}
    /\ told[f] \subseteq offered[f]

LEMMA GoroutineParts ==
    ReadsOffered /\ PostedWhereConfigured <=> \A f \in Flakes : GoroutineOK(f)
BY DEF ReadsOffered, PostedWhereConfigured, GoroutineOK

(* A change of a project tells the goroutines of its flakes, so to speak,  *)
(* of the webhook that is on.                                              *)
LEMMA ChangeKeeps ==
    ASSUME SettingsTypeOK, RequestsOK, OnOnlyWithHook, NEW q \in Requests, WriteChange(q)
    PROVE  /\ OnOnlyWithHook'
           /\ \A f \in Flakes : GoroutineOK(f) => GoroutineOK(f)'
<1> DEFINE a == ask[q]
<1>1. a \in Asks /\ a.slug \in Slugs
  BY ChangeType, AskType
<1>2. /\ Changed(a) # NoProject
      /\ Changed(a).enabled => Changed(a).hook # NoHook
  BY <1>1, ChangedType
<1>3. \A s \in Slugs : project'[s] = IF s = a.slug THEN Changed(a) ELSE project[s]
  BY <1>1 DEF WriteChange, SettingsTypeOK
<1>4. OnOnlyWithHook'
  BY <1>2, <1>3 DEF OnOnlyWithHook, Exists
<1>5. ASSUME NEW f \in Flakes, GoroutineOK(f) PROVE GoroutineOK(f)'
  <2>1. ProjectOf[f] \in Slugs
    BY ProjectSettingsAssumption
  <2>2. UNCHANGED <<gopc, hookRead, told>>
    BY DEF WriteChange, slackVars
  <2>3. /\ offered[f] \subseteq offered'[f]
        /\ gopc[f] # "none" /\ ProjectOf[f] = a.slug /\ Configured(Changed(a)) =>
             Changed(a).hook \in offered'[f]
    BY DEF WriteChange
  <2>4. Exists(ProjectOf[f]) => Exists(ProjectOf[f])'
    BY <1>2, <1>3, <2>1 DEF Exists
  <2>5. CASE ProjectOf[f] = a.slug
    <3>1. project'[ProjectOf[f]] = Changed(a)
      BY <1>3, <2>1, <2>5
    <3>2. QED
      BY <1>5, <2>2, <2>3, <2>4, <2>5, <3>1 DEF GoroutineOK, Configured
  <2>6. CASE ProjectOf[f] # a.slug
    <3>1. project'[ProjectOf[f]] = project[ProjectOf[f]]
      BY <1>3, <2>1, <2>6
    <3>2. QED
      BY <1>5, <2>2, <2>3, <2>4, <3>1 DEF GoroutineOK, Configured
  <2>7. QED
    BY <2>5, <2>6
<1>6. QED
  BY <1>4, <1>5

(* A step of the goroutine f, for that goroutine                           *)
LEMMA NotifyKeeps ==
    ASSUME SettingsTypeOK, NEW f \in Flakes, GoroutineOK(f), StartNotification(f) \/ Notify(f)
    PROVE  GoroutineOK(f)'
<1>1. CASE StartNotification(f)
  <2>1. /\ gopc[f] = "none" /\ gopc'[f] = "load" /\ UNCHANGED <<project, told>>
        /\ Exists(ProjectOf[f])
        /\ offered'[f] = IF Configured(project[ProjectOf[f]]) THEN {project[ProjectOf[f]].hook} ELSE {}
    BY <1>1 DEF StartNotification, Goroutine, SettingsTypeOK
  <2>2. QED
    BY <2>1 DEF GoroutineOK, Exists
<1>2. CASE LoadSettings(f)
  BY <1>2 DEF LoadSettings, Goroutine, GoroutineOK, Configured, Exists, SettingsTypeOK
<1>3. CASE SkipNotification(f)
  BY <1>3 DEF SkipNotification, Goroutine, GoroutineOK, Configured, Exists, SettingsTypeOK
<1>4. CASE PostNotification(f)
  BY <1>4 DEF PostNotification, Goroutine, GoroutineOK, Configured, Exists, SettingsTypeOK
<1>5. QED
  BY <1>1, <1>2, <1>3, <1>4 DEF Notify

LEMMA SettingsKept ==
    ASSUME SettingsTypeOK, RequestsOK, OnOnlyWithHook,
           ReadsOffered, PostedWhereConfigured, [Next]_vars
    PROVE  OnOnlyWithHook' /\ ReadsOffered' /\ PostedWhereConfigured'
<1> SUFFICES OnOnlyWithHook' /\ \A f \in Flakes : GoroutineOK(f)'
  BY DEF ReadsOffered, PostedWhereConfigured, GoroutineOK
<1>1. \A f \in Flakes : GoroutineOK(f)
  BY GoroutineParts
<1>2. ASSUME NEW q \in Requests, WriteChange(q)
      PROVE  OnOnlyWithHook' /\ \A f \in Flakes : GoroutineOK(f)'
  BY <1>1, <1>2, ChangeKeeps
<1>3. ASSUME UNCHANGED <<project, slackVars, offered>>
      PROVE  OnOnlyWithHook' /\ \A f \in Flakes : GoroutineOK(f)'
  BY <1>1, <1>3 DEF slackVars, OnOnlyWithHook, GoroutineOK, Exists
<1>4. ASSUME NEW g \in Flakes, StartNotification(g) \/ Notify(g)
      PROVE  OnOnlyWithHook' /\ \A f \in Flakes : GoroutineOK(f)'
  <2>1. UNCHANGED project
    BY <1>4 DEF StartNotification, Notify, LoadSettings, SkipNotification, PostNotification
  <2>2. ASSUME NEW f \in Flakes, f # g PROVE GoroutineOK(f)'
    <3>1. /\ gopc'[f] = gopc[f] /\ hookRead'[f] = hookRead[f]
          /\ told'[f] = told[f] /\ offered'[f] = offered[f]
      BY <1>4, <2>2 DEF StartNotification, Notify, LoadSettings, SkipNotification,
                        PostNotification, Goroutine, SettingsTypeOK
    <3>2. QED
      BY <1>1, <2>1, <3>1 DEF GoroutineOK, Exists
  <2>3. GoroutineOK(g)'
    BY <1>1, <1>4, NotifyKeeps
  <2>4. QED
    BY <2>1, <2>2, <2>3 DEF OnOnlyWithHook, Exists
<1>5. CASE ServerCrash
  BY <1>1, <1>5 DEF ServerCrash, OnOnlyWithHook, GoroutineOK, Exists
<1>6. CASE \/ UNCHANGED vars
           \/ \E r \in Readers : ReadLog(r)
           \/ \E u \in Users : ChangeRole(u)
           \/ \E q \in Requests :
                \/ Receive(q) \/ LoadProject(q) \/ RefuseProject(q) \/ Authorize(q)
                \/ RefuseUser(q) \/ RefuseSlug(q) \/ LogEntry(q) \/ WriteEntry(q)
                \/ MissEntry(q) \/ CancelRequest(q)
  BY <1>3, <1>6 DEF vars, ReadLog, ChangeRole, Receive, LoadProject, RefuseProject, Authorize,
       RefuseUser, RefuseSlug, LogEntry, WriteEntry, MissEntry, CancelRequest, Refuse
<1>7. QED
  BY <1>2, <1>4, <1>5, <1>6 DEF Next, Handle, ChangeProject, LoseAnswer
-----------------------------------------------------------------------------
(* Theorems *)

LEMMA InitSettings == Init => SettingsInv /\ WalkSeesAll
<1> SUFFICES ASSUME Init PROVE SettingsInv /\ WalkSeesAll
  OBVIOUS
<1>1. \A n \in entries : n \in Nat /\ n <= Earlier
  BY AuditLogAssumption DEF Init, InitLog
<1>2. LogTypeOK
  BY <1>1 DEF Init, InitLog, LogTypeOK
<1>3. SettingsTypeOK
  BY <1>2 DEF Init, SettingsTypeOK, Outcomes
<1>4. StampsOK
  BY <1>1, NowType, AuditLogAssumption DEF Init, InitLog, StampsOK
<1>5. WalksOK /\ WalkSeesAll
  BY DEF Init, InitLog, WalksOK, WalkOK, WalkSeesAll
<1>6. RequestsOK /\ AuditTrail
  BY DEF Init, InitLog, RequestsOK, AuditTrail, HasEntry, UnderWay, Unchanged, Refusals
<1>7. OnOnlyWithHook
  <2> SUFFICES ASSUME NEW s \in Slugs, project[s] # NoProject, project[s].enabled
               PROVE  project[s].hook # NoHook
    BY DEF OnOnlyWithHook, Exists
  <2>1. project[s] \in {NoProject} \cup {p \in Settings : p.enabled => p.hook # NoHook}
    BY DEF Init
  <2>2. QED
    BY <2>1
<1>8. ReadsOffered /\ PostedWhereConfigured
  BY DEF Init, ReadsOffered, PostedWhereConfigured
<1>9. QED
  BY <1>3, <1>4, <1>5, <1>6, <1>7, <1>8 DEF SettingsInv

LEMMA SettingsStep ==
    ASSUME SettingsInv, WalkSeesAll, [Next]_vars
    PROVE  SettingsInv' /\ WalkSeesAll'
<1>1. LogStep
  BY StepsLog DEF SettingsInv
<1>2. SettingsTypeOK' /\ StampsOK'
  BY <1>1, SettingsTyped, LogTyped DEF SettingsInv, SettingsTypeOK
<1>3. WalksOK' /\ WalkSeesAll'
  BY <1>1, WalksKept DEF SettingsInv, SettingsTypeOK
<1>4. RequestsOK' /\ AuditTrail'
  BY RequestsKept DEF SettingsInv
<1>5. OnOnlyWithHook' /\ ReadsOffered' /\ PostedWhereConfigured'
  BY SettingsKept DEF SettingsInv
<1>6. QED
  BY <1>2, <1>3, <1>4, <1>5 DEF SettingsInv

(* The inductive invariant of the settings requests, the goroutines that   *)
(* read the settings, and the audit log                                    *)
(* (projects/service.go, flake/detector.go, audit/audit.go).               *)
THEOREM SettingsInvariant == Spec => []SettingsInv
<1>1. SettingsInv /\ WalkSeesAll /\ UNCHANGED vars => SettingsInv' /\ WalkSeesAll'
  BY SettingsStep
<1>2. QED
  BY InitSettings, SettingsStep, PTL DEF Spec

(* Every audit entry is about one committed change, and a change without   *)
(* one is due to a handler that was cut off or an INSERT that failed       *)
(* (projects/handlers.go, audit/audit.go).                                 *)
THEOREM TrailAccounts == Spec => []AuditTrail
<1>1. SettingsInv => AuditTrail
  BY DEF SettingsInv
<1>2. QED
  BY <1>1, SettingsInvariant, PTL

(* A flake is posted only to a webhook that was on at some moment since it *)
(* was announced (detector.go notifySlackAsync).                           *)
THEOREM PostsAllowed == Spec => []PostedWhereConfigured
<1>1. SettingsInv => PostedWhereConfigured
  BY DEF SettingsInv
<1>2. QED
  BY <1>1, SettingsInvariant, PTL

(* Reading the log page by page to an empty page misses nothing that was   *)
(* there, whatever is written meanwhile (audit/reader.go ListByOrgPage).   *)
THEOREM WalksComplete == Spec => []WalkSeesAll
BY InitSettings, SettingsStep, PTL DEF Spec

(* The goroutines make one attempt each for an announced flake             *)
(* (detector.go notifySlackAsync, slack/client.go).                        *)
THEOREM NoticesImplemented == Spec => ImplementsNotices
<1>1. Init => ImplementedNotices!Init
  BY DEF Init, ImplementedNotices!Init
<1>2. SettingsInv /\ [Next]_vars => [ImplementedNotices!Next]_(ImplementedNotices!vars)
  <2> SUFFICES ASSUME SettingsInv, [Next]_vars
               PROVE  [ImplementedNotices!Next]_(ImplementedNotices!vars)
    OBVIOUS
  <2> gopc \in [Flakes -> {"none", "load", "post", "done"}] /\ told \in [Flakes -> SUBSET Hooks]
    BY DEF SettingsInv, SettingsTypeOK
  <2>1. ASSUME NEW f \in Flakes, StartNotification(f) PROVE ImplementedNotices!Announce
    BY <2>1 DEF StartNotification, Goroutine, ImplementedNotices!Announce
  <2>2. ASSUME NEW f \in Flakes, LoadSettings(f) PROVE UNCHANGED ImplementedNotices!vars
    BY <2>2 DEF LoadSettings, Goroutine, ImplementedNotices!vars
  <2>3. ASSUME NEW f \in Flakes, SkipNotification(f) PROVE ImplementedNotices!Finish
    BY <2>3 DEF SkipNotification, Goroutine, ImplementedNotices!Finish
  <2>4. ASSUME NEW f \in Flakes, PostNotification(f) PROVE ImplementedNotices!Finish
    BY <2>4 DEF PostNotification, Goroutine, ImplementedNotices!Finish
  <2>5. ASSUME ServerCrash PROVE ImplementedNotices!Lose
    BY <2>5 DEF ServerCrash, ImplementedNotices!Lose
  <2>6. ASSUME UNCHANGED slackVars PROVE UNCHANGED ImplementedNotices!vars
    BY <2>6 DEF slackVars, ImplementedNotices!vars
  <2>7. CASE \/ UNCHANGED vars
             \/ \E r \in Readers : ReadLog(r)
             \/ \E u \in Users : ChangeRole(u)
             \/ \E q \in Requests :
                  Receive(q) \/ Handle(q) \/ MissEntry(q) \/ CancelRequest(q) \/ LoseAnswer(q)
    BY <2>6, <2>7 DEF vars, ReadLog, ChangeRole, Receive, Handle, LoadProject, RefuseProject,
         Authorize, RefuseUser, ChangeProject, RefuseSlug, LogEntry, WriteEntry, MissEntry,
         CancelRequest, LoseAnswer, WriteChange, Refuse
  <2>8. QED
    BY <2>1, <2>2, <2>3, <2>4, <2>5, <2>7 DEF Next, Notify, ImplementedNotices!Next
<1>3. QED
  BY <1>1, <1>2, SettingsInvariant, PTL DEF Spec, ImplementsNotices, ImplementedNotices!Spec
=============================================================================
