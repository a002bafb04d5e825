------------------------------ MODULE ApiKeys ------------------------------
(***************************************************************************)
(* API keys of one project: create, rotate, revoke (apikeys/handlers.go,   *)
(* apikeys/service.go) and the check every upload passes (apikey/).        *)
(*                                                                         *)
(* Create and Revoke are one autocommitted statement.  A rotation reads    *)
(* the key without a lock (the handler), then in one transaction locks the *)
(* row, inserts the new key and revokes the old one.  Rows of an open      *)
(* transaction are invisible, but they hold their name in the unique index *)
(* on (project_id, name): an INSERT of the same name waits for the end of  *)
(* that transaction.                                                       *)
(***************************************************************************)
EXTENDS Naturals

CONSTANTS Keys, Names,
          Scopes, IngestScopes,   \* sets of scopes, and those with ingest:write
          Requests, Uploads,
          Asks,        \* what administrators may ask for
          MaxDay       \* bound on the clock

Ask == [op : {"create"}, name : Names, scope : Scopes, days : Nat]
       \cup [op : {"rotate"}, key : Keys, name : Names, days : Nat]
       \cup [op : {"revoke"}, key : Keys]

NoRequest == "no request"
NoParent == "no parent"
NoAsk == [op |-> "none"]
NoKey == [name |-> "no key"]
NoUpload == [verdict |-> "no upload"]
Never == 0             \* expires_at IS NULL

ASSUME ApiKeysAssumption ==
    /\ Asks \subseteq Ask
    /\ NoRequest \notin Requests
    /\ NoParent \notin Keys
    /\ Scopes \cap {"unissued", "gone"} = {}

VARIABLES
    key,         \* api_keys: committed rows and those of open transactions
    day,         \* the clock
    pc,          \* a request's next step
    ask,         \* what it asks for
    expires,     \* expires_at as the handler computed it
    began,       \* NOW() of its transaction
    outcome,     \* how it ended
    upload       \* requests that present a token

requestVars == <<pc, ask, expires, began, outcome>>
vars == <<key, day, requestVars, upload>>

\* maker is the request that inserted the row, revokedBy the one that set
\* revoked_at, parent the key it replaced (as in the audit entry of a rotation).
Row == [name : Names, scope : Scopes, expires : Nat, created : Nat,
        maker : Requests \cup {NoRequest},
        revokedBy : Requests \cup {NoRequest},
        parent : Keys \cup {NoParent}]

Exists(k) == key[k] # NoKey
Revoked(k) == key[k].revokedBy # NoRequest

\* Told 2xx, or 500 although the COMMIT took effect: its answer was lost on the way
\* to the server, or the server stopped before it could pass it on.
TookEffect(q) == outcome[q] \in {"ok", "lost"}

\* A bug: the rotation's INSERT is not part of its transaction.
CommittedAtOnce(k) == Exists(k)

Committed(k) ==
    /\ Exists(k)
    /\ key[k].maker # NoRequest => pc[key[k].maker] = "done"

Past(e) == e # Never /\ e <= day

\* The key opens something today.
Good(k) == Committed(k) /\ ~Revoked(k) /\ ~Past(key[k].expires)

\* A project that has one key, with or without an end.
Init ==
    /\ \E k \in Keys, n \in Names, s \in Scopes, e \in {Never, 1} :
          key = [j \in Keys |->
                   IF j = k THEN [name |-> n, scope |-> s, expires |-> e,
                                  created |-> 0, maker |-> NoRequest,
                                  revokedBy |-> NoRequest, parent |-> NoParent]
                   ELSE NoKey]
    /\ day = 0
    /\ pc = [q \in Requests |-> "idle"]
    /\ ask = [q \in Requests |-> NoAsk]
    /\ expires = [q \in Requests |-> Never]
    /\ began = [q \in Requests |-> 0]
    /\ outcome = [q \in Requests |-> "none"]
    /\ upload = [u \in Uploads |-> NoUpload]

-----------------------------------------------------------------------------
\* A bug: the rotation reads its key without FOR UPDATE.
NoHolders(k, q) == {}

\* A bug: Rotate returns early without rolling back.
HoldersAfterFailure(k, q) ==
    {r \in Requests \ {q} :
        /\ \/ pc[r] \in {"insert", "commit"}
           \/ outcome[r] = "nameConflict" /\ ask[r].op = "rotate"
        /\ ask[r].key = k}

\* A rotation holds the row of its key from its SELECT ... FOR UPDATE to its end.
Holders(k, q) ==
    {r \in Requests \ {q} : pc[r] \in {"insert", "commit"} /\ ask[r].key = k}

Locked(k, q) == Holders(k, q) # {}

\* A bug: the revocation is not conditional on revoked_at IS NULL.
RevocableAgain(k) == Committed(k)

Revocable(k) == Committed(k) /\ ~Revoked(k)

\* A bug: the new key gets the expiry that was asked for and nothing else.
OnlyAskedExpiry(q, old) ==
    IF ask[q].days > 0 THEN day + ask[q].days ELSE Never

\* expires_in_days, or else the end of the old key if that is still to come.
Expiry(q, old) ==
    CASE ask[q].days > 0 -> day + ask[q].days
      [] ask[q].days = 0 /\ ~Past(old) -> old
      [] OTHER -> Never

WithoutRowsOf(q) ==
    [k \in Keys |-> IF Exists(k) /\ key[k].maker = q THEN NoKey ELSE key[k]]

\* A bug: the middleware does not look at revoked_at.
AdmitsRevoked(k) ==
    Committed(k) /\ ~Past(key[k].expires) /\ key[k].scope \in IngestScopes

Admits(k) ==
    Revocable(k) /\ ~Past(key[k].expires) /\ key[k].scope \in IngestScopes

Goto(q, step) == pc' = [pc EXCEPT ![q] = step]

End(q, how) ==
    /\ pc' = [pc EXCEPT ![q] = "done"]
    /\ outcome' = [outcome EXCEPT ![q] = how]

\* The statement is committed, and the server hears of it or does not.
Effect(q) == \E how \in {"ok", "lost"} : End(q, how)

\* The transaction, if there is one, is rolled back.
Fail(q, how) ==
    /\ End(q, how)
    /\ key' = WithoutRowsOf(q)
    /\ UNCHANGED <<day, ask, expires, began, upload>>

\* The requests whose uncommitted row has the name that is asked for.
NameHolders(q) ==
    {r \in Requests : \E k \in Keys :
        Exists(k) /\ ~Committed(k) /\ key[k].name = ask[q].name /\ key[k].maker = r}

NameHeld(q) == NameHolders(q) # {}

NameTaken(q) == \E k \in Keys : Committed(k) /\ key[k].name = ask[q].name

\* CHECK (expires_at IS NULL OR expires_at > created_at)
ExpiryAccepted(q) == expires[q] # Never => expires[q] > began[q]

\* INSERT INTO api_keys, with a fresh id and token.
InsertRow(q, scope, parent) ==
    /\ ~NameHeld(q) /\ ~NameTaken(q) /\ ExpiryAccepted(q)
    /\ \E h \in Keys :
        /\ ~Exists(h)
        /\ key' = [key EXCEPT ![h] =
               [name |-> ask[q].name, scope |-> scope, expires |-> expires[q],
                created |-> began[q], maker |-> q, revokedBy |-> NoRequest,
                parent |-> parent]]

-----------------------------------------------------------------------------
\* The handler decodes the request of a user who may mutate; a new key's expiry
\* counts from now.
Receive(q) ==
    /\ pc[q] = "idle"
    /\ \E a \in Asks :
        /\ ask' = [ask EXCEPT ![q] = a]
        /\ expires' = [expires EXCEPT ![q] =
               IF a.op = "create" /\ a.days > 0 THEN day + a.days ELSE Never]
        /\ Goto(q, IF a.op = "create" THEN "begin" ELSE "read")
    /\ UNCHANGED <<key, day, began, outcome, upload>>

\* GetByID: no lock.
KeyNotFound(q) == pc[q] = "read" /\ ~Committed(ask[q].key) /\ Fail(q, "notFound")

ReadForRevoke(q) ==
    /\ pc[q] = "read" /\ ask[q].op = "revoke" /\ Committed(ask[q].key)
    /\ Goto(q, "revoke")
    /\ UNCHANGED <<key, day, ask, expires, began, outcome, upload>>

ReadForRotate(q) ==
    /\ pc[q] = "read" /\ ask[q].op = "rotate" /\ Revocable(ask[q].key)
    /\ expires' = [expires EXCEPT ![q] = Expiry(q, key[ask[q].key].expires)]
    /\ Goto(q, "begin")
    /\ UNCHANGED <<key, day, ask, began, outcome, upload>>

AlreadyRevoked(q) ==
    /\ pc[q] = "read" /\ ask[q].op = "rotate"
    /\ Committed(ask[q].key) /\ Revoked(ask[q].key)
    /\ Fail(q, "revoked")

\* The database's NOW() is the time a transaction begins.
Begin(q) ==
    /\ pc[q] = "begin"
    /\ began' = [began EXCEPT ![q] = day]
    /\ Goto(q, IF ask[q].op = "create" THEN "create" ELSE "lock")
    /\ UNCHANGED <<key, day, ask, expires, outcome, upload>>

Create(q) ==
    /\ pc[q] = "create"
    /\ InsertRow(q, ask[q].scope, NoParent)
    /\ Effect(q)
    /\ UNCHANGED <<day, ask, expires, began, upload>>

\* SELECT ... FOR UPDATE: waits for a rotation of the same key, then sees it.
LockKey(q) ==
    /\ pc[q] = "lock" /\ ~Locked(ask[q].key, q) /\ Revocable(ask[q].key)
    /\ Goto(q, "insert")
    /\ UNCHANGED <<key, day, ask, expires, began, outcome, upload>>

RevokedMeanwhile(q) ==
    /\ pc[q] = "lock" /\ ~Locked(ask[q].key, q) /\ ~Revocable(ask[q].key)
    /\ Fail(q, "revoked")

InsertHeir(q) ==
    /\ pc[q] = "insert"
    /\ InsertRow(q, key[ask[q].key].scope, ask[q].key)
    /\ Goto(q, "commit")
    /\ UNCHANGED <<day, ask, expires, began, outcome, upload>>

\* UPDATE ... WHERE revoked_at IS NULL on the locked row, and COMMIT.
CommitRotation(q) ==
    /\ pc[q] = "commit" /\ Revocable(ask[q].key)
    /\ key' = [key EXCEPT ![ask[q].key].revokedBy = q]
    /\ Effect(q)
    /\ UNCHANGED <<day, ask, expires, began, upload>>

NameConflict(q) ==
    /\ pc[q] \in {"create", "insert"}
    /\ ~NameHeld(q) /\ NameTaken(q) /\ ExpiryAccepted(q)
    /\ Fail(q, "nameConflict")

\* The row violates api_keys_expires_after_created.
ExpiryRefused(q) ==
    /\ pc[q] \in {"create", "insert"} /\ ~ExpiryAccepted(q)
    /\ Fail(q, "error")

RevokeKey(q) ==
    /\ pc[q] = "revoke" /\ ~Locked(ask[q].key, q) /\ Revocable(ask[q].key)
    /\ key' = [key EXCEPT ![ask[q].key].revokedBy = q]
    /\ Effect(q)
    /\ UNCHANGED <<day, ask, expires, began, upload>>

NothingToRevoke(q) ==
    /\ pc[q] = "revoke" /\ ~Locked(ask[q].key, q) /\ ~Revocable(ask[q].key)
    /\ Fail(q, "notFound")

\* The client hangs up, a statement fails or the server stops, before anything is
\* committed.
Cancel(q) == pc[q] \notin {"idle", "done"} /\ Fail(q, "cancelled")

-----------------------------------------------------------------------------
\* An upload leaves with the token of a key that some client holds.  live
\* remembers whether the key was good at that moment.
Send(u) ==
    /\ upload[u] = NoUpload
    /\ \E k \in Keys :
        /\ Committed(k)
        /\ upload' = [upload EXCEPT ![u] =
               [verdict |-> "none", key |-> k, live |-> Good(k)]]
    /\ UNCHANGED <<key, day, requestVars>>

\* RequireAPIKey and ValidateAPIKey, on one read of the row.
Authenticate(u) ==
    /\ upload[u].verdict = "none"
    /\ upload' = [upload EXCEPT ![u].verdict =
           IF Admits(upload[u].key) THEN "accepted" ELSE "refused"]
    /\ UNCHANGED <<key, day, requestVars>>

Tick == day < MaxDay /\ day' = day + 1 /\ UNCHANGED <<key, requestVars, upload>>

Proceed(q) ==
    \/ KeyNotFound(q) \/ ReadForRevoke(q) \/ ReadForRotate(q) \/ AlreadyRevoked(q)
    \/ Begin(q) \/ Create(q) \/ LockKey(q) \/ RevokedMeanwhile(q)
    \/ InsertHeir(q) \/ CommitRotation(q) \/ NameConflict(q) \/ ExpiryRefused(q)
    \/ RevokeKey(q) \/ NothingToRevoke(q)

Next ==
    \/ \E q \in Requests : Receive(q) \/ Proceed(q) \/ Cancel(q)
    \/ \E u \in Uploads : Send(u) \/ Authenticate(u)
    \/ Tick

Spec == Init /\ [][Next]_vars

\* The server keeps running a request's statements, and the database lets a
\* waiting statement go once what it waits for is over.
Fairness == \A q \in Requests : WF_vars(Proceed(q))

FairSpec == Spec /\ Fairness

-----------------------------------------------------------------------------
\* Every value is of its type, and no key is born expired.
KeysTypeOK ==
    /\ key \in [Keys -> Row \cup {NoKey}]
    /\ \A k \in Keys : Exists(k) /\ key[k].expires # Never => key[k].expires > key[k].created
    /\ day \in Nat
    /\ pc \in [Requests -> {"idle", "read", "begin", "create", "lock", "insert",
                            "commit", "revoke", "done"}]
    /\ ask \in [Requests -> Ask \cup {NoAsk}]
    /\ \A q \in Requests : pc[q] # "idle" => ask[q] \in Ask
    /\ expires \in [Requests -> Nat]
    /\ began \in [Requests -> Nat]
    /\ outcome \in [Requests -> {"none", "ok", "lost", "notFound", "revoked",
                                 "nameConflict", "error", "cancelled"}]
    /\ upload \in [Uploads -> {NoUpload} \cup
           [verdict : {"none", "accepted", "refused"}, key : Keys, live : BOOLEAN]]

-----------------------------------------------------------------------------
(* What must be true.                                                      *)

\* A key is ended by one request: of any number of rotations and revocations of a key
\* that race at most one answers 2xx, and that one did end it.  A request that answers
\* 404 or 409 has ended nothing; one that answers 500 may have, when the COMMIT's answer
\* was lost.  The key has a successor exactly if it was ended by a rotation, answered
\* or not, and then it has only one.
EndedOnce ==
    /\ \A k \in Keys : Exists(k) /\ Revoked(k) =>
          LET q == key[k].revokedBy IN
          /\ TookEffect(q) /\ ask[q].key = k
          /\ ask[q].op = "rotate" <=> \E h \in Keys : Exists(h) /\ key[h].parent = k
    /\ \A q \in Requests : TookEffect(q) /\ ask[q].op # "create" =>
          Exists(ask[q].key) /\ key[ask[q].key].revokedBy = q
    /\ \A h, j \in Keys :
          /\ Committed(h) /\ Committed(j) /\ key[h].parent \in Keys
          /\ key[h].parent = key[j].parent
          => h = j

\* A rotation that asks for no expiry never lets a key outlive the limit it had:
\* the successor ends when the old key would have, unless the old key had already
\* ended when its successor was created.
LimitInherited ==
    \A h \in Keys : Exists(h) /\ key[h].parent \in Keys =>
        LET old == key[key[h].parent] IN
        \/ ask[key[h].maker].days > 0
        \/ key[h].expires = old.expires
        \/ old.expires # Never /\ old.expires <= key[h].created

\* A token that was revoked or expired before a request left is never accepted,
\* whatever rotations and revocations run meanwhile.
ShutOut ==
    \A u \in Uploads : upload[u].verdict = "accepted" => upload[u].live

\* Whom the next statement of a request waits for.
WaitsFor(q) ==
    CASE pc[q] \in {"lock", "revoke"} -> Holders(ask[q].key, q)
      [] pc[q] \in {"create", "insert"} /\ ExpiryAccepted(q) -> NameHolders(q)
      [] OTHER -> {}

\* A rotation that has nothing left to do but to revoke its key and to commit.
Finishes(q) == pc[q] = "commit" /\ Revocable(ask[q].key)

\* Waits have no circles, without a deadlock for PostgreSQL to break: a request waits
\* for rotations that finish, or that wait for nobody but rotations that finish.
KeyWaitsEnd ==
    \A q \in Requests : \A r \in WaitsFor(q) :
        \/ Finishes(r)
        \/ pc[r] = "insert" /\ \A p \in WaitsFor(r) : Finishes(p)

-----------------------------------------------------------------------------
(* Why: the invariant that a rotation keeps while it runs.                 *)

Rotating(q) == ask[q].op = "rotate"

\* Where a request is fits what it asked for.
StepsOK == \A q \in Requests :
    /\ pc[q] = "create" => ask[q].op = "create"
    /\ pc[q] \in {"lock", "insert", "commit"} => Rotating(q)
    /\ pc[q] = "revoke" => ask[q].op = "revoke"
    /\ pc[q] = "read" => ask[q].op \in {"rotate", "revoke"}
    /\ pc[q] = "begin" => ask[q].op \in {"create", "rotate"}
    /\ pc[q] # "done" => outcome[q] = "none"

\* A rotation past its SELECT ... FOR UPDATE is alone with an unrevoked key, so its
\* UPDATE ... WHERE revoked_at IS NULL always finds the row.
LocksOK == \A q \in Requests :
    pc[q] \in {"insert", "commit"} =>
        /\ Revocable(ask[q].key)
        /\ \A r \in Requests \ {q} : pc[r] \in {"insert", "commit"} =>
               ask[r].key # ask[q].key

\* A row is the work of one request that is about to commit or has: a creation, or
\* the rotation of the key's parent.
RowsOK == \A h \in Keys : Exists(h) =>
    /\ key[h].parent \in Keys => key[h].maker \in Requests
    /\ key[h].maker \in Requests =>
          /\ \/ pc[key[h].maker] = "commit"
             \/ pc[key[h].maker] = "done" /\ TookEffect(key[h].maker)
          /\ IF key[h].parent \in Keys
             THEN Rotating(key[h].maker) /\ ask[key[h].maker].key = key[h].parent
             ELSE ask[key[h].maker].op = "create"
          /\ \A j \in Keys : Exists(j) /\ key[j].maker = key[h].maker => j = h

\* An heir has the scopes of its parent.
ScopesOK == \A h \in Keys : Exists(h) /\ key[h].parent \in Keys =>
    Exists(key[h].parent) /\ key[h].scope = key[key[h].parent].scope

\* A committed heir's parent was revoked by the same transaction; revoked_at is set
\* on committed rows only, once, by a request that took effect.
EndsOK ==
    /\ \A h \in Keys : Committed(h) /\ key[h].parent \in Keys =>
          Committed(key[h].parent) /\ key[key[h].parent].revokedBy = key[h].maker
    /\ \A k \in Keys : Exists(k) /\ Revoked(k) =>
          LET q == key[k].revokedBy IN
          /\ Committed(k) /\ TookEffect(q)
          /\ ask[q].op \in {"rotate", "revoke"} /\ ask[q].key = k
          /\ Rotating(q) => \E h \in Keys : Committed(h) /\ key[h].parent = k
    /\ \A q \in Requests : pc[q] = "commit" =>
          \E h \in Keys : Exists(h) /\ key[h].maker = q
    /\ \A q \in Requests : TookEffect(q) /\ ask[q].op # "create" =>
          Exists(ask[q].key) /\ key[ask[q].key].revokedBy = q

\* The expiry a rotation carries is asked for, inherited, or of a key that was past
\* its end before the transaction began.
ExpiryHeld(q) ==
    pc[q] \in {"begin", "lock", "insert"} /\ Rotating(q) =>
        /\ Committed(ask[q].key)
        /\ LET old == key[ask[q].key].expires IN
           \/ ask[q].days > 0
           \/ expires[q] = old
           \/ old # Never /\ old <= (IF pc[q] = "begin" THEN day ELSE began[q])

ExpiryOK == \A q \in Requests : ExpiryHeld(q)

\* A key that was no longer good when a request left with it does not become good.
UploadsOK == \A u \in Uploads : upload[u] # NoUpload =>
    Committed(upload[u].key) /\ (~upload[u].live => ~Good(upload[u].key))

\* The inductive invariant: racing rotations and revocations keep every key and its
\* heirs consistent at each statement (apikeys/service.go:166-264).
RotationsHeld ==
    /\ KeysTypeOK /\ StepsOK /\ LocksOK /\ RowsOK /\ ScopesOK /\ EndsOK /\ ExpiryOK
    /\ UploadsOK /\ LimitInherited /\ ShutOut

\* What others see of a key.
Granted ==
    [k \in Keys |-> IF ~Committed(k) THEN "unissued"
                    ELSE IF Revoked(k) THEN "gone" ELSE key[k].scope]

Origin == [k \in Keys |-> IF Committed(k) THEN key[k].parent ELSE NoParent]

Ring == INSTANCE KeyRing WITH NoKey <- NoParent, grant <- Granted, from <- Origin

\* As a ring of keys, with a rotation as one exchange: nobody ever sees both keys
\* good, or neither, and no rotation widens the scopes.
ImplementsRing == Ring!Spec

\* Every request is answered, although it waits for locked rows and for names in use.
Answered == \A q \in Requests : pc[q] # "idle" ~> pc[q] = "done"
=============================================================================
