----------------------------- MODULE Migrations -----------------------------
(***************************************************************************)
(* Schema migrations at startup (db/migrations.go, called by app.New when  *)
(* FG_ENV=dev).  A server reads which migrations are recorded, then for    *)
(* each pending file in order executes it, which commits, and records it   *)
(* with a separate statement on another connection.  Several servers may   *)
(* start at once and a server may stop at any point; nothing locks the     *)
(* sequence.                                                               *)
(***************************************************************************)
EXTENDS Naturals, FiniteSets

CONSTANTS Servers,
          Files,        \* the number of migration files
          OneShot,      \* files that fail on a schema that already has them
          MaxCrashes    \* bound on servers that stop while they migrate

Migration == 1 .. Files

ASSUME MigrationsAssumption == Files \in Nat /\ OneShot \subseteq Migration

VARIABLES
    schema,      \* the migrations whose statements have committed
    recorded,    \* rows of schema_migrations
    pc,          \* a server's next step
    applied,     \* what it read from schema_migrations, and did since
    crashes

vars == <<schema, recorded, pc, applied, crashes>>

Init ==
    /\ schema = {} /\ recorded = {}
    /\ pc = [s \in Servers |-> "down"]
    /\ applied = [s \in Servers |-> {}]
    /\ crashes = 0

\* A bug: the files are not applied in the order of their names.
AnyPending(s) == Migration \ applied[s]

\* The first file, in the order of names, that the server believes is pending.
Pending(s) ==
    {m \in Migration \ applied[s] : \A n \in Migration \ applied[s] : m <= n}

AlreadyRecorded(m) == m \in recorded

Goto(s, step) == pc' = [pc EXCEPT ![s] = step]

Start(s) == pc[s] = "down" /\ Goto(s, "list") /\ UNCHANGED <<schema, recorded, applied, crashes>>

\* A bug: the recorded migrations are not read back.
ListNothing(s) ==
    /\ pc[s] = "list"
    /\ applied' = [applied EXCEPT ![s] = {}]
    /\ Goto(s, "apply")
    /\ UNCHANGED <<schema, recorded, crashes>>

\* createMigrationsTable and getAppliedMigrations.
ListApplied(s) ==
    /\ pc[s] = "list"
    /\ applied' = [applied EXCEPT ![s] = recorded]
    /\ Goto(s, "apply")
    /\ UNCHANGED <<schema, recorded, crashes>>

\* The file's statements, one transaction.
Apply(s) ==
    /\ pc[s] = "apply"
    /\ \E m \in Pending(s) :
        /\ m \in OneShot => m \notin schema
        /\ schema' = schema \cup {m}
    /\ Goto(s, "record")
    /\ UNCHANGED <<recorded, applied, crashes>>

\* The file fails and app.New returns the error.
ApplyFails(s) ==
    /\ pc[s] = "apply"
    /\ \E m \in Pending(s) : m \in OneShot /\ m \in schema
    /\ Goto(s, "down")
    /\ UNCHANGED <<schema, recorded, applied, crashes>>

\* INSERT INTO schema_migrations.
Record(s) ==
    /\ pc[s] = "record"
    /\ \E m \in Pending(s) :
        /\ ~AlreadyRecorded(m)
        /\ recorded' = recorded \cup {m}
        /\ applied' = [applied EXCEPT ![s] = @ \cup {m}]
    /\ Goto(s, "apply")
    /\ UNCHANGED <<schema, crashes>>

\* The version is the primary key: the server that comes second does not start.
RecordFails(s) ==
    /\ pc[s] = "record"
    /\ \E m \in Pending(s) : AlreadyRecorded(m)
    /\ Goto(s, "down")
    /\ UNCHANGED <<schema, recorded, applied, crashes>>

Serve(s) ==
    /\ pc[s] = "apply" /\ Pending(s) = {}
    /\ Goto(s, "serving")
    /\ UNCHANGED <<schema, recorded, applied, crashes>>

\* The server stops, or a statement fails for a reason of its own.
Crash(s) ==
    /\ pc[s] \notin {"down", "serving"}
    /\ crashes < MaxCrashes /\ crashes' = crashes + 1
    /\ Goto(s, "down")
    /\ UNCHANGED <<schema, recorded, applied>>

Migrate(s) ==
    \/ Start(s) \/ ListApplied(s) \/ Apply(s) \/ ApplyFails(s)
    \/ Record(s) \/ RecordFails(s) \/ Serve(s)

Next == \E s \in Servers : Migrate(s) \/ Crash(s)

Spec == Init /\ [][Next]_vars

\* Whoever runs the server starts it again, and a running server goes on.
FairSpec == Spec /\ \A s \in Servers : WF_vars(Migrate(s))

-----------------------------------------------------------------------------
IsPrefix(S) == \A m \in S : 1 .. m \subseteq S

\* Whatever servers start together and wherever they stop: files are applied and
\* recorded in order, none is recorded before it is applied, at most one is applied
\* but not recorded, and no server serves before the whole schema is there.
InOrder ==
    /\ schema \subseteq Migration /\ IsPrefix(schema) /\ IsPrefix(recorded)
    /\ recorded \subseteq schema
    /\ Cardinality(schema \ recorded) <= 1
    /\ \A s \in Servers : pc[s] = "serving" => recorded = Migration

\* A one-shot file that is in the schema, that no record says so of and that nobody is
\* about to record.
HalfApplied ==
    \E m \in OneShot :
        /\ m \in schema \ recorded
        /\ \A s \in Servers : pc[s] = "record" => m \notin Pending(s)

\* And nothing that servers do mends it: none serves any more.
HalfAppliedForGood ==
    /\ [][HalfApplied => HalfApplied']_vars
    /\ [](HalfApplied => \A s \in Servers : pc[s] # "serving")

\* Racing servers and crashes delay a server, which serves at the latest when it is
\* started again, with one exception: a one-shot file that a crash left half applied,
\* though docs/development.md:29 knows of none.
ServesUnlessHalfApplied == \A s \in Servers : <>(pc[s] = "serving" \/ HalfApplied)
=============================================================================
