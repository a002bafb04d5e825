------------------------- MODULE MCProjectSettings -------------------------
(***************************************************************************)
(* Small instances of ProjectSettings.                                     *)
(***************************************************************************)
EXTENDS ProjectSettings

FirstHook == CHOOSE h \in Hooks : TRUE

\* Any change, except that one webhook is only ever switched on.
HookAsks == {a \in Ask : a.op = "configure" => a.set.enabled \/ a.set.hook = FirstHook}

FirstRequest == CHOOSE q \in Requests : TRUE

EveryFlakeIn == [f \in Flakes |-> CHOOSE s \in Slugs : TRUE]

\* A project that is not there, is not set up, or is on with the first webhook.
InitFirst ==
    /\ Init
    /\ \A s \in Slugs : Exists(s) => project[s].hook = (IF project[s].enabled THEN FirstHook ELSE NoHook)

\* The first request arrives first.  Goroutines and readers of the log have nothing to
\* do with each other: a behaviour of the instance has one or the other.
FirstNext ==
    \/ \E q \in Requests :
         \/ Receive(q) /\ (q = FirstRequest \/ pc[FirstRequest] # "idle")
         \/ Handle(q) \/ MissEntry(q) \/ CancelRequest(q) \/ LoseAnswer(q)
    \/ \E u \in Users : ChangeRole(u)
    \/ \E f \in Flakes : StartNotification(f) /\ \A r \in Readers : reading[r] = "idle"
    \/ \E f \in Flakes : Notify(f)
    \/ \E r \in Readers : ReadLog(r) /\ \A f \in Flakes : gopc[f] = "none"
    \/ ServerCrash

FirstSpec == InitFirst /\ [][FirstNext]_vars /\ Fairness
=============================================================================
