----------------------------- MODULE MCApiKeys -----------------------------
(***************************************************************************)
(* Small instances of ApiKeys.                                             *)
(***************************************************************************)
EXTENDS ApiKeys, FiniteSets, Functions

SomeDays == {0, 1}

\* Any operation on any key, with or without an end; the project's first key may ingest
\* and the keys that are created may not.
SomeAsks ==
    [op : {"create"}, name : Names, scope : Scopes \ IngestScopes, days : SomeDays]
    \cup [op : {"rotate"}, key : Keys, name : Names, days : SomeDays]
    \cup [op : {"revoke"}, key : Keys]

\* What a key, a name or a request is called means nothing: the project's key is the
\* first and has the first name, and requests come and ask for names in order.  This
\* stands in for symmetry where liveness is checked.
Numbering(S) == CHOOSE f \in [S -> 1 .. Cardinality(S)] : IsInjective(f)
KeyNumber == Numbering(Keys)
NameNumber == Numbering(Names)
RequestNumber == Numbering(Requests)

AskedFor(n) == \E q \in Requests : ask[q] # NoAsk /\ ask[q].op # "revoke" /\ ask[q].name = n

InitNumbered ==
    /\ Init
    /\ \A k \in Keys : Exists(k) =>
          KeyNumber[k] = 1 /\ NameNumber[key[k].name] = 1 /\ key[k].scope \in IngestScopes

ReceiveNumbered(q) ==
    /\ \A r \in Requests : RequestNumber[r] < RequestNumber[q] => pc[r] # "idle"
    /\ Receive(q)
    /\ \A m, n \in Names :
          1 < NameNumber[m] /\ NameNumber[m] < NameNumber[n] /\ AskedFor(n)' => AskedFor(m)'

NextNumbered ==
    \/ \E q \in Requests : ReceiveNumbered(q) \/ Proceed(q) \/ Cancel(q)
    \/ \E u \in Uploads : Send(u) \/ Authenticate(u)
    \/ Tick

NumberedSpec == InitNumbered /\ [][NextNumbered]_vars /\ Fairness
=============================================================================
