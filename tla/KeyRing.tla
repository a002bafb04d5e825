------------------------------ MODULE KeyRing ------------------------------
(***************************************************************************)
(* What the API keys of a project promise: a key grants its scopes from    *)
(* the moment it is issued until it is withdrawn, or exchanged for one new *)
(* key with the same scopes, and never again after that.  An exchange is   *)
(* one step: both keys are never good, or bad, at the same time.           *)
(***************************************************************************)
CONSTANTS Keys, Scopes, NoKey

VARIABLES grant,     \* what a key opens: its scopes, or why it opens nothing
          from       \* the key it was exchanged for

Nothing == {"unissued", "gone"}

Init == grant \in [Keys -> Scopes \cup Nothing] /\ from = [k \in Keys |-> NoKey]

Issue(k) ==
    /\ grant[k] = "unissued"
    /\ \E s \in Scopes : grant' = [grant EXCEPT ![k] = s]
    /\ UNCHANGED from

Exchange(k, h) ==
    /\ grant[k] \notin Nothing
    /\ grant[h] = "unissued"
    /\ grant' = [grant EXCEPT ![k] = "gone", ![h] = grant[k]]
    /\ from' = [from EXCEPT ![h] = k]

Withdraw(k) ==
    /\ grant[k] \notin Nothing
    /\ grant' = [grant EXCEPT ![k] = "gone"]
    /\ UNCHANGED from

Next == \E k \in Keys : Issue(k) \/ Withdraw(k) \/ \E h \in Keys : Exchange(k, h)

Spec == Init /\ [][Next]_<<grant, from>>
=============================================================================
