------------------------------ MODULE Notices -------------------------------
(***************************************************************************)
(* What the program promises about Slack messages: an announced flake is   *)
(* pending until one attempt to tell Slack of it ends, delivered or not;   *)
(* it is never announced again and no second attempt is made.  A stopped   *)
(* server loses what is pending.                                           *)
(***************************************************************************)
CONSTANT Notice
VARIABLES announced, pending, delivered

vars == <<announced, pending, delivered>>

Init == announced = {} /\ pending = {} /\ delivered = {}

\* A detection commits and announces its new flakes.
Announce ==
    /\ announced \subseteq announced' /\ announced' \subseteq Notice
    /\ pending' = pending \cup (announced' \ announced)
    /\ UNCHANGED delivered

\* One attempt ends.
Finish ==
    \E n \in pending :
        /\ pending' = pending \ {n}
        /\ delivered' \in {delivered, delivered \cup {n}}
        /\ UNCHANGED announced

\* The server stops.
Lose == pending' = {} /\ UNCHANGED <<announced, delivered>>

Next == Announce \/ Finish \/ Lose

Spec == Init /\ [][Next]_vars
=============================================================================
