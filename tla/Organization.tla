---------------------------- MODULE Organization ----------------------------
(***************************************************************************)
(* What the memberships and invites of an organization promise: a user     *)
(* becomes a member by accepting an open invite that was made out to them, *)
(* with the role it names, and in one step with the invite's end; an       *)
(* invite ends once; one whose addressee was found to be a member while it *)
(* was open ends without changing who is a member, even if they have left  *)
(* since; and roles change while an owner remains.                         *)
(***************************************************************************)
CONSTANTS Users, Invites, Roles, NotMember,
          Invite, NoInvite     \* the rows of org_invites, and no row

VARIABLES
    role, invites,
    found      \* open invites whose addressee was found to be a member

Owned(r) == \E u \in Users : r[u] = "OWNER"

Init ==
    /\ role \in [Users -> Roles \cup {NotMember}] /\ Owned(role)
    /\ invites \in [Invites -> Invite \cup {NoInvite}]
    /\ found = {}

Open(i) == invites[i].status = "active"

Settled(S, status) ==
    [i \in Invites |-> IF i \in S THEN [invites[i] EXCEPT !.status = status] ELSE invites[i]]

\* An offer may replace open ones for the same address.
Offer(i, v) ==
    /\ invites[i] = NoInvite /\ v.status = "active"
    /\ \E S \in SUBSET {j \in Invites \ found : Open(j) /\ invites[j].email = v.email} :
          invites' = [Settled(S, "revoked") EXCEPT ![i] = v]
    /\ UNCHANGED <<role, found>>

Withdraw(i) ==
    /\ Open(i) /\ i \notin found
    /\ invites' = Settled({i}, "revoked")
    /\ UNCHANGED <<role, found>>

\* Someone who accepts is found to be a member; they may give up.
Find(i) ==
    /\ Open(i) /\ role[invites[i].email] # NotMember
    /\ found' = found \cup {i}
    /\ UNCHANGED <<role, invites>>

GiveUp(i) == i \in found /\ found' = found \ {i} /\ UNCHANGED <<role, invites>>

Accept(i) ==
    LET u == invites[i].email IN
    /\ Open(i)
    /\ invites' = Settled({i}, "accepted")
    /\ found' = found \ {i}
    /\ IF i \in found
       THEN UNCHANGED role
       ELSE role[u] = NotMember /\ role' = [role EXCEPT ![u] = invites[i].role]

Expire(i) ==
    /\ invites[i] # NoInvite
    /\ invites' = [invites EXCEPT ![i].age = "expired"]
    /\ UNCHANGED <<role, found>>

\* A member's role changes, or they leave.
Change(u) ==
    /\ role[u] # NotMember
    /\ \E r \in Roles \cup {NotMember} : role' = [role EXCEPT ![u] = r]
    /\ Owned(role')
    /\ UNCHANGED <<invites, found>>

Next ==
    \/ \E i \in Invites :
          \/ \E v \in Invite : Offer(i, v)
          \/ Withdraw(i) \/ Find(i) \/ GiveUp(i) \/ Accept(i) \/ Expire(i)
    \/ \E u \in Users : Change(u)

Spec == Init /\ [][Next]_<<role, invites, found>>
=============================================================================
