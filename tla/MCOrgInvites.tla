---------------------------- MODULE MCOrgInvites ----------------------------
(***************************************************************************)
(* Small instances of OrgInvites.                                          *)
(***************************************************************************)
EXTENDS OrgInvites, TLC

\* Creations only.
Creations == [kind : {"create"}, actor : Users, email : Users, role : {"ADMIN"}]

\* At first an address has at most one open invite.
InitOneEach ==
    /\ InitOrg
    /\ \A i, j \in Invites : i # j /\ Active(i) /\ Active(j) => invites[i].email # invites[j].email

OneEachSpec == InitOneEach /\ [][NextOrg]_orgVars

\* An owner deals with a guest, who is no member or already an admin and has an open
\* invite, or two.
Owner == CHOOSE u \in Users : TRUE
Guest == CHOOSE u \in Users : u # Owner

FirstOp == CHOOSE o \in Ops : TRUE

OwnerRemovals == [actor : {Owner}, target : {Guest}, role : {NotMember}]
OwnerAndGuestOps ==
    [kind : {"create"}, actor : Users, email : {Guest}, role : {"ADMIN"}]
        \cup [kind : {"revoke", "accept"}, actor : Users, invite : {1, 2}]

InitGuest ==
    /\ InitOrg
    /\ role[Owner] = "OWNER" /\ role[Guest] \in {"ADMIN", NotMember}
    /\ {i \in Invites : Active(i)} \in {{1}, {1, 2}}
    /\ \A i \in Invites : Active(i) => invites[i].email = Guest /\ invites[i].role = "VIEWER"

\* Which row an invite gets and which request comes first means nothing: both are taken
\* in order.  This stands in for symmetry where liveness is checked.
NextGuest ==
    /\ NextOrg
    /\ \A i, j \in Invites : i < j /\ invites'[j] # NoInvite => invites'[i] # NoInvite
    /\ \A o \in Ops : opPc'[o] # "idle" => opPc'[FirstOp] # "idle"

GuestSpec == InitGuest /\ [][NextGuest]_orgVars /\ OrgFairness

Symmetry == Permutations(Users) \cup Permutations(Invites) \cup Permutations(Ops)
=============================================================================
