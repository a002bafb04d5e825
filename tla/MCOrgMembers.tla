---------------------------- MODULE MCOrgMembers ----------------------------
(***************************************************************************)
(* Small instances of OrgMembers.                                          *)
(***************************************************************************)
EXTENDS OrgMembers

\* Two users ask for any change of anyone; VIEWER is handled as MEMBER is.
PairAsks == [actor : 1 .. 2, target : Users, role : {"OWNER", "ADMIN", "MEMBER", NotMember}]

\* Who is who means nothing, so the users can be numbered by their first roles.  This
\* stands in for the symmetry of users where liveness is checked.
Rank(r) == CASE r = "OWNER" -> 3 [] r = "ADMIN" -> 2 [] r \in Low -> 1 [] r = NotMember -> 0

InitNumbered ==
    /\ Init
    /\ \A u \in Users : role[u] # "VIEWER"
    /\ \A u, v \in Users : u < v => Rank(role[u]) >= Rank(role[v])

NextNumbered == MemberNext \/ \E u \in Users, r \in Roles \ {"VIEWER"} : Join(u, r)

NumberedSpec == InitNumbered /\ [][NextNumbered]_memberVars /\ Fairness
=============================================================================
