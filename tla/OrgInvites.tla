----------------------------- MODULE OrgInvites -----------------------------
(***************************************************************************)
(* Invitations to an organization (orgs/invites_service.go), beside the    *)
(* role changes and removals of OrgMembers.                                *)
(*                                                                         *)
(* CreateInvite checks its actor outside the transaction that revokes the  *)
(* open invites of the address and inserts the new one; RevokeInvite is    *)
(* one UPDATE; AcceptInvite locks the invite, inserts the membership and   *)
(* marks the invite.  An address stands for the user who has it.           *)
(***************************************************************************)
EXTENDS OrgMembers

CONSTANTS Invites,   \* rows of org_invites
          Ops,       \* requests that create, revoke or accept an invite
          OpAsks     \* what they may ask for

CreateAsk == [kind : {"create"}, actor : Users, email : Users, role : Roles \ {"OWNER"}]
RevokeAsk == [kind : {"revoke"}, actor : Users, invite : Invites]
AcceptAsk == [kind : {"accept"}, actor : Users, invite : Invites]

ASSUME OrgInvitesAssumption == OpAsks \subseteq CreateAsk \cup RevokeAsk \cup AcceptAsk

NoInvite == [status |-> "none"]
NoOp == "no op"
ASSUME NoOpAssumption == NoOp \notin Ops

Invite == [status : {"active", "revoked", "accepted"}, email : Users,
           role : Roles \ {"OWNER"}, age : {"fresh", "expired"}]

VARIABLES
    invites,     \* org_invites, as committed
    inviteLock,  \* the transaction that holds an invite's row
    opPc,        \* an invite request's next step
    op,          \* what it asks for
    toRevoke,    \* create: open invites its UPDATE has still to revoke
    revoked,     \* create: invites it has revoked and not committed
    inserted,    \* accept: it has inserted a membership and not committed
    opOutcome    \* how it ended

opVars == <<opPc, op, toRevoke, revoked, inserted, opOutcome>>
inviteVars == <<invites, inviteLock, opVars>>
orgVars == <<memberVars, inviteVars>>

InOp == {"check", "begin", "revoke", "update", "accept", "insert", "mark", "commit"}
OpOutcomes == {"none", "ok", "refused", "notFound", "notActive", "expired",
               "mismatch", "lostMember", "deadlock", "cancelled"}

Active(i) == invites[i].status = "active"

\* Earlier requests have left some open invites.
InitOrg ==
    /\ Init
    /\ invites \in [Invites -> {NoInvite} \cup {v \in Invite : v.status = "active" /\ v.age = "fresh"}]
    /\ inviteLock = [i \in Invites |-> NoOp]
    /\ opPc = [o \in Ops |-> "idle"]
    /\ op = [o \in Ops |-> NoAsk]
    /\ toRevoke = [o \in Ops |-> {}]
    /\ revoked = [o \in Ops |-> {}]
    /\ inserted = [o \in Ops |-> FALSE]
    /\ opOutcome = [o \in Ops |-> "none"]

-----------------------------------------------------------------------------
\* A bug: no row locks on invites.
AlwaysFreeInvite(i, o) == TRUE

FreeInvite(i, o) == inviteLock[i] \in {NoOp, o}

\* The transactions that hold a row a request may be waiting for, or have inserted
\* the membership it wants to insert.
OpBlockers(o) ==
    {p \in Ops \ {o} :
        \/ opPc[o] = "revoke" /\ \E i \in toRevoke[o] : inviteLock[i] = p
        \/ opPc[o] \in {"update", "accept"} /\ inviteLock[op[o].invite] = p
        \/ opPc[o] = "insert" /\ inserted[p] /\ op[p].actor = op[o].actor}

OpDeadlocked(o) ==
    \E D \in SUBSET Ops :
        /\ o \in D
        /\ \A d \in D : OpBlockers(d) \cap D # {} /\ \E e \in D : d \in OpBlockers(e)

\* A bug: a transaction that is left open keeps its rows.
EndOpLocked(o, how) ==
    /\ opPc' = [opPc EXCEPT ![o] = "done"]
    /\ opOutcome' = [opOutcome EXCEPT ![o] = how]
    /\ toRevoke' = [toRevoke EXCEPT ![o] = {}]
    /\ revoked' = [revoked EXCEPT ![o] = {}]
    /\ inserted' = [inserted EXCEPT ![o] = FALSE]
    /\ UNCHANGED <<op, inviteLock>>

EndOp(o, how) ==
    /\ opPc' = [opPc EXCEPT ![o] = "done"]
    /\ opOutcome' = [opOutcome EXCEPT ![o] = how]
    /\ inviteLock' = [i \in Invites |-> IF inviteLock[i] = o THEN NoOp ELSE inviteLock[i]]
    /\ toRevoke' = [toRevoke EXCEPT ![o] = {}]
    /\ revoked' = [revoked EXCEPT ![o] = {}]
    /\ inserted' = [inserted EXCEPT ![o] = FALSE]
    /\ UNCHANGED op

FailOp(o, how) == EndOp(o, how) /\ UNCHANGED <<invites, memberVars>>

ReceiveOp(o) ==
    /\ opPc[o] = "idle"
    /\ \E a \in OpAsks :
         /\ op' = [op EXCEPT ![o] = a]
         /\ opPc' = [opPc EXCEPT ![o] = IF a.kind = "accept" THEN "accept" ELSE "check"]
    /\ UNCHANGED <<invites, inviteLock, toRevoke, revoked, inserted, opOutcome, memberVars>>

\* RequireOrgMutatePermission, and no ADMIN invites from an ADMIN.
MayInvite(o) ==
    LET r == role[op[o].actor] IN
    /\ CanMutate(r)
    /\ ~(op[o].kind = "create" /\ r = "ADMIN" /\ op[o].role = "ADMIN")

CheckInviter(o) ==
    /\ opPc[o] = "check"
    /\ MayInvite(o)
    /\ opPc' = [opPc EXCEPT ![o] = IF op[o].kind = "create" THEN "begin" ELSE "update"]
    /\ UNCHANGED <<invites, inviteLock, op, toRevoke, revoked, inserted, opOutcome, memberVars>>

RefuseInviter(o) ==
    /\ opPc[o] = "check"
    /\ ~MayInvite(o)
    /\ FailOp(o, "refused")

\* CreateInvite: the UPDATE's snapshot of the open invites of the address, row by
\* row, then the INSERT and the COMMIT, which may take effect without the server
\* hearing of it, here as in the statements below.
FindOpenInvites(o) ==
    /\ opPc[o] = "begin"
    /\ toRevoke' = [toRevoke EXCEPT ![o] =
                       {i \in Invites : Active(i) /\ invites[i].email = op[o].email}]
    /\ opPc' = [opPc EXCEPT ![o] = "revoke"]
    /\ UNCHANGED <<invites, inviteLock, op, revoked, inserted, opOutcome, memberVars>>

\* A bug: a row that was settled while the UPDATE waited for it is revoked.
RevokeSeenInvite(o) ==
    /\ opPc[o] = "revoke"
    /\ \E i \in toRevoke[o] :
         /\ FreeInvite(i, o)
         /\ toRevoke' = [toRevoke EXCEPT ![o] = @ \ {i}]
         /\ inviteLock' = [inviteLock EXCEPT ![i] = o]
         /\ revoked' = [revoked EXCEPT ![o] = @ \cup {i}]
    /\ UNCHANGED <<invites, opPc, op, inserted, opOutcome, memberVars>>

RevokeOpenInvite(o) ==
    /\ opPc[o] = "revoke"
    /\ \E i \in toRevoke[o] :
         /\ FreeInvite(i, o)
         /\ toRevoke' = [toRevoke EXCEPT ![o] = @ \ {i}]
         /\ IF Active(i)
            THEN /\ inviteLock' = [inviteLock EXCEPT ![i] = o]
                 /\ revoked' = [revoked EXCEPT ![o] = @ \cup {i}]
            ELSE UNCHANGED <<inviteLock, revoked>>
    /\ UNCHANGED <<invites, opPc, op, inserted, opOutcome, memberVars>>

InsertInvite(o) ==
    /\ opPc[o] = "revoke"
    /\ toRevoke[o] = {}
    /\ \E i \in Invites :
         /\ invites[i] = NoInvite
         /\ invites' = [j \in Invites |->
                IF j = i
                THEN [status |-> "active", email |-> op[o].email,
                      role |-> op[o].role, age |-> "fresh"]
                ELSE IF j \in revoked[o]
                THEN [invites[j] EXCEPT !.status = "revoked"]
                ELSE invites[j]]
    /\ \E how \in {"ok", "cancelled"} : EndOp(o, how)
    /\ UNCHANGED memberVars

\* A bug: the UPDATE does not ask whether the invite is open.
RevokeAnyInvite(o) ==
    /\ opPc[o] = "update"
    /\ FreeInvite(op[o].invite, o)
    /\ invites[op[o].invite] # NoInvite
    /\ invites' = [invites EXCEPT ![op[o].invite].status = "revoked"]
    /\ \E how \in {"ok", "cancelled"} : EndOp(o, how)
    /\ UNCHANGED memberVars

\* RevokeInvite: UPDATE ... WHERE accepted_at IS NULL AND revoked_at IS NULL.
RevokeInvite(o) ==
    /\ opPc[o] = "update"
    /\ FreeInvite(op[o].invite, o)
    /\ Active(op[o].invite)
    /\ invites' = [invites EXCEPT ![op[o].invite].status = "revoked"]
    /\ \E how \in {"ok", "cancelled"} : EndOp(o, how)
    /\ UNCHANGED memberVars

RevokeNothing(o) ==
    /\ opPc[o] = "update"
    /\ FreeInvite(op[o].invite, o)
    /\ ~Active(op[o].invite)
    /\ FailOp(o, "notFound")

\* AcceptInvite: the invite FOR UPDATE and the checks on it.
LockInvite(o) ==
    LET i == op[o].invite IN
    /\ opPc[o] = "accept"
    /\ FreeInvite(i, o)
    /\ Active(i) /\ invites[i].age = "fresh" /\ invites[i].email = op[o].actor
    /\ inviteLock' = [inviteLock EXCEPT ![i] = o]
    /\ opPc' = [opPc EXCEPT ![o] = "insert"]
    /\ UNCHANGED <<invites, op, toRevoke, revoked, inserted, opOutcome, memberVars>>

RefuseInvite(o) ==
    LET i == op[o].invite IN
    /\ opPc[o] = "accept"
    /\ FreeInvite(i, o)
    /\ \/ invites[i] = NoInvite /\ FailOp(o, "notFound")
       \/ invites[i].status \in {"revoked", "accepted"} /\ FailOp(o, "notActive")
       \/ Active(i) /\ invites[i].age = "expired" /\ FailOp(o, "expired")
       \/ Active(i) /\ invites[i].age = "fresh" /\ invites[i].email # op[o].actor
          /\ FailOp(o, "mismatch")

\* Another uncommitted insert of the same membership makes this one wait.
InsertMembership(o) ==
    /\ opPc[o] = "insert"
    /\ \A p \in Ops : inserted[p] => op[p].actor # op[o].actor
    /\ inserted' = [inserted EXCEPT ![o] = role[op[o].actor] = NotMember]
    /\ opPc' = [opPc EXCEPT ![o] = "mark"]
    /\ UNCHANGED <<invites, inviteLock, op, toRevoke, revoked, opOutcome, memberVars>>

\* The invite is marked and the membership read back, which locks no membership.
MarkAccepted(o) ==
    /\ opPc[o] = "mark"
    /\ inserted[o] \/ role[op[o].actor] # NotMember
    /\ opPc' = [opPc EXCEPT ![o] = "commit"]
    /\ UNCHANGED <<invites, inviteLock, op, toRevoke, revoked, inserted, opOutcome, memberVars>>

UseUp(o) ==
    /\ opPc[o] = "commit"
    /\ invites' = [invites EXCEPT ![op[o].invite].status = "accepted"]
    /\ \E how \in {"ok", "cancelled"} : EndOp(o, how)

\* A bug: ON CONFLICT DO UPDATE SET role.
OverwriteOnAccept(o) ==
    /\ UseUp(o)
    /\ role' = [role EXCEPT ![op[o].actor] = invites[op[o].invite].role]
    /\ UNCHANGED <<lock, pc, txVars, outcome>>

CommitAccept(o) ==
    /\ UseUp(o)
    /\ IF inserted[o]
       THEN Join(op[o].actor, invites[op[o].invite].role)
       ELSE UNCHANGED memberVars

\* The membership that made the INSERT do nothing was removed since.
LoseMembership(o) ==
    /\ opPc[o] = "mark"
    /\ ~inserted[o]
    /\ role[op[o].actor] = NotMember
    /\ FailOp(o, "lostMember")

\* Two creations for an address that had two open invites.
OpDeadlockVictim(o) ==
    /\ OpDeadlocked(o)
    /\ FailOp(o, "deadlock")

CancelOp(o) ==
    /\ opPc[o] \in InOp
    /\ FailOp(o, "cancelled")

\* Seven days pass.
Expire(i) ==
    /\ invites[i] # NoInvite
    /\ invites[i].age = "fresh"
    /\ invites' = [invites EXCEPT ![i].age = "expired"]
    /\ UNCHANGED <<inviteLock, opVars, memberVars>>

OpStep(o) ==
    \/ CheckInviter(o)
    \/ RefuseInviter(o)
    \/ FindOpenInvites(o)
    \/ RevokeOpenInvite(o)
    \/ InsertInvite(o)
    \/ RevokeInvite(o)
    \/ RevokeNothing(o)
    \/ LockInvite(o)
    \/ RefuseInvite(o)
    \/ InsertMembership(o)
    \/ MarkAccepted(o)
    \/ LoseMembership(o)
    \/ CommitAccept(o)
    \/ OpDeadlockVictim(o)

NextOrg ==
    \/ MemberNext /\ UNCHANGED inviteVars
    \/ \E o \in Ops : ReceiveOp(o) \/ OpStep(o) \/ CancelOp(o)
    \/ \E i \in Invites : Expire(i)

OrgSpec == InitOrg /\ [][NextOrg]_orgVars

OrgFairness ==
    /\ \A q \in Requests : WF_orgVars(Step(q) /\ UNCHANGED inviteVars)
    /\ \A o \in Ops : WF_orgVars(OpStep(o))

FairOrgSpec == OrgSpec /\ OrgFairness
-----------------------------------------------------------------------------
\* Every variable has its type.
InvitesTypeOK ==
    /\ MembersTypeOK
    /\ invites \in [Invites -> Invite \cup {NoInvite}]
    /\ inviteLock \in [Invites -> Ops \cup {NoOp}]
    /\ opPc \in [Ops -> {"idle", "done"} \cup InOp]
    /\ op \in [Ops -> OpAsks \cup {NoAsk}]
    /\ toRevoke \in [Ops -> SUBSET Invites]
    /\ revoked \in [Ops -> SUBSET Invites]
    /\ inserted \in [Ops -> BOOLEAN]
    /\ opOutcome \in [Ops -> OpOutcomes]

\* Seen through memberships the organization is OrgMembers: accepting an invite adds
\* one member who was none and never changes a role, so that an owner who follows a
\* link for a lesser role stays one.
AsMembers == Spec

\* Invites whose addressee an acceptance that has added nobody has found a member.
Found ==
    {i \in Invites : \E o \in Ops : opPc[o] = "commit" /\ ~inserted[o] /\ op[o].invite = i}

\* To a reader of its tables the organization keeps its promise: nobody joins without
\* an open invite of their own, with another role than it names, or twice on one, and
\* an invite is used up by making its addressee a member, or because they were found
\* to be one while it was open and held.  A removal between that read and the COMMIT
\* leaves the invite used up and nobody a member; nothing else does, whatever is
\* revoked, replaced, removed, cancelled or lost in between.
Promise == INSTANCE Organization WITH found <- Found
ImplementsOrganization == Promise!Spec

\* An invite that was accepted or revoked stays what it is: of a creation that
\* replaces it, a revocation and an acceptance that meet, one takes effect.
InviteSettled ==
    [][\A i \in Invites : invites[i].status \in {"revoked", "accepted"} =>
         invites'[i].status = invites[i].status]_orgVars

Succeeded(o, kinds) == opOutcome[o] = "ok" /\ op[o].kind \in kinds

\* Of all requests to accept or to revoke one invite at most one is told that it
\* succeeded, and what the row says is what that one was told.
OneVerdict ==
    \A o \in Ops : Succeeded(o, {"revoke", "accept"}) =>
        /\ invites[op[o].invite].status = IF op[o].kind = "revoke" THEN "revoked" ELSE "accepted"
        /\ \A p \in Ops \ {o} : Succeeded(p, {"revoke", "accept"}) => op[p].invite # op[o].invite

\* Every invite request is answered, although acceptances wait for each other's
\* rows and memberships and for a creation that replaces their invite.
InviteAnswered == \A o \in Ops : opPc[o] \in InOp ~> opPc[o] = "done"

OpProceeds(o) == opPc[o] \in InOp /\ (OpBlockers(o) = {} \/ OpDeadlocked(o))

\* Follow who waits for whom from any request, and there is one that goes on.
InviteWaitsEnd ==
    \A W \in SUBSET Ops :
        /\ \E o \in W : opPc[o] \in InOp
        /\ \A o \in W : OpBlockers(o) \subseteq W
        => \E o \in W : OpProceeds(o)

-----------------------------------------------------------------------------
(* Why settled invites stay settled *)

\* What a request is about to revoke or accept it holds, and nobody else has
\* settled it.
InvitesHeld ==
    \A o \in Ops :
        /\ opPc[o] \in InOp => op[o] \in OpAsks
        /\ opPc[o] = "check" => op[o].kind # "accept"
        /\ opPc[o] \in {"begin", "revoke"} => op[o].kind = "create"
        /\ opPc[o] = "update" => op[o].kind = "revoke"
        /\ opPc[o] \in {"accept", "insert", "mark", "commit"} => op[o].kind = "accept"
        /\ opPc[o] \in {"insert", "mark", "commit"} =>
             inviteLock[op[o].invite] = o /\ Active(op[o].invite)
        /\ opPc[o] # "revoke" => revoked[o] = {}
        /\ \A i \in revoked[o] : inviteLock[i] = o /\ Active(i)

InvitesInv == InvitesTypeOK /\ InvitesHeld
-----------------------------------------------------------------------------
\* docs/extra-implementations.md:21: "Creating a new invite for the same org+email
\* automatically revokes any existing active invite for that email."
OneActiveInvite ==
    \A i, j \in Invites : i # j /\ Active(i) /\ Active(j) => invites[i].email # invites[j].email
=============================================================================
