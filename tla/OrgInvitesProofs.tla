-------------------------- MODULE OrgInvitesProofs --------------------------
(***************************************************************************)
(* Invitations do not disturb memberships: the organization with invites   *)
(* implements OrgMembers, so that what is proved there holds here.  An     *)
(* invite that was accepted or revoked stays so, because whoever settles   *)
(* one holds its row and has seen it open; so only one of those who ask    *)
(* is told that it settled the invite.  Waits for invites end as waits for *)
(* members do, and with who is addressed by what (WorkOK) the organization *)
(* implements the abstract Organization.                                   *)
(***************************************************************************)
EXTENDS OrgInvites, OrgMembersProofs

LEMMA AsksHaveActors ==
    ASSUME NEW a \in OpAsks
    PROVE  /\ a.kind \in {"create", "revoke", "accept"}
           /\ a.actor \in Users
           /\ a.kind = "create" => a.email \in Users /\ a.role \in Roles \ {"OWNER"}
           /\ a.kind \in {"revoke", "accept"} => a.invite \in Invites
BY OrgInvitesAssumption DEF CreateAsk, RevokeAsk, AcceptAsk

(* The bookkeeping of invite requests, without the memberships.            *)
OpsTyped ==
    /\ invites \in [Invites -> Invite \cup {NoInvite}]
    /\ inviteLock \in [Invites -> Ops \cup {NoOp}]
    /\ opPc \in [Ops -> {"idle", "done"} \cup InOp]
    /\ op \in [Ops -> OpAsks \cup {NoAsk}]
    /\ toRevoke \in [Ops -> SUBSET Invites]
    /\ revoked \in [Ops -> SUBSET Invites]
    /\ inserted \in [Ops -> BOOLEAN]

OpsInv == OpsTyped /\ InvitesHeld

LEMMA InitOps == InitOrg => OpsInv
BY DEF InitOrg, OpsInv, OpsTyped, InvitesHeld, InOp

(* A request that ends without a change disturbs nobody.                   *)
LEMMA EndKeeps ==
    ASSUME OpsInv, NEW o \in Ops, NEW how, EndOp(o, how),
           invites' \in [Invites -> Invite \cup {NoInvite}],
           \A i \in Invites :
             Active(i) /\ inviteLock[i] \notin {o, NoOp} => invites'[i].status = "active"
    PROVE  OpsInv'
<1> USE NoOpAssumption DEF OpsInv, InOp
<1>1. OpsTyped'
  BY DEF EndOp, OpsTyped
<1>2. ASSUME NEW p \in Ops \ {o}
      PROVE  /\ opPc'[p] = opPc[p] /\ op'[p] = op[p] /\ revoked'[p] = revoked[p]
             /\ \A i \in Invites : inviteLock[i] = p => inviteLock'[i] = p
  BY <1>2 DEF EndOp, OpsTyped
<1>3. opPc'[o] = "done" /\ revoked'[o] = {}
  BY DEF EndOp, OpsTyped
<1>4. \A p \in Ops : opPc[p] \in {"insert", "mark", "commit"} => op[p].invite \in Invites
  BY AsksHaveActors DEF InvitesHeld
<1>5. \A p \in Ops : revoked[p] \subseteq Invites
  BY DEF OpsTyped
<1>6. InvitesHeld'
  BY <1>2, <1>3, <1>4, <1>5 DEF InvitesHeld, Active
<1>7. QED
  BY <1>1, <1>6

(* A request that takes another row, or none, keeps what everyone holds.   *)
LEMMA HoldKeeps ==
    ASSUME OpsInv, NEW o \in Ops, UNCHANGED <<invites, op>>,
           OpsTyped',
           \A p \in Ops \ {o} : opPc'[p] = opPc[p] /\ revoked'[p] = revoked[p],
           \A p \in Ops, i \in Invites : inviteLock[i] = p => inviteLock'[i] = p
    PROVE  \A p \in Ops \ {o} :
             /\ opPc'[p] \in InOp => op'[p] \in OpAsks
             /\ opPc'[p] = "check" => op'[p].kind # "accept"
             /\ opPc'[p] \in {"begin", "revoke"} => op'[p].kind = "create"
             /\ opPc'[p] = "update" => op'[p].kind = "revoke"
             /\ opPc'[p] \in {"accept", "insert", "mark", "commit"} => op'[p].kind = "accept"
             /\ opPc'[p] \in {"insert", "mark", "commit"} =>
                  inviteLock'[op'[p].invite] = p /\ Active(op[p].invite)'
             /\ opPc'[p] # "revoke" => revoked'[p] = {}
             /\ \A i \in revoked'[p] : inviteLock'[i] = p /\ Active(i)'
<1>1. \A p \in Ops : opPc[p] \in {"insert", "mark", "commit"} => op[p].invite \in Invites
  BY AsksHaveActors DEF OpsInv, InvitesHeld, InOp
<1>2. \A p \in Ops : revoked[p] \subseteq Invites
  BY DEF OpsInv, OpsTyped
<1>3. QED
  BY <1>1, <1>2 DEF OpsInv, InvitesHeld, Active

LEMMA OpsStep ==
    ASSUME OpsInv, [NextOrg]_orgVars
    PROVE  OpsInv'
<1> USE DEF OpsInv, InOp
<1> DEFINE Goal == OpsInv'
<1>1. ASSUME NEW o \in Ops, NEW how, FailOp(o, how) PROVE Goal
  BY <1>1, EndKeeps DEF FailOp, OpsTyped, Active
<1>2. ASSUME NEW o \in Ops, ReceiveOp(o) PROVE Goal
  <2>1. PICK a \in OpAsks :
          /\ op' = [op EXCEPT ![o] = a]
          /\ opPc' = [opPc EXCEPT ![o] = IF a.kind = "accept" THEN "accept" ELSE "check"]
    BY <1>2 DEF ReceiveOp
  <2>2. OpsTyped'
    BY <1>2, <2>1 DEF ReceiveOp, OpsTyped
  <2>3. InvitesHeld'
    BY <1>2, <2>1 DEF ReceiveOp, OpsTyped, InvitesHeld, Active
  <2>4. QED
    BY <2>2, <2>3
<1>3. ASSUME NEW o \in Ops, CheckInviter(o) PROVE Goal
  <2>1. opPc[o] = "check" /\ op[o] \in OpAsks /\ op[o].kind \in {"create", "revoke", "accept"}
    BY <1>3, AsksHaveActors DEF CheckInviter, InvitesHeld
  <2>2. OpsTyped'
    BY <1>3 DEF CheckInviter, OpsTyped
  <2>3. /\ opPc'[o] = (IF op[o].kind = "create" THEN "begin" ELSE "update")
        /\ \A p \in Ops \ {o} : opPc'[p] = opPc[p]
        /\ UNCHANGED <<invites, inviteLock, op, revoked>>
    BY <1>3 DEF CheckInviter, OpsTyped
  <2>4. revoked[o] = {} /\ op[o].kind # "accept"
    BY <1>3, <2>1 DEF InvitesHeld, CheckInviter
  <2>5. QED
    BY <2>1, <2>2, <2>3, <2>4, HoldKeeps DEF InvitesHeld
<1>4. ASSUME NEW o \in Ops, FindOpenInvites(o) PROVE Goal
  BY <1>4 DEF FindOpenInvites, OpsTyped, InvitesHeld, Active
<1>5. ASSUME NEW o \in Ops, RevokeOpenInvite(o) PROVE Goal
  <2>1. PICK i \in toRevoke[o] :
          /\ FreeInvite(i, o)
          /\ toRevoke' = [toRevoke EXCEPT ![o] = @ \ {i}]
          /\ IF Active(i)
             THEN /\ inviteLock' = [inviteLock EXCEPT ![i] = o]
                  /\ revoked' = [revoked EXCEPT ![o] = @ \cup {i}]
             ELSE UNCHANGED <<inviteLock, revoked>>
    BY <1>5 DEF RevokeOpenInvite
  <2>2. i \in Invites /\ o \in Ops
    BY <2>1 DEF OpsTyped
  <2>3. OpsTyped'
    BY <1>5, <2>1, <2>2 DEF RevokeOpenInvite, OpsTyped
  <2>4. \A p \in Ops, j \in Invites : inviteLock[j] = p => inviteLock'[j] = p
    BY <2>1, <2>2, NoOpAssumption DEF FreeInvite, OpsTyped
  <2>5. \A p \in Ops \ {o} : opPc'[p] = opPc[p] /\ revoked'[p] = revoked[p]
    BY <1>5, <2>1 DEF RevokeOpenInvite, OpsTyped
  <2>6. \A j \in revoked'[o] : inviteLock'[j] = o /\ Active(j)'
    BY <1>5, <2>1, <2>2, <2>4 DEF RevokeOpenInvite, OpsTyped, InvitesHeld, Active
  <2>7. UNCHANGED <<invites, op, opPc>> /\ opPc[o] = "revoke"
    BY <1>5 DEF RevokeOpenInvite
  <2>8. QED
    BY <2>3, <2>4, <2>5, <2>6, <2>7, HoldKeeps DEF InvitesHeld
<1>6. ASSUME NEW o \in Ops, InsertInvite(o) PROVE Goal
  <2>1. op[o].email \in Users /\ op[o].role \in Roles \ {"OWNER"}
    BY <1>6, AsksHaveActors DEF InsertInvite, InvitesHeld
  <2>2. PICK i \in Invites :
          /\ invites[i] = NoInvite
          /\ invites' = [j \in Invites |->
                IF j = i
                THEN [status |-> "active", email |-> op[o].email,
                      role |-> op[o].role, age |-> "fresh"]
                ELSE IF j \in revoked[o]
                THEN [invites[j] EXCEPT !.status = "revoked"]
                ELSE invites[j]]
    BY <1>6 DEF InsertInvite
  <2>3. \A j \in Invites : j \in revoked[o] => invites[j] \in Invite /\ inviteLock[j] = o
    BY DEF OpsTyped, InvitesHeld, Active, NoInvite
  <2>4. ASSUME NEW j \in Invites
        PROVE  /\ invites'[j] \in Invite \cup {NoInvite}
               /\ Active(j) /\ inviteLock[j] \notin {o, NoOp} => invites'[j].status = "active"
    <3>1. CASE j = i
      BY <2>1, <2>2, <3>1 DEF Invite
    <3>2. CASE j # i /\ j \in revoked[o]
      BY <2>2, <2>3, <3>2 DEF Invite
    <3>3. CASE j # i /\ j \notin revoked[o]
      BY <2>2, <3>3 DEF OpsTyped, Active
    <3>4. QED
      BY <3>1, <3>2, <3>3
  <2>5. invites' \in [Invites -> Invite \cup {NoInvite}]
    BY <2>2, <2>4
  <2>6. \E how \in {"ok", "cancelled"} : EndOp(o, how)
    BY <1>6 DEF InsertInvite
  <2>7. QED
    BY <2>4, <2>5, <2>6, EndKeeps
<1>7. ASSUME NEW o \in Ops, NEW how, EndOp(o, how), op[o].invite \in Invites,
             Active(op[o].invite), inviteLock[op[o].invite] \in {NoOp, o},
             NEW verdict \in {"revoked", "accepted"},
             invites' = [invites EXCEPT ![op[o].invite].status = verdict]
      PROVE  Goal
  <2>1. invites[op[o].invite] \in Invite
    BY <1>7 DEF OpsTyped, Active, NoInvite
  <2>2. [invites[op[o].invite] EXCEPT !.status = verdict] \in Invite
    BY <1>7, <2>1 DEF Invite
  <2>3. invites' \in [Invites -> Invite \cup {NoInvite}]
    BY <1>7, <2>2 DEF OpsTyped
  <2>4. ASSUME NEW j \in Invites, Active(j), inviteLock[j] \notin {o, NoOp}
        PROVE  invites'[j].status = "active"
    BY <1>7, <2>4 DEF OpsTyped, Active
  <2>5. QED
    BY <1>7, <2>3, <2>4, EndKeeps
<1>8. ASSUME NEW o \in Ops, RevokeInvite(o) PROVE Goal
  <2>1. op[o].invite \in Invites
    BY <1>8, AsksHaveActors DEF RevokeInvite, InvitesHeld
  <2>2. QED
    BY <1>7, <1>8, <2>1 DEF RevokeInvite, FreeInvite
<1>9. ASSUME NEW o \in Ops, CommitAccept(o) PROVE Goal
  <2>1. op[o].invite \in Invites
    BY <1>9, AsksHaveActors DEF CommitAccept, UseUp, InvitesHeld
  <2>2. Active(op[o].invite) /\ inviteLock[op[o].invite] = o
    BY <1>9 DEF CommitAccept, UseUp, InvitesHeld
  <2>3. QED
    BY <1>7, <1>9, <2>1, <2>2 DEF CommitAccept, UseUp
<1>10. ASSUME NEW o \in Ops, LockInvite(o) PROVE Goal
  <2>1. op[o].invite \in Invites
    BY <1>10, AsksHaveActors DEF LockInvite, InvitesHeld
  <2>2. OpsTyped'
    BY <1>10, <2>1 DEF LockInvite, OpsTyped
  <2>3. \A p \in Ops, j \in Invites : inviteLock[j] = p => inviteLock'[j] = p
    BY <1>10, <2>1, NoOpAssumption DEF LockInvite, FreeInvite, OpsTyped
  <2>4. \A p \in Ops \ {o} : opPc'[p] = opPc[p] /\ revoked'[p] = revoked[p]
    BY <1>10 DEF LockInvite, OpsTyped
  <2>5. /\ opPc[o] = "accept" /\ opPc'[o] = "insert" /\ op' = op /\ revoked' = revoked
        /\ inviteLock'[op[o].invite] = o /\ Active(op[o].invite)' /\ UNCHANGED invites
    BY <1>10, <2>1 DEF LockInvite, OpsTyped, Active
  <2>6. revoked[o] = {} /\ op[o] \in OpAsks /\ op[o].kind = "accept"
    BY <2>5 DEF InvitesHeld
  <2>7. QED
    BY <2>2, <2>3, <2>4, <2>5, <2>6, HoldKeeps DEF InvitesHeld
<1>11. ASSUME NEW o \in Ops, InsertMembership(o) \/ MarkAccepted(o) PROVE Goal
  <2>1. PICK step \in {"mark", "commit"} : opPc' = [opPc EXCEPT ![o] = step]
    BY <1>11 DEF InsertMembership, MarkAccepted
  <2>2. opPc[o] \in {"insert", "mark"} /\ UNCHANGED <<invites, inviteLock, op, revoked>>
    BY <1>11 DEF InsertMembership, MarkAccepted
  <2>3. OpsTyped'
    BY <1>11, <2>1, <2>2 DEF InsertMembership, MarkAccepted, OpsTyped
  <2>4. \A p \in Ops \ {o} : opPc'[p] = opPc[p] /\ revoked'[p] = revoked[p]
    BY <2>1, <2>2 DEF OpsTyped
  <2>5. \A p \in Ops, j \in Invites : inviteLock[j] = p => inviteLock'[j] = p
    BY <2>2
  <2>6. /\ op[o] \in OpAsks /\ op[o].kind = "accept" /\ revoked[o] = {}
        /\ inviteLock[op[o].invite] = o /\ Active(op[o].invite)
    BY <2>2 DEF InvitesHeld
  <2>7. opPc'[o] = step /\ revoked'[o] = {}
        /\ inviteLock'[op'[o].invite] = o /\ Active(op[o].invite)'
    BY <2>1, <2>2, <2>6 DEF OpsTyped, Active
  <2>8. QED
    BY <2>2, <2>3, <2>4, <2>5, <2>6, <2>7, HoldKeeps DEF InvitesHeld
<1>12. ASSUME NEW i \in Invites, Expire(i) PROVE Goal
  <2>1. [invites[i] EXCEPT !.age = "expired"] \in Invite
    <3>1. invites[i] \in Invite
      BY <1>12 DEF Expire, OpsTyped
    <3>2. QED
      BY <3>1 DEF Invite
  <2>2. OpsTyped'
    BY <1>12, <2>1 DEF Expire, OpsTyped, opVars
  <2>3. \A j \in Invites : Active(j) => Active(j)'
    BY <1>12, <2>1 DEF Expire, OpsTyped, Active
  <2>4. \A p \in Ops : opPc[p] \in {"insert", "mark", "commit"} => op[p].invite \in Invites
    BY AsksHaveActors DEF InvitesHeld
  <2>5. \A p \in Ops : revoked[p] \subseteq Invites
    BY DEF OpsTyped
  <2>6. QED
    BY <1>12, <2>2, <2>3, <2>4, <2>5 DEF Expire, InvitesHeld, opVars
<1>13. ASSUME UNCHANGED inviteVars PROVE Goal
  BY <1>13 DEF inviteVars, opVars, OpsTyped, InvitesHeld, Active
<1>14. QED
  BY <1>1, <1>2, <1>3, <1>4, <1>5, <1>6, <1>8, <1>9, <1>10, <1>11, <1>12, <1>13
  DEF NextOrg, OpStep, CancelOp, RefuseInviter, RevokeNothing, RefuseInvite, LoseMembership,
      OpDeadlockVictim, orgVars

(* Every step of the organization with invites is one of OrgMembers, seen  *)
(* through memberships; an organization with invites never loses its last  *)
(* owner either (invites_service.go:237-241, members_service.go).          *)
LEMMA OrgStepMembers ==
    ASSUME OpsInv, [NextOrg]_orgVars
    PROVE  [Next]_memberVars
<1>1. ASSUME NEW o \in Ops, CommitAccept(o) PROVE [Next]_memberVars
  <2>1. op[o].actor \in Users
    BY <1>1, AsksHaveActors DEF CommitAccept, UseUp, OpsInv, InvitesHeld, InOp
  <2>2. CASE inserted[o]
    <3>1. Join(op[o].actor, invites[op[o].invite].role)
      BY <1>1, <2>2 DEF CommitAccept
    <3>2. invites[op[o].invite].role \in Roles
      BY <3>1 DEF Join
    <3>3. QED
      BY <2>1, <3>1, <3>2 DEF Next
  <2>3. CASE ~inserted[o]
    BY <1>1, <2>3 DEF CommitAccept
  <2>4. QED
    BY <2>2, <2>3
<1>2. ASSUME NEW o \in Ops, OpStep(o) \/ ReceiveOp(o) \/ CancelOp(o) PROVE [Next]_memberVars
  BY <1>1, <1>2 DEF OpStep, ReceiveOp, CancelOp, CheckInviter, RefuseInviter, FindOpenInvites,
     RevokeOpenInvite, InsertInvite, RevokeInvite, RevokeNothing, LockInvite, RefuseInvite,
     InsertMembership, MarkAccepted, LoseMembership, OpDeadlockVictim, FailOp
<1>3. QED
  BY <1>2 DEF NextOrg, Expire, Next, orgVars

LEMMA OpsInvariant == OrgSpec => []OpsInv
<1>1. OpsInv /\ [NextOrg]_orgVars => OpsInv'
  BY OpsStep
<1>2. QED
  BY <1>1, InitOps, PTL DEF OrgSpec

(* The organization with invites implements OrgMembers (AsMembers).        *)
THEOREM InvitesImplementMembers == OrgSpec => AsMembers
<1>1. InitOrg => Init
  BY DEF InitOrg
<1>2. OpsInv /\ [NextOrg]_orgVars => [Next]_memberVars
  BY OrgStepMembers
<1>3. QED
  BY <1>1, <1>2, OpsInvariant, PTL DEF OrgSpec, AsMembers, Spec

(* So it has an owner in every reachable state.                            *)
THEOREM OwnerRemainsWithInvites == OrgSpec => []HasOwner
BY InvitesImplementMembers, OwnerRemains, PTL DEF AsMembers

(* No step changes what was accepted or revoked (invites_service.go:61-69, *)
(* 161-168, 196-220, 246-252).                                             *)
LEMMA SettledStep ==
    ASSUME OpsInv, [NextOrg]_orgVars, NEW i \in Invites,
           invites[i].status \in {"revoked", "accepted"}
    PROVE  invites'[i].status = invites[i].status
<1> USE DEF OpsInv, InvitesHeld, Active, InOp
<1>1. ASSUME NEW o \in Ops, InsertInvite(o) PROVE invites'[i].status = invites[i].status
  <2>1. i \notin revoked[o] /\ invites[i] # NoInvite
    BY DEF NoInvite
  <2>2. invites'[i] = invites[i]
    BY <1>1, <2>1 DEF InsertInvite
  <2>3. QED
    BY <2>2
<1>2. ASSUME NEW o \in Ops, RevokeInvite(o) PROVE invites'[i].status = invites[i].status
  BY <1>2 DEF RevokeInvite, OpsTyped
<1>3. ASSUME NEW o \in Ops, CommitAccept(o) PROVE invites'[i].status = invites[i].status
  BY <1>3 DEF CommitAccept, UseUp, OpsTyped
<1>4. ASSUME NEW j \in Invites, Expire(j) PROVE invites'[i].status = invites[i].status
  BY <1>4 DEF Expire, OpsTyped, Invite
<1>5. CASE UNCHANGED invites
  BY <1>5
<1>6. QED
  BY <1>1, <1>2, <1>3, <1>4, <1>5
  DEF NextOrg, OpStep, ReceiveOp, CancelOp, CheckInviter, RefuseInviter, FindOpenInvites,
      RevokeOpenInvite, RevokeNothing, LockInvite, RefuseInvite, InsertMembership,
      MarkAccepted, LoseMembership, OpDeadlockVictim, FailOp, inviteVars, orgVars

(* Accepted and revoked are final.                                         *)
THEOREM SettledForGood == OrgSpec => InviteSettled
<1>1. OpsInv /\ [NextOrg]_orgVars =>
        \A i \in Invites : invites[i].status \in {"revoked", "accepted"} =>
          invites'[i].status = invites[i].status
  BY SettledStep
<1>2. QED
  BY <1>1, OpsInvariant, PTL DEF OrgSpec, InviteSettled

-----------------------------------------------------------------------------
(* What requests are told.                                                 *)

(* A request is told how it ended when it ends, not before.                *)
OutcomesOK ==
    /\ opOutcome \in [Ops -> OpOutcomes]
    /\ \A o \in Ops :
         /\ opPc[o] # "done" => opOutcome[o] = "none"
         /\ opOutcome[o] # "none" => op[o] \in OpAsks

Settles == {"revoke", "accept"}

LEMMA VerdictsAboutInvites ==
    ASSUME OutcomesOK, NEW o \in Ops, Succeeded(o, Settles)
    PROVE  op[o].invite \in Invites
BY AsksHaveActors DEF OutcomesOK, Succeeded, Settles

(* A step after which no more requests have succeeded keeps the verdicts.  *)
LEMMA NoNewVerdict ==
    ASSUME OpsInv, OutcomesOK, OneVerdict, [NextOrg]_orgVars,
           \A p \in Ops : Succeeded(p, Settles)' => Succeeded(p, Settles) /\ op'[p] = op[p]
    PROVE  OneVerdict'
<1>1. \A p \in Ops : Succeeded(p, Settles) =>
        /\ op[p].invite \in Invites
        /\ invites[op[p].invite].status = IF op[p].kind = "revoke" THEN "revoked" ELSE "accepted"
        /\ \A r \in Ops \ {p} : Succeeded(r, Settles) => op[r].invite # op[p].invite
  BY VerdictsAboutInvites DEF OneVerdict, Settles
<1>2. \A p \in Ops : Succeeded(p, Settles) =>
        invites'[op[p].invite].status = invites[op[p].invite].status
  BY <1>1, SettledStep
<1>3. ASSUME NEW p \in Ops, Succeeded(p, Settles)'
      PROVE  /\ invites'[op'[p].invite].status =
                    IF op'[p].kind = "revoke" THEN "revoked" ELSE "accepted"
             /\ \A r \in Ops \ {p} : Succeeded(r, Settles)' => op'[r].invite # op'[p].invite
  <2>1. Succeeded(p, Settles) /\ op'[p] = op[p]
    BY <1>3
  <2>2. \A r \in Ops : Succeeded(r, Settles)' => Succeeded(r, Settles) /\ op'[r] = op[r]
    OBVIOUS
  <2>3. QED
    BY <1>1, <1>2, <2>1, <2>2
<1>4. QED
  BY <1>3 DEF OneVerdict, Settles

(* Whoever settles an invite has seen it open: nobody has a verdict on it  *)
(* yet (invites_service.go:161-168, 246-252).                              *)
LEMMA NewVerdict ==
    ASSUME OpsInv, OutcomesOK, OneVerdict, [NextOrg]_orgVars, NEW o \in Ops,
           Active(op[o].invite), op' = op,
           invites'[op[o].invite].status =
             IF op[o].kind = "revoke" THEN "revoked" ELSE "accepted",
           \A p \in Ops \ {o} : opOutcome'[p] = opOutcome[p]
    PROVE  OneVerdict'
<1>1. \A p \in Ops : Succeeded(p, Settles) =>
        /\ op[p].invite \in Invites
        /\ invites[op[p].invite].status = IF op[p].kind = "revoke" THEN "revoked" ELSE "accepted"
        /\ \A r \in Ops \ {p} : Succeeded(r, Settles) => op[r].invite # op[p].invite
  BY VerdictsAboutInvites DEF OneVerdict, Settles
<1>2. \A p \in Ops : Succeeded(p, Settles) =>
        /\ op[p].invite # op[o].invite
        /\ invites'[op[p].invite].status = invites[op[p].invite].status
  BY <1>1, SettledStep DEF Active
<1>3. \A p \in Ops \ {o} : Succeeded(p, Settles)' => Succeeded(p, Settles)
  BY DEF Succeeded
<1>4. ASSUME NEW p \in Ops, Succeeded(p, Settles)'
      PROVE  /\ invites'[op'[p].invite].status =
                    IF op'[p].kind = "revoke" THEN "revoked" ELSE "accepted"
             /\ \A r \in Ops \ {p} : Succeeded(r, Settles)' => op'[r].invite # op'[p].invite
  <2>1. CASE p = o
    BY <1>2, <1>3, <2>1
  <2>2. CASE p # o
    BY <1>1, <1>2, <1>3, <1>4, <2>2
  <2>3. QED
    BY <2>1, <2>2
<1>5. QED
  BY <1>4 DEF OneVerdict, Settles

LEMMA VerdictStep ==
    ASSUME OpsInv, OutcomesOK, OneVerdict, [NextOrg]_orgVars
    PROVE  OutcomesOK' /\ OneVerdict'
<1> DEFINE Goal == OutcomesOK' /\ OneVerdict'
           Same(p) == opOutcome'[p] = opOutcome[p] /\ op'[p] = op[p]
<1> USE DEF OpsInv, OpsTyped
<1>1. ASSUME NEW o \in Ops, NEW how \in OpOutcomes, EndOp(o, how), opPc[o] \in InOp
      PROVE  OutcomesOK' /\ op' = op /\ opOutcome'[o] = how /\ \A p \in Ops \ {o} : Same(p)
  BY <1>1 DEF EndOp, OutcomesOK, InvitesHeld
<1>2. ASSUME NEW o \in Ops, NEW how \in OpOutcomes \ {"ok"}, EndOp(o, how), opPc[o] \in InOp
      PROVE  Goal
  <2>1. OutcomesOK' /\ opOutcome'[o] = how /\ \A p \in Ops \ {o} : Same(p)
    BY <1>1, <1>2
  <2>2. \A p \in Ops : Succeeded(p, Settles)' => Succeeded(p, Settles) /\ op'[p] = op[p]
    BY <1>2, <2>1 DEF Succeeded
  <2>3. QED
    BY <2>1, <2>2, NoNewVerdict
<1>3. ASSUME NEW o \in Ops, ReceiveOp(o) PROVE Goal
  <2>1. opOutcome' = opOutcome /\ opOutcome[o] = "none" /\ \A p \in Ops \ {o} : Same(p)
    BY <1>3 DEF ReceiveOp, OutcomesOK
  <2>2. OutcomesOK'
    BY <1>3, <2>1 DEF ReceiveOp, OutcomesOK
  <2>3. \A p \in Ops : Succeeded(p, Settles)' => Succeeded(p, Settles) /\ op'[p] = op[p]
    BY <2>1 DEF Succeeded
  <2>4. QED
    BY <2>2, <2>3, NoNewVerdict
<1>4. ASSUME NEW o \in Ops, InsertInvite(o) PROVE Goal
  <2>1. /\ op[o].kind = "create" /\ opPc[o] \in InOp
        /\ \E how \in OpOutcomes : EndOp(o, how)
    BY <1>4 DEF InsertInvite, InvitesHeld, OpOutcomes, InOp
  <2>2. OutcomesOK' /\ op' = op /\ \A p \in Ops \ {o} : Same(p)
    BY <1>1, <2>1
  <2>3. \A p \in Ops : Succeeded(p, Settles)' => Succeeded(p, Settles) /\ op'[p] = op[p]
    BY <2>1, <2>2 DEF Succeeded, Settles
  <2>4. QED
    BY <2>2, <2>3, NoNewVerdict
<1>5. ASSUME NEW o \in Ops, RevokeInvite(o) PROVE Goal
  <2>1. /\ op[o].kind = "revoke" /\ Active(op[o].invite) /\ opPc[o] \in InOp
        /\ \E how \in OpOutcomes : EndOp(o, how)
    BY <1>5 DEF RevokeInvite, InvitesHeld, OpOutcomes, InOp
  <2>2. op[o].invite \in Invites
    BY <2>1, AsksHaveActors DEF InvitesHeld
  <2>3. invites'[op[o].invite].status = "revoked"
    BY <1>5, <2>2 DEF RevokeInvite
  <2>4. OutcomesOK' /\ op' = op /\ \A p \in Ops \ {o} : Same(p)
    BY <1>1, <2>1
  <2>5. QED
    BY <2>1, <2>3, <2>4, NewVerdict
<1>6. ASSUME NEW o \in Ops, CommitAccept(o) PROVE Goal
  <2>1. \E how \in OpOutcomes : EndOp(o, how)
    BY <1>6 DEF CommitAccept, UseUp, OpOutcomes
  <2>2. op[o].kind = "accept" /\ Active(op[o].invite) /\ opPc[o] \in InOp
    BY <1>6 DEF CommitAccept, UseUp, InvitesHeld, InOp
  <2>3. op[o].invite \in Invites
    BY <2>2, AsksHaveActors DEF InvitesHeld
  <2>4. invites'[op[o].invite].status = "accepted"
    BY <1>6, <2>3 DEF CommitAccept, UseUp
  <2>5. OutcomesOK' /\ op' = op /\ \A p \in Ops \ {o} : Same(p)
    BY <1>1, <2>1, <2>2
  <2>6. QED
    BY <2>2, <2>4, <2>5, NewVerdict
<1>7. ASSUME NEW o \in Ops, UNCHANGED <<op, opOutcome>>,
             opPc[o] # "done", \A p \in Ops \ {o} : opPc'[p] = opPc[p]
      PROVE  Goal
  <2>1. OutcomesOK'
    BY <1>7 DEF OutcomesOK
  <2>2. QED
    BY <1>7, <2>1, NoNewVerdict DEF Succeeded
<1>8. ASSUME UNCHANGED <<opPc, op, opOutcome>> PROVE Goal
  <2>1. OutcomesOK'
    BY <1>8 DEF OutcomesOK
  <2>2. QED
    BY <1>8, <2>1, NoNewVerdict DEF Succeeded
<1>9. ASSUME NEW o \in Ops,
             \/ CheckInviter(o) \/ FindOpenInvites(o) \/ RevokeOpenInvite(o)
             \/ LockInvite(o) \/ InsertMembership(o) \/ MarkAccepted(o)
      PROVE  Goal
  <2>1. /\ UNCHANGED <<op, opOutcome>> /\ opPc[o] # "done"
        /\ \A p \in Ops \ {o} : opPc'[p] = opPc[p]
    BY <1>9 DEF CheckInviter, FindOpenInvites, RevokeOpenInvite, LockInvite, InsertMembership,
       MarkAccepted
  <2>2. QED
    BY <1>7, <2>1
<1>10. ASSUME NEW o \in Ops,
              RefuseInviter(o) \/ RevokeNothing(o) \/ RefuseInvite(o) \/ LoseMembership(o)
              \/ OpDeadlockVictim(o) \/ CancelOp(o)
       PROVE  Goal
  <2>1. opPc[o] \in InOp
    <3>1. OpDeadlocked(o) => OpBlockers(o) # {}
      BY DEF OpDeadlocked
    <3>2. QED
      BY <1>10, <3>1 DEF RefuseInviter, RevokeNothing, RefuseInvite, LoseMembership,
         OpDeadlockVictim, OpBlockers, CancelOp, InOp
  <2>2. \E how \in OpOutcomes \ {"ok"} : EndOp(o, how)
    BY <1>10 DEF RefuseInviter, RevokeNothing, RefuseInvite, LoseMembership, OpDeadlockVictim,
       CancelOp, FailOp, OpOutcomes
  <2>3. QED
    BY <1>2, <2>1, <2>2
<1>11. ASSUME NEW i \in Invites, Expire(i) PROVE Goal
  BY <1>8, <1>11 DEF Expire, opVars
<1>12. ASSUME UNCHANGED inviteVars PROVE Goal
  BY <1>8, <1>12 DEF inviteVars, opVars
<1>13. Goal
  <2> HIDE DEF Goal, OpsInv, OpsTyped
  <2> QED
    BY <1>3, <1>4, <1>5, <1>6, <1>9, <1>10, <1>11, <1>12 DEF NextOrg, OpStep, orgVars
<1>14. QED
  BY <1>13

LEMMA VerdictsInvariant == OrgSpec => [](OutcomesOK /\ OneVerdict)
<1>1. InitOrg => OutcomesOK /\ OneVerdict
  BY DEF InitOrg, OutcomesOK, OpOutcomes, OneVerdict, Succeeded
<1>2. OpsInv /\ OutcomesOK /\ OneVerdict /\ [NextOrg]_orgVars => OutcomesOK' /\ OneVerdict'
  BY VerdictStep
<1>3. QED
  BY <1>1, <1>2, OpsInvariant, PTL DEF OrgSpec

(* Of the requests about one invite at most one is told that it succeeded, *)
(* and the row says what that one was told (invites_service.go:157-178,    *)
(* 181-275).                                                               *)
THEOREM OneVerdictOnly == OrgSpec => []OneVerdict
BY VerdictsInvariant, PTL

(* The types of memberships and invites, and who holds which row.          *)
THEOREM InvitesInvariant == OrgSpec => []InvitesInv
<1>1. MembersInv /\ OpsInv /\ OutcomesOK => InvitesInv
  BY DEF MembersInv, OpsInv, OpsTyped, OutcomesOK, InvitesInv, InvitesTypeOK
<1>2. QED
  BY <1>1, VerdictsInvariant, OpsInvariant, InvitesImplementMembers, MembersInvariant, PTL
  DEF AsMembers

-----------------------------------------------------------------------------
(* Who waits, and for whom the invites are.                                *)

OpsInFlight == {o \in Ops : opPc[o] \in InOp}

(* A row is held by a request at work on it; what a creation revokes was   *)
(* made out to the address it is asked about, and what an acceptance has   *)
(* locked to the one who accepts.                                          *)
WorkOK ==
    /\ \A i \in Invites : inviteLock[i] # NoOp => opPc[inviteLock[i]] \in {"revoke", "insert", "mark", "commit"}
    /\ \A o \in Ops :
         /\ inserted[o] => opPc[o] \in {"mark", "commit"}
         /\ opPc[o] # "revoke" => toRevoke[o] = {}
         /\ opPc[o] \in {"insert", "mark", "commit"} => invites[op[o].invite].email = op[o].actor
         /\ \A i \in toRevoke[o] \cup revoked[o] :
              invites[i] # NoInvite /\ invites[i].email = op[o].email

(* An invite is never taken out or readdressed.                            *)
LEMMA AddressStays ==
    ASSUME OpsInv, [NextOrg]_orgVars, NEW i \in Invites, invites[i] # NoInvite
    PROVE  invites'[i] # NoInvite /\ invites'[i].email = invites[i].email
<1> USE DEF OpsInv, OpsTyped
<1>1. invites[i] \in Invite
  OBVIOUS
<1>2. \A v \in Invite : v # NoInvite
  BY DEF Invite, NoInvite
<1>3. ASSUME NEW status \in {"active", "revoked", "accepted"},
             invites'[i] = [invites[i] EXCEPT !.status = status]
      PROVE  invites'[i] # NoInvite /\ invites'[i].email = invites[i].email
  <2>1. [invites[i] EXCEPT !.status = status] \in Invite
    BY <1>1 DEF Invite
  <2>2. [invites[i] EXCEPT !.status = status].email = invites[i].email
    BY <1>1 DEF Invite
  <2>3. QED
    BY <1>2, <1>3, <2>1, <2>2
<1>4. ASSUME NEW o \in Ops, InsertInvite(o) PROVE invites'[i] # NoInvite /\ invites'[i].email = invites[i].email
  <2>1. \/ invites'[i] = invites[i]
        \/ invites'[i] = [invites[i] EXCEPT !.status = "revoked"]
    BY <1>4 DEF InsertInvite
  <2>2. QED
    BY <1>3, <2>1
<1>5. ASSUME NEW j, NEW status \in {"revoked", "accepted"},
             invites' = [invites EXCEPT ![j].status = status]
      PROVE  invites'[i] # NoInvite /\ invites'[i].email = invites[i].email
  <2>1. \/ invites'[i] = invites[i]
        \/ invites'[i] = [invites[i] EXCEPT !.status = status]
    BY <1>5
  <2>2. QED
    BY <1>3, <2>1
<1>6. ASSUME NEW j \in Invites, Expire(j) PROVE invites'[i] # NoInvite /\ invites'[i].email = invites[i].email
  <2>1. \/ invites'[i] = invites[i]
        \/ invites'[i] = [invites[i] EXCEPT !.age = "expired"]
    BY <1>6 DEF Expire
  <2>2. [invites[i] EXCEPT !.age = "expired"] \in Invite
    BY <1>1 DEF Invite
  <2>3. [invites[i] EXCEPT !.age = "expired"].email = invites[i].email
    BY <1>1 DEF Invite
  <2>4. QED
    BY <1>2, <2>1, <2>2, <2>3
<1>7. CASE UNCHANGED invites
  BY <1>7
<1>8. QED
  BY <1>4, <1>5, <1>6, <1>7
  DEF NextOrg, OpStep, ReceiveOp, CancelOp, CheckInviter, RefuseInviter, FindOpenInvites,
      RevokeOpenInvite, RevokeInvite, RevokeNothing, LockInvite, RefuseInvite, InsertMembership,
      MarkAccepted, CommitAccept, UseUp, LoseMembership, OpDeadlockVictim, FailOp, inviteVars, orgVars

LEMMA WorkStep ==
    ASSUME OpsInv, WorkOK, [NextOrg]_orgVars
    PROVE  WorkOK'
<1> USE NoOpAssumption DEF OpsInv, OpsTyped, InOp
<1>0. /\ \A i \in Invites : invites[i] # NoInvite =>
           invites'[i] # NoInvite /\ invites'[i].email = invites[i].email
      /\ \A o \in Ops : opPc[o] \in {"insert", "mark", "commit"} =>
           op[o].invite \in Invites /\ invites[op[o].invite] # NoInvite
  BY AddressStays, AsksHaveActors DEF InvitesHeld, Active, NoInvite
<1>1. ASSUME NEW o \in Ops, NEW how, EndOp(o, how) PROVE WorkOK'
  BY <1>0, <1>1 DEF EndOp, WorkOK
<1>2. ASSUME NEW o \in Ops, ReceiveOp(o) PROVE WorkOK'
  BY <1>2 DEF ReceiveOp, WorkOK, InvitesHeld
<1>3. ASSUME NEW o \in Ops, CheckInviter(o) PROVE WorkOK'
  BY <1>3 DEF CheckInviter, WorkOK
<1>4. ASSUME NEW o \in Ops, FindOpenInvites(o) PROVE WorkOK'
  <2>1. /\ opPc[o] = "begin" /\ opPc' = [opPc EXCEPT ![o] = "revoke"]
        /\ toRevoke' = [toRevoke EXCEPT ![o] =
                         {i \in Invites : Active(i) /\ invites[i].email = op[o].email}]
        /\ revoked[o] = {} /\ UNCHANGED <<invites, inviteLock, op, revoked, inserted>>
    BY <1>4 DEF FindOpenInvites, InvitesHeld
  <2>2. \A i \in toRevoke'[o] : invites[i] # NoInvite /\ invites[i].email = op[o].email
    BY <2>1 DEF Active, NoInvite
  <2>3. QED
    BY <2>1, <2>2 DEF WorkOK
<1>5. ASSUME NEW o \in Ops, RevokeOpenInvite(o) PROVE WorkOK'
  <2>1. PICK i \in toRevoke[o] :
          /\ toRevoke' = [toRevoke EXCEPT ![o] = @ \ {i}]
          /\ \/ inviteLock' = [inviteLock EXCEPT ![i] = o] /\ revoked' = [revoked EXCEPT ![o] = @ \cup {i}]
             \/ UNCHANGED <<inviteLock, revoked>>
    BY <1>5 DEF RevokeOpenInvite
  <2>2. opPc[o] = "revoke" /\ UNCHANGED <<invites, opPc, op, inserted>>
    BY <1>5 DEF RevokeOpenInvite
  <2>3. \A p \in Ops : toRevoke'[p] \cup revoked'[p] \subseteq toRevoke[p] \cup revoked[p]
    BY <2>1
  <2>4. \A j \in Invites : inviteLock'[j] \in {inviteLock[j], o}
    BY <2>1
  <2>5. \A p \in Ops : toRevoke'[p] \subseteq toRevoke[p]
    BY <2>1
  <2>6. QED
    BY <2>2, <2>3, <2>4, <2>5 DEF WorkOK
<1>6. ASSUME NEW o \in Ops, LockInvite(o) PROVE WorkOK'
  BY <1>6, AsksHaveActors DEF LockInvite, WorkOK, InvitesHeld
<1>7. ASSUME NEW o \in Ops, InsertMembership(o) \/ MarkAccepted(o) PROVE WorkOK'
  BY <1>7 DEF InsertMembership, MarkAccepted, WorkOK
<1>8. ASSUME NEW i \in Invites, Expire(i) PROVE WorkOK'
  <2>1. UNCHANGED <<inviteLock, opPc, op, toRevoke, revoked, inserted>>
    BY <1>8 DEF Expire, opVars
  <2>2. QED
    BY <1>0, <2>1 DEF WorkOK
<1>9. ASSUME UNCHANGED inviteVars PROVE WorkOK'
  BY <1>9 DEF inviteVars, opVars, WorkOK
<1>10. QED
  BY <1>1, <1>2, <1>3, <1>4, <1>5, <1>6, <1>7, <1>8, <1>9
  DEF NextOrg, OpStep, CancelOp, RefuseInviter, InsertInvite, RevokeInvite, RevokeNothing,
      RefuseInvite, CommitAccept, UseUp, LoseMembership, OpDeadlockVictim, FailOp, orgVars

LEMMA OpFlightStep ==
    ASSUME OpsInv, [NextOrg]_orgVars, IsFiniteSet(OpsInFlight)
    PROVE  IsFiniteSet(OpsInFlight')
<1>1. ASSUME NEW o \in Ops, NEW step, opPc' = [opPc EXCEPT ![o] = step]
      PROVE  OpsInFlight' \subseteq OpsInFlight \cup {o}
  BY <1>1 DEF OpsInFlight, OpsInv, OpsTyped
<1>2. ASSUME UNCHANGED opPc PROVE OpsInFlight' = OpsInFlight
  BY <1>2 DEF OpsInFlight
<1>3. OpsInFlight' = OpsInFlight \/ \E o \in Ops : OpsInFlight' \subseteq OpsInFlight \cup {o}
  BY <1>1, <1>2
  DEF NextOrg, OpStep, ReceiveOp, CancelOp, CheckInviter, RefuseInviter, FindOpenInvites,
      RevokeOpenInvite, InsertInvite, RevokeInvite, RevokeNothing, LockInvite, RefuseInvite,
      InsertMembership, MarkAccepted, CommitAccept, UseUp, LoseMembership, OpDeadlockVictim, FailOp,
      EndOp, Expire, inviteVars, opVars, orgVars
<1>4. QED
  BY <1>3, FS_AddElement, FS_Subset

OpFlightsOK == WorkOK /\ IsFiniteSet(OpsInFlight)

LEMMA WorkInvariant == OrgSpec => []OpFlightsOK
<1>1. InitOrg => OpFlightsOK
  <2> SUFFICES ASSUME InitOrg PROVE OpFlightsOK
    OBVIOUS
  <2>1. WorkOK
    BY DEF InitOrg, WorkOK
  <2>2. OpsInFlight = {}
    BY DEF InitOrg, OpsInFlight, InOp
  <2>3. QED
    BY <2>1, <2>2, FS_EmptySet DEF OpFlightsOK
<1>2. OpsInv /\ OpFlightsOK /\ [NextOrg]_orgVars => OpFlightsOK'
  BY WorkStep, OpFlightStep DEF OpFlightsOK
<1>3. QED
  BY <1>1, <1>2, OpsInvariant, PTL DEF OrgSpec

(* A request waits for others, who hold rows or have inserted.             *)
LEMMA OpBlockersWork ==
    ASSUME OpsInv, WorkOK, NEW o \in Ops
    PROVE  OpBlockers(o) \subseteq OpsInFlight \ {o}
<1>1. opPc[o] \in {"update", "accept"} => op[o].invite \in Invites
  BY AsksHaveActors DEF OpsInv, InvitesHeld, InOp
<1>2. toRevoke[o] \subseteq Invites
  BY DEF OpsInv, OpsTyped
<1>3. QED
  BY <1>1, <1>2, NoOpAssumption DEF OpBlockers, WorkOK, OpsInFlight, InOp

LEMMA OpGroupsProceed == OpsInv /\ OpFlightsOK => InviteWaitsEnd
<1> SUFFICES ASSUME OpsInv, OpFlightsOK, NEW W \in SUBSET Ops, NEW p \in W,
                    opPc[p] \in InOp, \A o \in W : OpBlockers(o) \subseteq W,
                    \A o \in W : ~OpProceeds(o)
             PROVE  FALSE
  BY DEF InviteWaitsEnd
<1> DEFINE G == OpsInFlight \cap W
           waitsFor == [o \in Ops |-> OpBlockers(o)]
<1>1. IsFiniteSet(G) /\ p \in G
  BY FS_Intersection DEF OpFlightsOK, OpsInFlight
<1>2. \A o \in G : waitsFor[o] \cap G # {} /\ o \notin waitsFor[o]
  BY OpBlockersWork DEF OpFlightsOK, OpProceeds, OpsInFlight
<1>3. PICK D \in SUBSET G : D # {} /\ IsCircle(D, waitsFor)
  <2> HIDE DEF G, waitsFor
  <2> QED
    BY <1>1, <1>2, SomeCircle
<1>4. \A d \in D : OpDeadlocked(d)
  BY <1>3 DEF IsCircle, OpDeadlocked
<1>5. QED
  BY <1>3, <1>4 DEF OpProceeds, OpsInFlight

(* However creations, revocations and acceptances lock invites, for any    *)
(* number of them, from every one that waits one finds another that goes   *)
(* on, or that PostgreSQL fails (invites_service.go:61-84, 161-172,        *)
(* 196-243).                                                               *)
THEOREM NoInviteStranded == OrgSpec => []InviteWaitsEnd
BY OpGroupsProceed, OpsInvariant, WorkInvariant, PTL

-----------------------------------------------------------------------------
(* The organization keeps its promise: step by step.                       *)

(* Only a step of an acceptance at its COMMIT changes what is found.       *)
LEMMA FoundStays ==
    ASSUME \A p \in Ops : opPc[p] = "commit" /\ ~inserted[p]
                          <=> opPc'[p] = "commit" /\ ~inserted'[p],
           \A p \in Ops : opPc[p] = "commit" => op'[p] = op[p]
    PROVE  Found' = Found
BY DEF Found

(* One acceptance at a time is about to use up an invite.                  *)
LEMMA FoundByOne ==
    ASSUME OpsInv, NEW o \in Ops, opPc[o] = "commit"
    PROVE  /\ op[o].invite \in Found <=> ~inserted[o]
           /\ op[o].invite \in Invites
           /\ \A how : EndOp(o, how) => Found' = Found \ {op[o].invite}
<1> USE DEF OpsInv, OpsTyped, InOp
<1>1. op[o].invite \in Invites
  BY AsksHaveActors DEF InvitesHeld
<1>2. \A p \in Ops : opPc[p] = "commit" /\ op[p].invite = op[o].invite => p = o
  BY DEF InvitesHeld
<1>3. op[o].invite \in Found <=> ~inserted[o]
  BY <1>1, <1>2 DEF Found
<1>4. ASSUME NEW how, EndOp(o, how) PROVE Found' = Found \ {op[o].invite}
  <2>1. /\ opPc'[o] = "done" /\ op' = op
        /\ \A p \in Ops \ {o} : opPc'[p] = opPc[p] /\ inserted'[p] = inserted[p]
    BY <1>4 DEF EndOp
  <2>2. QED
    BY <1>2, <2>1 DEF Found
<1>5. QED
  BY <1>1, <1>3, <1>4

(* What changes an invite's status in one place is a settlement.           *)
LEMMA SettlesOne ==
    ASSUME OpsInv, NEW i \in Invites, NEW status, invites' = [invites EXCEPT ![i].status = status]
    PROVE  invites' = Promise!Settled({i}, status)
BY DEF OpsInv, OpsTyped, Promise!Settled

LEMMA InsertOffers ==
    ASSUME OpsInv, WorkOK, NEW o \in Ops, InsertInvite(o)
    PROVE  Promise!Next
<1> USE DEF OpsInv, InvitesHeld, InOp
<1>1. op[o].email \in Users /\ op[o].role \in Roles \ {"OWNER"}
  BY AsksHaveActors DEF InsertInvite
<1> DEFINE v == [status |-> "active", email |-> op[o].email, role |-> op[o].role, age |-> "fresh"]
<1>2. v \in Invite /\ v.status = "active" /\ v.email = op[o].email
  BY <1>1 DEF Invite
<1>3. PICK i \in Invites :
        /\ invites[i] = NoInvite
        /\ invites' = [j \in Invites |->
              IF j = i THEN v
              ELSE IF j \in revoked[o] THEN [invites[j] EXCEPT !.status = "revoked"] ELSE invites[j]]
  BY DEF InsertInvite
<1>4. revoked[o] \subseteq {j \in Invites \ Found : Promise!Open(j) /\ invites[j].email = v.email}
  <2>1. \A j \in revoked[o] : j \notin Found
    BY DEF InsertInvite, Found
  <2>2. QED
    BY <1>2, <2>1 DEF OpsTyped, WorkOK, Active, Promise!Open
<1>5. invites' = [Promise!Settled(revoked[o], "revoked") EXCEPT ![i] = v]
  BY <1>3 DEF Promise!Settled
<1>6. UNCHANGED <<role, Found>>
  <2>1. Found' = Found
    BY FoundStays DEF InsertInvite, EndOp, OpsTyped
  <2>2. QED
    BY <2>1 DEF InsertInvite, memberVars
<1>7. Promise!Offer(i, v)
  <2> HIDE DEF v
  <2> QED
    BY <1>2, <1>3, <1>4, <1>5, <1>6 DEF Promise!Offer
<1>8. QED
  BY <1>2, <1>7 DEF Promise!Next

(* An acceptance whose INSERT did nothing finds its user a member.         *)
LEMMA MarkFinds ==
    ASSUME OpsInv, WorkOK, NEW o \in Ops, MarkAccepted(o)
    PROVE  [Promise!Next]_<<role, invites, Found>>
<1> USE DEF OpsInv, OpsTyped, InvitesHeld, InOp
<1>1. /\ opPc[o] = "mark" /\ UNCHANGED <<op, inserted, invites, role>>
      /\ opPc'[o] = "commit" /\ \A p \in Ops \ {o} : opPc'[p] = opPc[p]
  BY DEF MarkAccepted, memberVars
<1>2. CASE inserted[o]
  <2>1. Found' = Found
    BY <1>1, <1>2, FoundStays
  <2>2. QED
    BY <1>1, <2>1
<1>3. CASE ~inserted[o]
  <2>1. /\ op[o].invite \in Invites /\ Active(op[o].invite)
        /\ invites[op[o].invite].email = op[o].actor
    BY <1>1, AsksHaveActors DEF WorkOK
  <2>2. Found' = Found \cup {op[o].invite}
    BY <1>1, <1>3, <2>1 DEF Found
  <2>3. Promise!Find(op[o].invite)
    BY <1>1, <1>3, <2>1, <2>2 DEF MarkAccepted, Promise!Find, Promise!Open, Active
  <2>4. QED
    BY <2>1, <2>3 DEF Promise!Next
<1>4. QED
  BY <1>2, <1>3

(* One that is cancelled after that leaves everything as it was.           *)
LEMMA CancelGivesUp ==
    ASSUME OpsInv, NEW o \in Ops, CancelOp(o)
    PROVE  [Promise!Next]_<<role, invites, Found>>
<1>1. UNCHANGED <<role, invites>> /\ EndOp(o, "cancelled")
  BY DEF CancelOp, FailOp, memberVars
<1>2. CASE opPc[o] = "commit"
  <2>1. Found' = Found \ {op[o].invite} /\ op[o].invite \in Invites
    BY <1>1, <1>2, FoundByOne
  <2>2. QED
    BY <1>1, <2>1 DEF Promise!GiveUp, Promise!Next
<1>3. CASE opPc[o] # "commit"
  <2>1. Found' = Found
    BY <1>1, <1>3, FoundStays DEF EndOp, OpsInv, OpsTyped
  <2>2. QED
    BY <1>1, <2>1
<1>4. QED
  BY <1>2, <1>3

(* Whoever accepts joins with the invite's role, or was found a member.    *)
LEMMA CommitAccepts ==
    ASSUME MembersTypeOK, OpsInv, WorkOK, NEW o \in Ops, CommitAccept(o)
    PROVE  Promise!Next
<1> USE DEF OpsInv, InvitesHeld, InOp
<1> DEFINE i == op[o].invite
<1>1. opPc[o] = "commit" /\ i \in Invites
  BY AsksHaveActors DEF CommitAccept, UseUp
<1>2. Active(i) /\ invites[i].email = op[o].actor
  BY <1>1 DEF WorkOK
<1>3. invites' = Promise!Settled({i}, "accepted")
  <2>1. invites' = [invites EXCEPT ![i].status = "accepted"]
    BY DEF CommitAccept, UseUp
  <2>2. QED
    BY <1>1, <2>1 DEF OpsTyped, Promise!Settled
<1>4. Found' = Found \ {i} /\ (i \in Found <=> ~inserted[o])
  BY <1>1, FoundByOne DEF CommitAccept, UseUp
<1>5. IF i \in Found
      THEN UNCHANGED role
      ELSE /\ role[invites[i].email] = NotMember
           /\ role' = [role EXCEPT ![invites[i].email] = invites[i].role]
  BY <1>2, <1>4 DEF CommitAccept, Join, memberVars
<1>6. Promise!Accept(i)
  <2> HIDE DEF i
  <2> QED
    BY <1>2, <1>3, <1>4, <1>5 DEF Promise!Accept, Promise!Open, Active
<1>7. QED
  BY <1>1, <1>6 DEF Promise!Next

(* A role change is one of a member, and leaves an owner.                  *)
LEMMA ChangesRoles ==
    ASSUME MembersInv, MembersInv', NEW q \in Requests, CommitChange(q),
           UNCHANGED <<invites, Found>>
    PROVE  Promise!Next
<1>1. /\ ask[q].target \in Users /\ ask[q].role \in Roles \cup {NotMember}
      /\ role[ask[q].target] # NotMember
  BY OrgMembersAssumption DEF CommitChange, MembersInv, RowsHeld, InTx, Ask
<1>2. role' = [role EXCEPT ![ask[q].target] = ask[q].role]
  BY DEF CommitChange
<1>3. Promise!Owned(role')
  BY DEF MembersInv, HasOwner, Promise!Owned
<1>4. Promise!Change(ask[q].target)
  BY <1>1, <1>2, <1>3 DEF Promise!Change
<1>5. QED
  BY <1>1, <1>4 DEF Promise!Next

LEMMA PromiseStep ==
    ASSUME MembersInv, MembersInv', OpsInv, WorkOK, [NextOrg]_orgVars
    PROVE  [Promise!Next]_<<role, invites, Found>>
<1> DEFINE Kept == [Promise!Next]_<<role, invites, Found>>
<1>1. ASSUME NEW o \in Ops, RevokeInvite(o) PROVE Kept
  <2>1. op[o].invite \in Invites /\ opPc[o] = "update"
    BY <1>1, AsksHaveActors DEF RevokeInvite, OpsInv, InvitesHeld, InOp
  <2>2. op[o].invite \notin Found
    BY <1>1, <2>1, NoOpAssumption DEF RevokeInvite, FreeInvite, Found, OpsInv, InvitesHeld
  <2>3. Found' = Found
    BY <1>1, <2>1, FoundStays DEF RevokeInvite, EndOp, OpsInv, OpsTyped
  <2>4. Promise!Withdraw(op[o].invite)
    BY <1>1, <2>1, <2>2, <2>3, SettlesOne
    DEF RevokeInvite, memberVars, Promise!Withdraw, Promise!Open, Active
  <2>5. QED
    BY <2>1, <2>4 DEF Promise!Next
<1>2. ASSUME NEW i \in Invites, Expire(i) PROVE Kept
  <2>1. Found' = Found
    BY <1>2 DEF Expire, opVars, Found
  <2>2. QED
    BY <1>2, <2>1 DEF Expire, memberVars, Promise!Expire, Promise!Next
<1>3. ASSUME NEW o \in Ops,
             \/ CheckInviter(o) \/ RefuseInviter(o) \/ FindOpenInvites(o) \/ RevokeOpenInvite(o)
             \/ RevokeNothing(o) \/ LockInvite(o) \/ RefuseInvite(o) \/ InsertMembership(o)
             \/ LoseMembership(o) \/ OpDeadlockVictim(o) \/ ReceiveOp(o)
      PROVE  Kept
  <2>1. UNCHANGED <<role, invites>>
    BY <1>3 DEF CheckInviter, RefuseInviter, FindOpenInvites, RevokeOpenInvite, RevokeNothing,
       LockInvite, RefuseInvite, InsertMembership, LoseMembership, OpDeadlockVictim, ReceiveOp,
       FailOp, memberVars
  <2>2. Found' = Found
    <3>1. opPc[o] # "commit"
      BY <1>3 DEF CheckInviter, RefuseInviter, FindOpenInvites, RevokeOpenInvite, RevokeNothing,
         LockInvite, RefuseInvite, InsertMembership, LoseMembership, OpDeadlockVictim, ReceiveOp,
         OpDeadlocked, OpBlockers
    <3>2. /\ opPc'[o] # "commit"
          /\ \A p \in Ops \ {o} : opPc'[p] = opPc[p] /\ op'[p] = op[p] /\ inserted'[p] = inserted[p]
      BY <1>3 DEF CheckInviter, RefuseInviter, FindOpenInvites, RevokeOpenInvite, RevokeNothing,
         LockInvite, RefuseInvite, InsertMembership, LoseMembership, OpDeadlockVictim, ReceiveOp,
         FailOp, EndOp, OpsInv, OpsTyped
    <3>3. QED
      BY <3>1, <3>2, FoundStays
  <2>3. QED
    BY <2>1, <2>2
<1>4. ASSUME NEW q \in Requests, Receive(q) \/ Step(q) \/ CancelRequest(q),
             UNCHANGED <<invites, Found>>
      PROVE  Kept
  BY <1>4, ChangesRoles
  DEF Receive, Step, CancelRequest, ReadActor, RefuseActor, LockTarget, TargetNotFound,
      RefuseChange, FindOwners, LockOwner, RefuseLastOwner, DeadlockVictim, Fail
<1>5. ASSUME UNCHANGED inviteVars PROVE UNCHANGED <<invites, Found>>
  BY <1>5 DEF inviteVars, opVars, Found
<1>6. ASSUME UNCHANGED orgVars PROVE Kept
  BY <1>5, <1>6 DEF orgVars, memberVars
<1>7. QED
  BY <1>1, <1>2, <1>3, <1>4, <1>5, <1>6, InsertOffers, MarkFinds, CancelGivesUp, CommitAccepts
  DEF NextOrg, OpStep, MemberNext, MembersInv

(* The organization with invites implements Organization: whoever joins    *)
(* does so by an open invite of their own, with the role it names and in   *)
(* the step that uses it up; an invite ends once, and is used up without   *)
(* making a member only if its addressee was found to be one while it was  *)
(* open and held                                                           *)
(* (invites_service.go:56-84, 157-178, 196-275, members_service.go).       *)
THEOREM PromiseKept == OrgSpec => ImplementsOrganization
<1>1. InitOrg => Promise!Init
  BY DEF InitOrg, Init, Promise!Init, Promise!Owned, Found
<1>2. OrgSpec => []MembersInv
  BY InvitesImplementMembers, MembersInvariant, PTL DEF AsMembers
<1>3. MembersInv /\ MembersInv' /\ OpsInv /\ WorkOK /\ [NextOrg]_orgVars =>
        [Promise!Next]_<<role, invites, Found>>
  BY PromiseStep
<1>4. OpFlightsOK => WorkOK
  BY DEF OpFlightsOK
<1>5. QED
  BY <1>1, <1>2, <1>3, <1>4, OpsInvariant, WorkInvariant, PTL
  DEF OrgSpec, ImplementsOrganization, Promise!Spec

(* The rules for roles hold beside invites, and no role change waits for   *)
(* ever: invites take part in neither.                                     *)
THEOREM DecisionsHoldWithInvites == OrgSpec => DecidedOnCurrentRole
BY InvitesImplementMembers, DecisionsHold, PTL DEF AsMembers

THEOREM NobodyStrandedWithInvites == OrgSpec => []WaitsEnd
BY InvitesImplementMembers, NobodyStranded, PTL DEF AsMembers
=============================================================================
