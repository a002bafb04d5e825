----------------------------- MODULE OrgMembers -----------------------------
(***************************************************************************)
(* Role changes and removals in one organization (orgs/members_service.go).*)
(*                                                                         *)
(* UpdateMemberRole and RemoveMember are one transaction each: it reads    *)
(* the actor's role without a lock, locks the target's membership row,     *)
(* decides, locks the rows of all owners when an owner would be lost, and  *)
(* writes.  The database runs at READ COMMITTED, so a SELECT ... FOR       *)
(* UPDATE picks its rows in a snapshot, waits for each row that another    *)
(* transaction holds, and drops the row if its new version does not match. *)
(* A removal is a change to NotMember: both operations take the same path. *)
(***************************************************************************)
EXTENDS Naturals, FiniteSets

CONSTANTS Users, Requests,
          Asks     \* the changes that are asked for: actor, target, role

Low == {"MEMBER", "VIEWER"}
Roles == {"OWNER", "ADMIN"} \cup Low
NotMember == "none"
CanMutate(r) == r \in {"OWNER", "ADMIN"}

Ask == [actor : Users, target : Users, role : Roles \cup {NotMember}]

ASSUME OrgMembersAssumption == Asks \subseteq Ask

NoAsk == [actor |-> "no user"]
NoRequest == "no request"

ASSUME NoRequestAssumption == NoRequest \notin Requests

VARIABLES
    role,        \* org_memberships, as committed
    lock,        \* the transaction that holds a membership row
    pc,          \* a request's next step
    ask,         \* what it asks for
    actorRole,   \* the actor's role as it read it
    targetRole,  \* the target's role as it read it under the row lock
    toLock,      \* owners its FOR UPDATE statement has still to lock
    owners,      \* owners it has locked and counted
    outcome      \* how it ended

txVars == <<ask, actorRole, targetRole, toLock, owners>>
memberVars == <<role, lock, pc, txVars, outcome>>

InTx == {"actor", "target", "decide", "owners"}
Outcomes == {"none", "ok", "notMember", "forbidden", "memberNotFound",
             "lastOwner", "deadlock", "cancelled"}

\* CreateWithOwner leaves an organization with one owner; requests and invites
\* can take it from there to any assignment of roles that has an owner.
Init ==
    /\ role \in [Users -> Roles \cup {NotMember}]
    /\ \E u \in Users : role[u] = "OWNER"
    /\ lock = [u \in Users |-> NoRequest]
    /\ pc = [q \in Requests |-> "idle"]
    /\ ask = [q \in Requests |-> NoAsk]
    /\ actorRole = [q \in Requests |-> NotMember]
    /\ targetRole = [q \in Requests |-> NotMember]
    /\ toLock = [q \in Requests |-> {}]
    /\ owners = [q \in Requests |-> {}]
    /\ outcome = [q \in Requests |-> "none"]

-----------------------------------------------------------------------------
\* A bug: SELECT without FOR UPDATE.
AlwaysFree(u, q) == TRUE

Free(u, q) == lock[u] \in {NoRequest, q}

\* The rows a request may be waiting for, and their holders.
Wanted(q) ==
    CASE pc[q] = "target" -> {ask[q].target}
      [] pc[q] = "owners" -> toLock[q]
      [] OTHER -> {}

Blockers(q) == {lock[u] : u \in Wanted(q)} \ {NoRequest, q}

Deadlocked(q) ==
    \E D \in SUBSET Requests :
        /\ q \in D
        /\ \A d \in D : Blockers(d) \cap D # {} /\ \E e \in D : d \in Blockers(e)

\* The rules for an ADMIN: others only below ADMIN, and nobody raised above MEMBER.
AdminMay(q) ==
    /\ ask[q].target = ask[q].actor \/ targetRole[q] \in Low
    /\ ask[q].role \in Low \cup {NotMember}

\* A bug: RemoveMember forgets the last owner.
DemotesOwner(q) == targetRole[q] = "OWNER" /\ ask[q].role \notin {"OWNER", NotMember}

LosesOwner(q) == targetRole[q] = "OWNER" /\ ask[q].role # "OWNER"

\* A bug: the rows of a transaction stay locked when it ends.
KeepsLocks(q) == lock

Unlocked(q) == [u \in Users |-> IF lock[u] = q THEN NoRequest ELSE lock[u]]

\* The transaction ends and releases its rows.
EndRequest(q, how) ==
    /\ pc' = [pc EXCEPT ![q] = "done"]
    /\ outcome' = [outcome EXCEPT ![q] = how]
    /\ lock' = Unlocked(q)
    /\ toLock' = [toLock EXCEPT ![q] = {}]
    /\ owners' = [owners EXCEPT ![q] = {}]
    /\ actorRole' = [actorRole EXCEPT ![q] = NotMember]
    /\ targetRole' = [targetRole EXCEPT ![q] = NotMember]
    /\ UNCHANGED ask

Fail(q, how) == EndRequest(q, how) /\ UNCHANGED role

Receive(q) ==
    /\ pc[q] = "idle"
    /\ ask' \in {[ask EXCEPT ![q] = a] : a \in Asks}
    /\ pc' = [pc EXCEPT ![q] = "actor"]
    /\ UNCHANGED <<role, lock, actorRole, targetRole, toLock, owners, outcome>>

\* SELECT role of the actor, without a lock.
ReadActor(q) ==
    /\ pc[q] = "actor"
    /\ CanMutate(role[ask[q].actor])
    /\ actorRole' = [actorRole EXCEPT ![q] = role[ask[q].actor]]
    /\ pc' = [pc EXCEPT ![q] = "target"]
    /\ UNCHANGED <<role, lock, ask, targetRole, toLock, owners, outcome>>

RefuseActor(q) ==
    /\ pc[q] = "actor"
    /\ ~CanMutate(role[ask[q].actor])
    /\ Fail(q, IF role[ask[q].actor] = NotMember THEN "notMember" ELSE "forbidden")

\* SELECT role of the target FOR UPDATE.
LockTarget(q) ==
    /\ pc[q] = "target"
    /\ Free(ask[q].target, q)
    /\ role[ask[q].target] # NotMember
    /\ lock' = [lock EXCEPT ![ask[q].target] = q]
    /\ targetRole' = [targetRole EXCEPT ![q] = role[ask[q].target]]
    /\ pc' = [pc EXCEPT ![q] = "decide"]
    /\ UNCHANGED <<role, ask, actorRole, toLock, owners, outcome>>

TargetNotFound(q) ==
    /\ pc[q] = "target"
    /\ role[ask[q].target] = NotMember
    /\ Fail(q, "memberNotFound")

Permitted(q) == actorRole[q] = "ADMIN" => AdminMay(q)

RefuseChange(q) ==
    /\ pc[q] = "decide"
    /\ ~Permitted(q)
    /\ Fail(q, "forbidden")

\* SELECT the owners FOR UPDATE: the statement's snapshot, then row by row.
FindOwners(q) ==
    /\ pc[q] = "decide"
    /\ Permitted(q) /\ LosesOwner(q)
    /\ toLock' = [toLock EXCEPT ![q] = {u \in Users : role[u] = "OWNER"}]
    /\ pc' = [pc EXCEPT ![q] = "owners"]
    /\ UNCHANGED <<role, lock, ask, actorRole, targetRole, owners, outcome>>

LockOwner(q) ==
    /\ pc[q] = "owners"
    /\ \E u \in toLock[q] :
         /\ Free(u, q)
         /\ toLock' = [toLock EXCEPT ![q] = @ \ {u}]
         /\ IF role[u] = "OWNER"
            THEN /\ lock' = [lock EXCEPT ![u] = q]
                 /\ owners' = [owners EXCEPT ![q] = @ \cup {u}]
            ELSE UNCHANGED <<lock, owners>>
    /\ UNCHANGED <<role, pc, ask, actorRole, targetRole, outcome>>

RefuseLastOwner(q) ==
    /\ pc[q] = "owners"
    /\ toLock[q] = {}
    /\ Cardinality(owners[q]) <= 1
    /\ Fail(q, "lastOwner")

\* UPDATE or DELETE, and COMMIT, whose answer may be lost.
CommitChange(q) ==
    /\ \/ pc[q] = "decide" /\ Permitted(q) /\ ~LosesOwner(q)
       \/ pc[q] = "owners" /\ toLock[q] = {} /\ Cardinality(owners[q]) > 1
    /\ role' = [role EXCEPT ![ask[q].target] = ask[q].role]
    /\ \E how \in {"ok", "cancelled"} : EndRequest(q, how)

DeadlockVictim(q) ==
    /\ Deadlocked(q)
    /\ Fail(q, "deadlock")

\* The client leaves, or the server or its connection dies: rolled back.
CancelRequest(q) ==
    /\ pc[q] \in InTx
    /\ Fail(q, "cancelled")

\* AcceptInvite inserts a membership; invites are never for OWNER.
Join(u, r) ==
    /\ role[u] = NotMember
    /\ r \in Roles \ {"OWNER"}
    /\ role' = [role EXCEPT ![u] = r]
    /\ UNCHANGED <<lock, pc, txVars, outcome>>

Step(q) ==
    \/ ReadActor(q)
    \/ RefuseActor(q)
    \/ LockTarget(q)
    \/ TargetNotFound(q)
    \/ RefuseChange(q)
    \/ FindOwners(q)
    \/ LockOwner(q)
    \/ RefuseLastOwner(q)
    \/ CommitChange(q)
    \/ DeadlockVictim(q)

MemberNext == \E q \in Requests : Receive(q) \/ Step(q) \/ CancelRequest(q)

Next ==
    \/ MemberNext
    \/ \E u \in Users, r \in Roles : Join(u, r)

Spec == Init /\ [][Next]_memberVars

\* A received request keeps running, and PostgreSQL breaks its deadlocks.
Fairness == \A q \in Requests : WF_memberVars(Step(q))

FairSpec == Spec /\ Fairness
-----------------------------------------------------------------------------
\* Every variable has its type.
MembersTypeOK ==
    /\ role \in [Users -> Roles \cup {NotMember}]
    /\ lock \in [Users -> Requests \cup {NoRequest}]
    /\ pc \in [Requests -> {"idle", "done"} \cup InTx]
    /\ ask \in [Requests -> Asks \cup {NoAsk}]
    /\ actorRole \in [Requests -> Roles \cup {NotMember}]
    /\ targetRole \in [Requests -> Roles \cup {NotMember}]
    /\ toLock \in [Requests -> SUBSET Users]
    /\ owners \in [Requests -> SUBSET Users]
    /\ outcome \in [Requests -> Outcomes]

\* An organization never loses its last owner, whatever demotions, removals and
\* departures of owners run at the same time, each having counted two owners.
HasOwner == \E u \in Users : role[u] = "OWNER"

Commits(q) == outcome[q] = "none" /\ outcome'[q] = "ok"

\* A change is applied to exactly the role it was decided for (and that the audit
\* log records as the previous one), and a request authorised as ADMIN never
\* takes OWNER or ADMIN away from someone else, even from a user who was promoted
\* while the request was under way.
DecidedOnCurrentRole ==
    [][\A q \in Requests : Commits(q) =>
         LET a == ask[q] IN
         /\ role[a.target] = targetRole[q]
         /\ actorRole[q] = "ADMIN" /\ a.target # a.actor =>
              role[a.target] \in Low /\ a.role \in Low \cup {NotMember}]_memberVars

\* Every change request is answered: owners who demote each other deadlock on
\* their rows and do not hang.
Answered == \A q \in Requests : pc[q] = "actor" ~> pc[q] = "done"

\* The request goes on by itself: it waits for nobody, or PostgreSQL fails it.
Proceeds(q) == pc[q] \in InTx /\ (Blockers(q) = {} \/ Deadlocked(q))

\* However requests lock targets and owners, nobody is left waiting: follow who waits
\* for whom from any request, and there is one that goes on.
WaitsEnd ==
    \A W \in SUBSET Requests :
        /\ \E q \in W : pc[q] \in InTx
        /\ \A q \in W : Blockers(q) \subseteq W
        => \E q \in W : Proceeds(q)

-----------------------------------------------------------------------------
(* Why an owner remains, and waits end *)

\* A request that has locked the target, or has counted an owner, holds the row, so
\* what it read is still there.
RowsHeld ==
    \A q \in Requests :
        /\ pc[q] \in InTx => ask[q] \in Asks
        /\ pc[q] \in {"decide", "owners"} =>
             /\ lock[ask[q].target] = q
             /\ role[ask[q].target] = targetRole[q]
             /\ targetRole[q] # NotMember
        /\ pc[q] = "owners" => Permitted(q)
        /\ pc[q] # "owners" => owners[q] = {}
        /\ \A u \in owners[q] : lock[u] = q /\ role[u] = "OWNER"

\* A row is locked by a request that is under way.
HoldersRun == \A u \in Users : lock[u] # NoRequest => pc[lock[u]] \in {"decide", "owners"}

MembersInv ==
    /\ MembersTypeOK
    /\ RowsHeld
    /\ HasOwner
=============================================================================
