-------------------------- MODULE OrgMembersProofs --------------------------
(***************************************************************************)
(* An organization always has an owner.  The argument: a request that      *)
(* takes the role from an owner holds the rows of two users who are owners *)
(* (RowsHeld), nobody else can change a row it holds, and its own change   *)
(* concerns one of them.                                                   *)
(***************************************************************************)
EXTENDS OrgMembers, FiniteLemmas

(* Two counted owners: one of them is not the target.                      *)
LEMMA AnotherOwner ==
    ASSUME NEW S, NEW t, Cardinality(S) > 1
    PROVE  \E u \in S : u # t
<1> SUFFICES ASSUME \A u \in S : u = t PROVE FALSE
  OBVIOUS
<1>1. S \subseteq {t}
  OBVIOUS
<1>2. IsFiniteSet({t}) /\ Cardinality({t}) = 1
  BY FS_Singleton
<1>3. Cardinality(S) <= 1 /\ Cardinality(S) \in Nat
  BY <1>1, <1>2, FS_Subset, FS_CardinalityType
<1>4. QED
  BY <1>3

LEMMA InitMembers == Init => MembersInv
BY NoRequestAssumption
DEF Init, MembersInv, MembersTypeOK, RowsHeld, HasOwner, InTx, Outcomes

(* A request that ends without a change disturbs nobody.                   *)
LEMMA FailKeeps ==
    ASSUME MembersInv, NEW q \in Requests, NEW how \in Outcomes, Fail(q, how)
    PROVE  MembersInv'
<1> USE DEF MembersInv, Fail, EndRequest, Unlocked, InTx
<1>1. MembersTypeOK'
  BY DEF MembersTypeOK
<1>2. RowsHeld'
  <2>1. \A p \in Requests \ {q} :
          /\ pc'[p] = pc[p] /\ owners'[p] = owners[p]
          /\ actorRole'[p] = actorRole[p] /\ targetRole'[p] = targetRole[p]
    BY DEF MembersTypeOK
  <2>2. \A p \in Requests \ {q}, u \in Users : lock[u] = p => lock'[u] = p
    BY DEF MembersTypeOK
  <2>3. \A p \in Requests : pc[p] \in InTx => ask[p].target \in Users
    BY OrgMembersAssumption DEF RowsHeld, Ask
  <2>4. \A p \in Requests : owners[p] \subseteq Users
    BY DEF MembersTypeOK
  <2>5. pc'[q] = "done" /\ owners'[q] = {}
    BY DEF MembersTypeOK
  <2>6. ask' = ask /\ role' = role
    OBVIOUS
  <2>7. QED
    BY <2>1, <2>2, <2>3, <2>4, <2>5, <2>6 DEF RowsHeld, Permitted, AdminMay
<1>3. HasOwner'
  BY DEF HasOwner
<1>4. QED
  BY <1>1, <1>2, <1>3

(* The change itself: the owners it counted are held and still owners.     *)
LEMMA CommitKeeps ==
    ASSUME MembersInv, NEW q \in Requests, CommitChange(q)
    PROVE  MembersInv'
<1> USE NoRequestAssumption DEF MembersInv, InTx
<1> DEFINE t == ask[q].target
<1>1. /\ pc[q] \in {"decide", "owners"} /\ ask[q] \in Asks
      /\ lock[t] = q /\ role[t] = targetRole[q]
  BY DEF CommitChange, RowsHeld
<1>2. t \in Users /\ ask[q].role \in Roles \cup {NotMember}
  BY <1>1, OrgMembersAssumption DEF Ask
<1>3. \A u \in Users : role'[u] = IF u = t THEN ask[q].role ELSE role[u]
  BY <1>2 DEF CommitChange, MembersTypeOK
<1>4. MembersTypeOK'
  <2>1. role' \in [Users -> Roles \cup {NotMember}]
    BY <1>2 DEF CommitChange, MembersTypeOK
  <2>2. QED
    BY <2>1 DEF CommitChange, EndRequest, Unlocked, MembersTypeOK, Outcomes
<1>5. RowsHeld'
  <2> SUFFICES ASSUME NEW p \in Requests
               PROVE  /\ pc'[p] \in InTx => ask'[p] \in Asks
                      /\ pc'[p] \in {"decide", "owners"} =>
                           /\ lock'[ask'[p].target] = p
                           /\ role'[ask'[p].target] = targetRole'[p]
                           /\ targetRole'[p] # NotMember
                      /\ pc'[p] = "owners" => Permitted(p)'
                      /\ pc'[p] # "owners" => owners'[p] = {}
                      /\ \A u \in owners'[p] : lock'[u] = p /\ role'[u] = "OWNER"
    BY DEF RowsHeld
  <2>1. CASE p = q
    BY <2>1 DEF CommitChange, EndRequest, MembersTypeOK
  <2>2. CASE p # q
    <3>1. /\ pc'[p] = pc[p] /\ ask' = ask /\ targetRole'[p] = targetRole[p]
          /\ owners'[p] = owners[p] /\ actorRole'[p] = actorRole[p]
      BY <2>2 DEF CommitChange, EndRequest, MembersTypeOK
    <3>2. \A u \in Users : lock[u] = p => lock'[u] = p /\ role'[u] = role[u]
      BY <1>1, <1>3, <2>2 DEF CommitChange, EndRequest, Unlocked, MembersTypeOK
    <3>3. pc[p] \in {"decide", "owners"} => ask[p].target \in Users
      BY OrgMembersAssumption DEF RowsHeld, Ask
    <3>4. owners[p] \subseteq Users
      BY DEF MembersTypeOK
    <3>5. QED
      BY <3>1, <3>2, <3>3, <3>4 DEF RowsHeld, Permitted, AdminMay
  <2>3. QED
    BY <2>1, <2>2
<1>6. HasOwner'
  <2>1. CASE ~LosesOwner(q)
    BY <1>1, <1>2, <1>3, <2>1 DEF HasOwner, LosesOwner
  <2>2. CASE pc[q] = "owners"
    <3>1. PICK u \in owners[q] : u # t
      BY <2>2, AnotherOwner DEF CommitChange
    <3>2. u \in Users /\ role[u] = "OWNER"
      BY <3>1 DEF MembersTypeOK, RowsHeld
    <3>3. QED
      BY <1>3, <3>1, <3>2 DEF HasOwner
  <2>3. QED
    BY <2>1, <2>2 DEF CommitChange
<1>7. QED
  BY <1>4, <1>5, <1>6

LEMMA MembersStep ==
    ASSUME MembersInv, [Next]_memberVars
    PROVE  MembersInv'
<1> USE DEF MembersInv, InTx
<1>1. ASSUME NEW q \in Requests, Receive(q) PROVE MembersInv'
  BY <1>1 DEF Receive, MembersTypeOK, RowsHeld, Permitted, AdminMay, HasOwner
<1>2. ASSUME NEW q \in Requests, ReadActor(q) PROVE MembersInv'
  <2>1. ask[q].actor \in Users
    BY <1>2, OrgMembersAssumption DEF ReadActor, RowsHeld, Ask
  <2>2. QED
    BY <1>2, <2>1 DEF ReadActor, MembersTypeOK, RowsHeld, Permitted, AdminMay, HasOwner
<1>3. ASSUME NEW q \in Requests, LockTarget(q) PROVE MembersInv'
  <2>1. ask[q] \in Asks /\ ask[q].target \in Users
    BY <1>3, OrgMembersAssumption DEF LockTarget, RowsHeld, Ask
  <2>2. MembersTypeOK'
    BY <1>3, <2>1 DEF LockTarget, MembersTypeOK
  <2>3. RowsHeld'
    <3>1. \A p \in Requests, u \in Users : lock[u] = p => lock'[u] = p
      BY <1>3, <2>1, NoRequestAssumption DEF LockTarget, Free, MembersTypeOK
    <3>2. \A p \in Requests : pc[p] \in InTx => ask[p].target \in Users
      BY OrgMembersAssumption DEF RowsHeld, Ask
    <3>3. \A p \in Requests : owners[p] \subseteq Users
      BY DEF MembersTypeOK
    <3>4. QED
      BY <1>3, <2>1, <3>1, <3>2, <3>3 DEF LockTarget, MembersTypeOK, RowsHeld, Permitted, AdminMay
  <2>4. QED
    BY <1>3, <2>2, <2>3 DEF LockTarget, HasOwner
<1>4. ASSUME NEW q \in Requests, FindOwners(q) PROVE MembersInv'
  BY <1>4 DEF FindOwners, MembersTypeOK, RowsHeld, Permitted, AdminMay, HasOwner
<1>5. ASSUME NEW q \in Requests, LockOwner(q) PROVE MembersInv'
  <2>1. PICK u \in toLock[q] :
          /\ Free(u, q)
          /\ toLock' = [toLock EXCEPT ![q] = @ \ {u}]
          /\ IF role[u] = "OWNER"
             THEN /\ lock' = [lock EXCEPT ![u] = q]
                  /\ owners' = [owners EXCEPT ![q] = @ \cup {u}]
             ELSE UNCHANGED <<lock, owners>>
    BY <1>5 DEF LockOwner
  <2>2. u \in Users
    BY <2>1 DEF MembersTypeOK
  <2>3. MembersTypeOK'
    BY <1>5, <2>1, <2>2 DEF LockOwner, MembersTypeOK
  <2>4. RowsHeld'
    <3>1. \A p \in Requests, v \in Users : lock[v] = p => lock'[v] = p
      BY <2>1, <2>2, NoRequestAssumption DEF Free, MembersTypeOK
    <3>2. \A p \in Requests : pc[p] \in InTx => ask[p].target \in Users
      BY OrgMembersAssumption DEF RowsHeld, Ask
    <3>3. \A p \in Requests : owners[p] \subseteq Users
      BY DEF MembersTypeOK
    <3>4. \A p \in Requests : \A v \in owners'[p] : lock'[v] = p /\ role'[v] = "OWNER"
      BY <1>5, <2>1, <2>2, <3>1, <3>3 DEF LockOwner, MembersTypeOK, RowsHeld, Permitted, AdminMay
    <3>5. \A p \in Requests : pc'[p] # "owners" => owners'[p] = {}
      BY <1>5, <2>1 DEF LockOwner, MembersTypeOK, RowsHeld, Permitted, AdminMay
    <3>6. QED
      BY <1>5, <3>1, <3>2, <3>4, <3>5 DEF LockOwner, RowsHeld, Permitted, AdminMay
  <2>5. QED
    BY <1>5, <2>3, <2>4 DEF LockOwner, HasOwner
<1>6. ASSUME NEW q \in Requests,
             RefuseActor(q) \/ TargetNotFound(q) \/ RefuseChange(q) \/ RefuseLastOwner(q)
               \/ DeadlockVictim(q) \/ CancelRequest(q)
      PROVE  MembersInv'
  BY <1>6, FailKeeps DEF RefuseActor, TargetNotFound, RefuseChange, RefuseLastOwner,
     DeadlockVictim, CancelRequest, Outcomes
<1>7. ASSUME NEW u \in Users, NEW r \in Roles, Join(u, r) PROVE MembersInv'
  <2>1. \A v \in Users : role[v] # NotMember => role'[v] = role[v]
    BY <1>7 DEF Join, MembersTypeOK
  <2>2. NotMember # "OWNER"
    BY DEF NotMember
  <2>3. \A p \in Requests : pc[p] \in {"decide", "owners"} => ask[p].target \in Users
    BY OrgMembersAssumption DEF RowsHeld, Ask
  <2>4. \A p \in Requests : owners[p] \subseteq Users
    BY DEF MembersTypeOK
  <2>5. MembersTypeOK'
    BY <1>7 DEF Join, MembersTypeOK, txVars
  <2>6. RowsHeld'
    BY <1>7, <2>1, <2>2, <2>3, <2>4 DEF Join, RowsHeld, Permitted, AdminMay, txVars
  <2>7. HasOwner'
    BY <2>1, <2>2 DEF HasOwner
  <2>8. QED
    BY <2>5, <2>6, <2>7
<1>8. ASSUME UNCHANGED memberVars PROVE MembersInv'
  BY <1>8 DEF memberVars, txVars, MembersTypeOK, RowsHeld, Permitted, AdminMay, HasOwner
<1>9. QED
  BY <1>1, <1>2, <1>3, <1>4, <1>5, <1>6, <1>7, <1>8, CommitKeeps DEF Next, MemberNext, Step

(* The inductive invariant holds in every reachable state.                 *)
THEOREM MembersInvariant == Spec => []MembersInv
<1>1. MembersInv /\ [Next]_memberVars => MembersInv'
  BY MembersStep
<1>2. QED
  BY <1>1, InitMembers, PTL DEF Spec

(* An organization never loses its last owner, however many requests       *)
(* demote and remove owners at once (members_service.go:68-90, 150-172).   *)
THEOREM OwnerRemains == Spec => []HasOwner
<1>1. MembersInv => HasOwner
  BY DEF MembersInv
<1>2. QED
  BY <1>1, MembersInvariant, PTL

(* A change is applied to the role it was decided for, and never takes     *)
(* OWNER or ADMIN from another user on an ADMIN's authority                *)
(* (members_service.go:40-66, 131-148).                                    *)
THEOREM DecisionsHold == Spec => DecidedOnCurrentRole
<1> DEFINE Decided(q) ==
             Commits(q) =>
               /\ role[ask[q].target] = targetRole[q]
               /\ actorRole[q] = "ADMIN" /\ ask[q].target # ask[q].actor =>
                    role[ask[q].target] \in Low /\ ask[q].role \in Low \cup {NotMember}
<1>1. MembersInv /\ [Next]_memberVars => \A q \in Requests : Decided(q)
  <2> SUFFICES ASSUME MembersInv, [Next]_memberVars, NEW q \in Requests, Commits(q)
               PROVE  /\ role[ask[q].target] = targetRole[q]
                      /\ actorRole[q] = "ADMIN" /\ ask[q].target # ask[q].actor =>
                           role[ask[q].target] \in Low /\ ask[q].role \in Low \cup {NotMember}
    OBVIOUS
  <2>1. outcome[q] = "none" /\ outcome'[q] = "ok"
    BY DEF Commits
  <2>2. CommitChange(q)
    BY <2>1 DEF Next, MemberNext, Step, Receive, ReadActor, RefuseActor, LockTarget, TargetNotFound,
       RefuseChange, FindOwners, LockOwner, RefuseLastOwner, CommitChange, DeadlockVictim,
       CancelRequest, Join, Fail, EndRequest, memberVars, MembersInv, MembersTypeOK
  <2>3. QED
    BY <2>2 DEF CommitChange, MembersInv, RowsHeld, Permitted, AdminMay
<1>2. QED
  BY <1>1, MembersInvariant, PTL DEF Spec, DecidedOnCurrentRole

-----------------------------------------------------------------------------
(* Waits end: whoever holds a row is under way and finitely many requests  *)
(* are, so that a group which waits only for one another has a circle, and *)
(* PostgreSQL fails somebody in it.                                        *)

InFlight == {q \in Requests : pc[q] \in InTx}

FlightsOK == HoldersRun /\ IsFiniteSet(InFlight)

(* One request moves, and leaves its rows when it ends.                    *)
LEMMA HoldersStep ==
    ASSUME MembersTypeOK, HoldersRun, [Next]_memberVars
    PROVE  HoldersRun'
<1> USE NoRequestAssumption DEF HoldersRun
<1>1. ASSUME NEW q \in Requests, NEW how, EndRequest(q, how) PROVE HoldersRun'
  BY <1>1 DEF EndRequest, Unlocked, MembersTypeOK
<1>2. ASSUME NEW q \in Requests, Receive(q) \/ ReadActor(q) \/ FindOwners(q) PROVE HoldersRun'
  BY <1>2 DEF Receive, ReadActor, FindOwners, MembersTypeOK
<1>3. ASSUME NEW q \in Requests, LockTarget(q) PROVE HoldersRun'
  BY <1>3 DEF LockTarget, MembersTypeOK
<1>4. ASSUME NEW q \in Requests, LockOwner(q) PROVE HoldersRun'
  BY <1>4 DEF LockOwner, MembersTypeOK
<1>5. ASSUME UNCHANGED <<lock, pc>> PROVE HoldersRun'
  BY <1>5
<1>6. QED
  BY <1>1, <1>2, <1>3, <1>4, <1>5
  DEF Next, MemberNext, Step, RefuseActor, TargetNotFound, RefuseChange, RefuseLastOwner,
      CommitChange, DeadlockVictim, CancelRequest, Fail, Join, memberVars

(* Requests come one by one.                                               *)
LEMMA FlightStep ==
    ASSUME MembersTypeOK, [Next]_memberVars, IsFiniteSet(InFlight)
    PROVE  IsFiniteSet(InFlight')
<1>1. ASSUME NEW q \in Requests, NEW step, pc' = [pc EXCEPT ![q] = step]
      PROVE  InFlight' \subseteq InFlight \cup {q}
  BY <1>1 DEF InFlight, MembersTypeOK
<1>2. ASSUME UNCHANGED pc PROVE InFlight' = InFlight
  BY <1>2 DEF InFlight
<1>3. InFlight' = InFlight \/ \E q \in Requests : InFlight' \subseteq InFlight \cup {q}
  BY <1>1, <1>2
  DEF Next, MemberNext, Step, Receive, ReadActor, RefuseActor, LockTarget, TargetNotFound,
      RefuseChange, FindOwners, LockOwner, RefuseLastOwner, CommitChange, DeadlockVictim,
      CancelRequest, Fail, EndRequest, Join, memberVars
<1>4. QED
  BY <1>3, FS_AddElement, FS_Subset

LEMMA FlightsInvariant == Spec => []FlightsOK
<1>1. Init => FlightsOK
  <2> SUFFICES ASSUME Init PROVE FlightsOK
    OBVIOUS
  <2>1. HoldersRun
    BY DEF Init, HoldersRun
  <2>2. InFlight = {}
    BY DEF Init, InFlight, InTx
  <2>3. QED
    BY <2>1, <2>2, FS_EmptySet DEF FlightsOK
<1>2. MembersInv /\ FlightsOK /\ [Next]_memberVars => FlightsOK'
  BY HoldersStep, FlightStep DEF MembersInv, FlightsOK
<1>3. QED
  BY <1>1, <1>2, MembersInvariant, PTL DEF Spec

(* A request waits for others, who hold rows.                              *)
LEMMA BlockersHold ==
    ASSUME MembersInv, HoldersRun, NEW q \in Requests
    PROVE  Blockers(q) \subseteq InFlight \ {q}
<1>1. pc[q] \in InTx => ask[q].target \in Users
  BY OrgMembersAssumption DEF MembersInv, RowsHeld, Ask
<1>2. Wanted(q) \subseteq Users
  BY <1>1 DEF Wanted, MembersInv, MembersTypeOK, InTx
<1>3. QED
  BY <1>2 DEF Blockers, HoldersRun, InFlight, InTx, MembersInv, MembersTypeOK

LEMMA GroupsProceed == MembersInv /\ FlightsOK => WaitsEnd
<1> SUFFICES ASSUME MembersInv, FlightsOK, NEW W \in SUBSET Requests, NEW p \in W,
                    pc[p] \in InTx, \A q \in W : Blockers(q) \subseteq W,
                    \A q \in W : ~Proceeds(q)
             PROVE  FALSE
  BY DEF WaitsEnd
<1> DEFINE G == InFlight \cap W
           waitsFor == [q \in Requests |-> Blockers(q)]
<1>1. IsFiniteSet(G) /\ p \in G
  BY FS_Intersection DEF FlightsOK, InFlight
<1>2. \A q \in G : waitsFor[q] \cap G # {} /\ q \notin waitsFor[q]
  BY BlockersHold DEF FlightsOK, Proceeds, InFlight
<1>3. PICK D \in SUBSET G : D # {} /\ IsCircle(D, waitsFor)
  <2> HIDE DEF G, waitsFor
  <2> QED
    BY <1>1, <1>2, SomeCircle
<1>4. \A d \in D : Deadlocked(d)
  BY <1>3 DEF IsCircle, Deadlocked
<1>5. QED
  BY <1>3, <1>4 DEF Proceeds, InFlight

(* However requests lock targets and owners, for any number of them, from  *)
(* every one that waits one finds another that goes on, or that PostgreSQL *)
(* fails (members_service.go:41-70, 132-152).                              *)
THEOREM NobodyStranded == Spec => []WaitsEnd
BY GroupsProceed, MembersInvariant, FlightsInvariant, PTL
=============================================================================
