---------------------------- MODULE FiniteLemmas ----------------------------
(***************************************************************************)
(* Two facts about finite sets that several proofs need: numbers have a    *)
(* least one, and in a finite set in which everyone waits for somebody     *)
(* there is a circle, as the deadlock detection of a database looks for.   *)
(***************************************************************************)
EXTENDS FiniteSetTheorems, WellFoundedInduction, TLAPS

(* Numbers that are there have a least one.                                *)
LEMMA LeastNumber ==
    ASSUME NEW S, S \subseteq Nat, S # {}
    PROVE  \E m \in S : \A n \in S : m <= n
<1> DEFINE Segments == {0..n : n \in S}
<1>1. Segments \subseteq FiniteSubsetsOf(Nat)
  <2>1. ASSUME NEW n \in S PROVE 0..n \in FiniteSubsetsOf(Nat)
    <3>1. n \in Int /\ 0 \in Int
      OBVIOUS
    <3>2. IsFiniteSet(0..n) /\ 0..n \subseteq Nat
      BY <3>1, FS_Interval
    <3>3. QED
      BY <3>2 DEF FiniteSubsetsOf
  <2>2. QED
    BY <2>1
<1>2. Segments # {}
  OBVIOUS
<1>3. PICK s \in Segments :
         \A t \in Segments : <<t, s>> \notin StrictSubsetOrdering(Nat)
  <2> HIDE DEF Segments
  <2> QED
    BY <1>1, <1>2, FS_StrictSubsetOrderingWellFounded, WFMin
<1>4. PICK m \in S : s = 0..m
  OBVIOUS
<1>5. ASSUME NEW k \in S, k < m PROVE FALSE
  <2>1. 0..k \subseteq 0..m /\ 0..k # 0..m /\ 0..k \in SUBSET Nat /\ 0..m \in SUBSET Nat
    BY <1>5
  <2>2. <<0..k, 0..m>> \in StrictSubsetOrdering(Nat)
    BY <2>1 DEF StrictSubsetOrdering
  <2>3. QED
    BY <1>3, <1>4, <2>2
<1>6. QED
  BY <1>5

(* Everyone in D waits for a member of it and is waited for by a member.   *)
IsCircle(D, waitsFor) ==
    \A d \in D : waitsFor[d] \cap D # {} /\ \E e \in D : d \in waitsFor[e]

(* Where everyone waits for somebody, and nobody for themselves, somebody  *)
(* is in a circle: take a smallest group of those who wait for each other, *)
(* and leave out a member whom nobody waits for.                           *)
LEMMA SomeCircle ==
    ASSUME NEW W, IsFiniteSet(W), W # {}, NEW waitsFor,
           \A q \in W : waitsFor[q] \cap W # {} /\ q \notin waitsFor[q]
    PROVE  \E D \in SUBSET W : D # {} /\ IsCircle(D, waitsFor)
<1> DEFINE Groups == {D \in SUBSET W : D # {} /\ \A d \in D : waitsFor[d] \cap D # {}}
<1>1. Groups \subseteq FiniteSubsetsOf(W) /\ W \in Groups
  BY FS_Subset DEF FiniteSubsetsOf
<1>2. PICK D \in Groups : \A E \in Groups : <<E, D>> \notin StrictSubsetOrdering(W)
  <2> HIDE DEF Groups
  <2> QED
    BY <1>1, FS_StrictSubsetOrderingWellFounded, WFMin
<1>3. ASSUME NEW d \in D, \A e \in D : d \notin waitsFor[e] PROVE FALSE
  <2>1. D \ {d} \in Groups
    BY <1>3
  <2>2. <<D \ {d}, D>> \in StrictSubsetOrdering(W)
    BY <1>3 DEF StrictSubsetOrdering
  <2>3. QED
    BY <1>2, <2>1, <2>2
<1>4. QED
  BY <1>3 DEF IsCircle
=============================================================================
