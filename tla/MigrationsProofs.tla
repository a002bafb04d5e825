-------------------------- MODULE MigrationsProofs --------------------------
(***************************************************************************)
(* Migrations for every number of servers, files and crashes: files are    *)
(* applied and recorded in order, and nobody serves on half a schema.      *)
(***************************************************************************)
EXTENDS Migrations, FiniteLemmas

(* What a server has read is part of what is recorded, from the first file *)
(* on, and the file it is about to record is in the schema                 *)
(* (migrations.go:86-150).                                                 *)
BeliefsOK ==
    \A s \in Servers :
        /\ pc[s] \in {"apply", "record", "serving"} =>
             applied[s] \subseteq recorded /\ IsPrefix(applied[s])
        /\ pc[s] = "record" => Pending(s) \subseteq schema
        /\ pc[s] = "serving" => recorded = Migration

TablesOK ==
    /\ recorded \subseteq schema /\ IsPrefix(schema) /\ IsPrefix(recorded)
    /\ \A m, n \in schema \ recorded : m = n

MigrationsTypeOK ==
    /\ schema \in SUBSET Migration /\ recorded \in SUBSET Migration
    /\ pc \in [Servers -> {"down", "list", "apply", "record", "serving"}]
    /\ applied \in [Servers -> SUBSET Migration]

MigrationsInv == MigrationsTypeOK /\ TablesOK /\ BeliefsOK

(* Below a pending file everything is recorded.                            *)
LEMMA PendingFollows ==
    ASSUME MigrationsInv, NEW s \in Servers, pc[s] \in {"apply", "record"},
           NEW m \in Pending(s)
    PROVE  /\ m \in Migration /\ m \notin applied[s]
           /\ \A n \in 1 .. m : n # m => n \in applied[s] /\ n \in recorded
BY MigrationsAssumption
DEF MigrationsInv, MigrationsTypeOK, BeliefsOK, Pending, Migration

(* A prefix that lacks a file ends before it.                              *)
LEMMA PrefixEnds ==
    ASSUME NEW S \in SUBSET Migration, IsPrefix(S), NEW m \in Migration, m \notin S
    PROVE  \A n \in S : n < m
BY MigrationsAssumption DEF IsPrefix, Migration

(* A prefix grows by the next file.                                        *)
LEMMA PrefixGrows ==
    ASSUME NEW S \in SUBSET Migration, IsPrefix(S), NEW m \in Migration,
           \A n \in 1 .. m : n # m => n \in S
    PROVE  IsPrefix(S \cup {m})
BY DEF IsPrefix

LEMMA ApplyKeeps ==
    ASSUME MigrationsInv, NEW s \in Servers, Apply(s)
    PROVE  MigrationsInv'
<1> USE DEF MigrationsInv
<1>1. PICK m \in Pending(s) : schema' = schema \cup {m}
  BY DEF Apply
<1>2. /\ m \in Migration /\ m \notin applied[s]
      /\ \A n \in 1 .. m : n # m => n \in applied[s] /\ n \in recorded
  BY PendingFollows DEF Apply
<1>3. MigrationsTypeOK'
  BY <1>1, <1>2 DEF Apply, Goto, MigrationsTypeOK
<1>4. TablesOK'
  <2>1. recorded' = recorded /\ recorded \subseteq schema
    BY DEF Apply, TablesOK
  <2>2. IsPrefix(schema')
    BY <1>1, <1>2, <2>1, PrefixGrows DEF MigrationsTypeOK, TablesOK
  <2>3. IsPrefix(recorded')
    BY <2>1 DEF TablesOK, IsPrefix
  <2>4. CASE m \in schema
    BY <1>1, <2>1, <2>2, <2>3, <2>4 DEF TablesOK
  <2>5. CASE m \notin schema
    <3>1. ASSUME NEW n \in schema PROVE n \in recorded
      <4>1. n < m /\ n \in Migration /\ m \in Nat
        BY <1>2, <2>5, PrefixEnds, MigrationsAssumption
        DEF MigrationsTypeOK, TablesOK, Migration
      <4>2. n \in 1 .. m /\ n # m
        BY <4>1, MigrationsAssumption DEF Migration
      <4>3. QED
        BY <1>2, <4>2
    <3>2. QED
      BY <1>1, <2>1, <2>2, <2>3, <3>1 DEF TablesOK
  <2>6. QED
    BY <2>4, <2>5
<1>5. BeliefsOK'
  <2>1. \A t \in Servers : Pending(t)' = Pending(t)
    BY DEF Apply, Pending
  <2>2. Pending(s) \subseteq schema'
    <3>1. \A n \in Pending(s) : n = m
      BY <1>2, MigrationsAssumption DEF Pending, Migration
    <3>2. QED
      BY <1>1, <3>1
  <2>3. QED
    BY <1>1, <2>1, <2>2 DEF BeliefsOK, Apply, Goto, MigrationsTypeOK, IsPrefix
<1>6. QED
  BY <1>3, <1>4, <1>5

LEMMA RecordKeeps ==
    ASSUME MigrationsInv, NEW s \in Servers, Record(s)
    PROVE  MigrationsInv'
<1> USE DEF MigrationsInv
<1>1. PICK m \in Pending(s) :
        /\ recorded' = recorded \cup {m}
        /\ applied' = [applied EXCEPT ![s] = @ \cup {m}]
  BY DEF Record
<1>2. /\ m \in Migration /\ m \notin applied[s]
      /\ \A n \in 1 .. m : n # m => n \in applied[s] /\ n \in recorded
  BY PendingFollows DEF Record
<1>3. m \in schema /\ schema' = schema
  BY DEF Record, BeliefsOK
<1>4. MigrationsTypeOK'
  BY <1>1, <1>2, <1>3 DEF Record, Goto, MigrationsTypeOK
<1>5. TablesOK'
  <2>1. IsPrefix(recorded')
    BY <1>1, <1>2, PrefixGrows DEF MigrationsTypeOK, TablesOK
  <2>2. QED
    BY <1>1, <1>3, <2>1 DEF TablesOK, IsPrefix
<1>6. BeliefsOK'
  <2>1. applied'[s] = applied[s] \cup {m} /\ applied[s] \subseteq recorded
        /\ IsPrefix(applied[s])
    BY <1>1 DEF MigrationsTypeOK, BeliefsOK, Record
  <2>2. applied'[s] \subseteq recorded' /\ IsPrefix(applied'[s])
    BY <1>1, <1>2, <2>1, PrefixGrows DEF MigrationsTypeOK
  <2>3. \A t \in Servers \ {s} : applied'[t] = applied[t] /\ Pending(t)' = Pending(t)
                                 /\ pc'[t] = pc[t]
    BY <1>1 DEF Record, Goto, MigrationsTypeOK, Pending
  <2>4. pc'[s] = "apply"
    BY DEF Record, Goto, MigrationsTypeOK
  <2>5. recorded = Migration => recorded' = Migration
    BY <1>1, <1>2
  <2>6. QED
    BY <1>1, <1>3, <2>2, <2>3, <2>4, <2>5 DEF BeliefsOK, IsPrefix
<1>7. QED
  BY <1>4, <1>5, <1>6

LEMMA ServeKeeps ==
    ASSUME MigrationsInv, NEW s \in Servers, Serve(s)
    PROVE  MigrationsInv'
<1> USE DEF MigrationsInv
<1>1. MigrationsTypeOK'
  BY DEF Serve, Goto, MigrationsTypeOK
<1>2. TablesOK'
  BY DEF Serve, TablesOK, IsPrefix
<1>3. applied[s] = Migration
  <2>1. SUFFICES ASSUME Migration \ applied[s] # {} PROVE FALSE
    BY DEF MigrationsTypeOK
  <2>2. PICK m \in Migration \ applied[s] : \A n \in Migration \ applied[s] : m <= n
    <3>1. Migration \ applied[s] \subseteq Nat
      BY MigrationsAssumption DEF Migration
    <3>2. QED
      BY <2>1, <3>1, LeastNumber
  <2>3. QED
    BY <2>2 DEF Serve, Pending
<1>4. recorded = Migration
  BY <1>3 DEF Serve, BeliefsOK, MigrationsTypeOK
<1>5. \A t \in Servers : Pending(t)' = Pending(t)
  BY DEF Serve, Pending
<1>6. BeliefsOK'
  BY <1>4, <1>5 DEF Serve, Goto, MigrationsTypeOK, BeliefsOK, IsPrefix
<1>7. QED
  BY <1>1, <1>2, <1>6

LEMMA ListKeeps ==
    ASSUME MigrationsInv, NEW s \in Servers, ListApplied(s)
    PROVE  MigrationsInv'
<1> USE DEF MigrationsInv
<1>1. MigrationsTypeOK'
  BY DEF ListApplied, Goto, MigrationsTypeOK
<1>2. TablesOK'
  BY DEF ListApplied, TablesOK, IsPrefix
<1>3. pc'[s] = "apply" /\ applied'[s] = recorded /\ recorded' = recorded /\ schema' = schema
  BY DEF ListApplied, Goto, MigrationsTypeOK
<1>4. \A t \in Servers \ {s} : applied'[t] = applied[t] /\ Pending(t)' = Pending(t)
                               /\ pc'[t] = pc[t]
  BY DEF ListApplied, Goto, MigrationsTypeOK, Pending
<1>5. BeliefsOK'
  BY <1>3, <1>4 DEF BeliefsOK, TablesOK, IsPrefix
<1>6. QED
  BY <1>1, <1>2, <1>5

(* A server that starts, stops or does not start changes no table.         *)
LEMMA MoveKeeps ==
    ASSUME MigrationsInv, NEW s \in Servers, NEW step \in {"down", "list"},
           Goto(s, step), UNCHANGED <<schema, recorded, applied>>
    PROVE  MigrationsInv'
<1> USE DEF MigrationsInv
<1>1. MigrationsTypeOK'
  BY DEF Goto, MigrationsTypeOK
<1>2. TablesOK'
  BY DEF TablesOK, IsPrefix
<1>3. \A t \in Servers : Pending(t)' = Pending(t)
  BY DEF Pending
<1>4. BeliefsOK'
  BY <1>3 DEF Goto, MigrationsTypeOK, BeliefsOK, IsPrefix
<1>5. QED
  BY <1>1, <1>2, <1>4

LEMMA NextKeeps == MigrationsInv /\ [Next]_vars => MigrationsInv'
<1> SUFFICES ASSUME MigrationsInv, [Next]_vars PROVE MigrationsInv'
  OBVIOUS
<1>1. CASE UNCHANGED vars
  <2>1. \A t \in Servers : Pending(t)' = Pending(t)
    BY <1>1 DEF vars, Pending
  <2>2. QED
    BY <1>1, <2>1
    DEF vars, MigrationsInv, MigrationsTypeOK, TablesOK, BeliefsOK, IsPrefix
<1>2. ASSUME NEW s \in Servers, Migrate(s) PROVE MigrationsInv'
  <2>1. CASE Start(s) \/ ApplyFails(s) \/ RecordFails(s)
    BY <2>1, MoveKeeps DEF Start, ApplyFails, RecordFails
  <2>2. QED
    BY <1>2, <2>1, ListKeeps, ApplyKeeps, RecordKeeps, ServeKeeps DEF Migrate
<1>3. ASSUME NEW s \in Servers, Crash(s) PROVE MigrationsInv'
  BY <1>3, MoveKeeps DEF Crash
<1>4. QED
  BY <1>1, <1>2, <1>3 DEF Next

(* What applies and what is recorded, and by whom (migrations.go:86-150).  *)
THEOREM MigrationsInvariant == Spec => []MigrationsInv
<1>1. Init => MigrationsInv
  BY DEF Init, MigrationsInv, MigrationsTypeOK, TablesOK, BeliefsOK, IsPrefix
<1>2. QED
  BY <1>1, NextKeeps, PTL DEF Spec

(* Racing and stopping servers leave the files in order (migrations.go:    *)
(* 60-150), and no server serves before the whole schema is there.         *)
THEOREM FilesInOrder == Spec => []InOrder
<1>1. MigrationsInv => InOrder
  <2> SUFFICES ASSUME MigrationsInv PROVE InOrder
    OBVIOUS
  <2> USE DEF MigrationsInv
  <2>1. Cardinality(schema \ recorded) <= 1
    <3>1. CASE schema \ recorded = {}
      BY <3>1, FS_EmptySet
    <3>2. CASE schema \ recorded # {}
      <4>1. PICK m : schema \ recorded = {m}
        BY <3>2 DEF TablesOK
      <4>2. QED
        BY <4>1, FS_Singleton
    <3>3. QED
      BY <3>1, <3>2
  <2>2. QED
    BY <2>1 DEF InOrder, MigrationsTypeOK, TablesOK, BeliefsOK
<1>2. QED
  BY <1>1, MigrationsInvariant, PTL

(* A server has one file in mind.                                          *)
LEMMA OnePending ==
    ASSUME NEW s \in Servers, NEW m \in Pending(s), NEW n \in Pending(s)
    PROVE  m = n
BY MigrationsAssumption DEF Pending, Migration

(* A one-shot file that a crash left unrecorded is never recorded: nobody  *)
(* who has not executed it records it, and nobody can execute it again.    *)
(* So once there is one, no server of FG_ENV=dev starts                    *)
(* (migrations.go:106-128, 0004_api_keys_expiration.sql).                  *)
THEOREM NothingMends == Spec => HalfAppliedForGood
<1>1. MigrationsInv /\ [Next]_vars => (HalfApplied => HalfApplied')
  <2> SUFFICES ASSUME MigrationsInv, [Next]_vars, NEW m \in OneShot, m \in schema \ recorded,
                      \A s \in Servers : pc[s] = "record" => m \notin Pending(s)
               PROVE  /\ m \in schema' \ recorded'
                      /\ \A s \in Servers : pc'[s] = "record" => m \notin Pending(s)'
    BY DEF HalfApplied
  <2> USE DEF MigrationsInv, MigrationsTypeOK, Goto
  <2>1. ASSUME NEW s \in Servers, Apply(s)
        PROVE  /\ m \in schema' \ recorded'
               /\ \A t \in Servers : pc'[t] = "record" => m \notin Pending(t)'
    <3>1. PICK n \in Pending(s) : (n \in OneShot => n \notin schema) /\ schema' = schema \cup {n}
      BY <2>1 DEF Apply
    <3>2. m \notin Pending(s)
      BY <3>1, OnePending
    <3>3. \A t \in Servers : Pending(t)' = Pending(t)
      BY <2>1 DEF Apply, Pending
    <3>4. QED
      BY <2>1, <3>1, <3>2, <3>3 DEF Apply
  <2>2. ASSUME NEW s \in Servers, Record(s)
        PROVE  /\ m \in schema' \ recorded'
               /\ \A t \in Servers : pc'[t] = "record" => m \notin Pending(t)'
    <3>1. \A t \in Servers \ {s} : Pending(t)' = Pending(t) /\ pc'[t] = pc[t]
      BY <2>2 DEF Record, Pending
    <3>2. QED
      BY <2>2, <3>1 DEF Record
  <2>3. ASSUME NEW s \in Servers, NEW step \in {"down", "list", "apply", "serving"}, Goto(s, step),
               UNCHANGED <<schema, recorded>>, \A t \in Servers \ {s} : applied'[t] = applied[t]
        PROVE  /\ m \in schema' \ recorded'
               /\ \A t \in Servers : pc'[t] = "record" => m \notin Pending(t)'
    BY <2>3 DEF Pending
  <2>4. CASE UNCHANGED vars
    BY <2>4 DEF vars, Pending
  <2>5. QED
    BY <2>1, <2>2, <2>3, <2>4 DEF Next, Migrate, Start, ListApplied, ApplyFails, RecordFails, Serve, Crash
<1>2. MigrationsInv => (HalfApplied => \A s \in Servers : pc[s] # "serving")
  BY DEF MigrationsInv, MigrationsTypeOK, BeliefsOK, HalfApplied
<1>3. QED
  BY <1>1, <1>2, MigrationsInvariant, PTL DEF Spec, HalfAppliedForGood
=============================================================================
