--------------------------- MODULE ApiKeysProofs ---------------------------
(***************************************************************************)
(* A key is ended once, a rotation widens neither the life nor the scopes  *)
(* of a key, a dead token stays out, and the keys of a project implement   *)
(* KeyRing: all from the invariant RotationsHeld.                          *)
(***************************************************************************)
EXTENDS ApiKeys, TLAPS

LEMMA AskFields ==
    ASSUME NEW a \in Ask
    PROVE  /\ a.op \in {"create", "rotate", "revoke"}
           /\ a.op = "create" => a.name \in Names /\ a.scope \in Scopes /\ a.days \in Nat
           /\ a.op = "rotate" => a.key \in Keys /\ a.name \in Names /\ a.days \in Nat
           /\ a.op = "revoke" => a.key \in Keys
BY DEF Ask

LEMMA KeyFields ==
    ASSUME KeysTypeOK, NEW k \in Keys, Exists(k)
    PROVE  key[k] \in Row
BY DEF KeysTypeOK, Exists

LEMMA RowIsNoNoKey == NoKey \notin Row
<1>1. ASSUME NEW r \in Row PROVE "scope" \in DOMAIN r
  BY DEF Row
<1>2. "scope" \notin DOMAIN NoKey
  BY DEF NoKey
<1>3. QED
  BY <1>1, <1>2

LEMMA InitHolds == Init => RotationsHeld
<1> SUFFICES ASSUME Init PROVE RotationsHeld
  OBVIOUS
<1> USE ApiKeysAssumption
<1>1. KeysTypeOK
  <2>1. key \in [Keys -> Row \cup {NoKey}]
    BY DEF Init, Row, Never
  <2>2. \A k \in Keys : Exists(k) /\ key[k].expires # Never
                       => key[k].expires > key[k].created
    BY DEF Init, Exists, Never
  <2>3. QED
    BY <2>1, <2>2 DEF Init, KeysTypeOK, Never
<1>2. StepsOK
  BY DEF Init, StepsOK
<1>3. LocksOK
  BY DEF Init, LocksOK
<1>4. \A h \in Keys : Exists(h) =>
        key[h].maker = NoRequest /\ key[h].parent = NoParent /\ ~Revoked(h)
  BY DEF Init, Exists, Revoked
<1>5. RowsOK
  BY <1>4 DEF RowsOK, TookEffect
<1>6. EndsOK
  BY <1>4 DEF Init, EndsOK, Committed, TookEffect
<1>7. ExpiryOK
  BY DEF Init, ExpiryOK, ExpiryHeld
<1>8. UploadsOK /\ ShutOut
  BY DEF Init, UploadsOK, ShutOut, NoUpload
<1>9. LimitInherited /\ ScopesOK
  BY <1>4 DEF LimitInherited, ScopesOK
<1>10. QED
  BY <1>1, <1>2, <1>3, <1>5, <1>6, <1>7, <1>8, <1>9 DEF RotationsHeld

LEMMA AskedKeys ==
    ASSUME KeysTypeOK
    PROVE  \A q \in Requests : pc[q] # "idle" =>
             /\ ask[q].op \in {"rotate", "revoke"} => ask[q].key \in Keys
             /\ ask[q].op # "revoke" => ask[q].name \in Names /\ ask[q].days \in Nat
             /\ ask[q].op = "create" => ask[q].scope \in Scopes
             /\ ask[q].op \in {"create", "rotate", "revoke"}
<1> SUFFICES ASSUME NEW q \in Requests, pc[q] # "idle"
             PROVE  /\ ask[q].op \in {"rotate", "revoke"} => ask[q].key \in Keys
                    /\ ask[q].op # "revoke" => ask[q].name \in Names /\ ask[q].days \in Nat
                    /\ ask[q].op = "create" => ask[q].scope \in Scopes
                    /\ ask[q].op \in {"create", "rotate", "revoke"}
  OBVIOUS
<1>1. ask[q] \in Ask
  BY DEF KeysTypeOK
<1>2. QED
  BY <1>1, AskFields

(* A step of request q before its commit that touches no row.              *)
LEMMA MoveKeeps ==
    ASSUME RotationsHeld, NEW q \in Requests, UNCHANGED <<key, day, outcome, upload>>,
           KeysTypeOK', pc[q] \notin {"commit", "done"}, pc'[q] \notin {"commit", "done"},
           pc[q] = "idle" \/ ask'[q] = ask[q],
           \A r \in Requests \ {q} : /\ pc'[r] = pc[r] /\ ask'[r] = ask[r]
                                     /\ expires'[r] = expires[r] /\ began'[r] = began[r]
    PROVE  /\ \A r \in Requests \ {q} : ExpiryHeld(r)'
           /\ RowsOK' /\ ScopesOK' /\ EndsOK' /\ UploadsOK' /\ LimitInherited' /\ ShutOut'
           /\ \A k \in Keys : Revocable(k)' <=> Revocable(k)
           /\ \A k \in Keys : Committed(k)' <=> Committed(k)
<1> USE DEF RotationsHeld
<1>1. \A h \in Keys : Exists(h) =>
        /\ Exists(h)' /\ key[h] \in Row /\ key[h].maker # q
        /\ key[h].maker \in Requests \cup {NoRequest}
  BY KeyFields, ApiKeysAssumption DEF RowsOK, Exists, Row, TookEffect
<1>2. \A h \in Keys : Exists(h)' <=> Exists(h)
  BY DEF Exists
<1>3. \A h \in Keys : Committed(h)' <=> Committed(h)
  BY <1>1, <1>2 DEF Committed
<1>4. \A h \in Keys : Revocable(h)' <=> Revocable(h)
  BY <1>3 DEF Revocable, Revoked
<1>5. \A h \in Keys : Exists(h) /\ Revoked(h) => key[h].revokedBy \in Requests \ {q}
  <2>1. \A h \in Keys : Exists(h) /\ Revoked(h) =>
          key[h].revokedBy \in Requests /\ outcome[key[h].revokedBy] \in {"ok", "lost"}
    BY KeyFields DEF EndsOK, Revoked, Row, TookEffect
  <2>2. outcome[q] = "none"
    BY DEF StepsOK
  <2>3. QED
    BY <2>1, <2>2
<1>6. RowsOK'
  BY <1>1, <1>2 DEF RowsOK, Rotating, TookEffect
<1>7. EndsOK'
  <2>1. outcome[q] = "none"
    BY DEF StepsOK
  <2>2. (\A h \in Keys : Committed(h) /\ key[h].parent \in Keys =>
          Committed(key[h].parent) /\ key[key[h].parent].revokedBy = key[h].maker)'
    BY <1>3 DEF EndsOK, TookEffect
  <2>3. (\A k \in Keys : Exists(k) /\ Revoked(k) =>
          LET r == key[k].revokedBy IN
          /\ Committed(k) /\ outcome[r] \in {"ok", "lost"}
          /\ ask[r].op \in {"rotate", "revoke"} /\ ask[r].key = k
          /\ Rotating(r) => \E h \in Keys : Committed(h) /\ key[h].parent = k)'
    BY <1>2, <1>3, <1>5 DEF EndsOK, Revoked, Rotating, TookEffect
  <2>4. (\A r \in Requests : pc[r] = "commit" =>
          \E h \in Keys : Exists(h) /\ key[h].maker = r)'
    BY <1>2 DEF EndsOK, TookEffect
  <2>5. (\A r \in Requests : outcome[r] \in {"ok", "lost"} /\ ask[r].op # "create" =>
          Exists(ask[r].key) /\ key[ask[r].key].revokedBy = r)'
    BY <2>1 DEF EndsOK, Exists, TookEffect
  <2>6. QED
    BY <2>2, <2>3, <2>4, <2>5 DEF EndsOK, TookEffect
<1>8. UploadsOK'
  <2>1. \A u \in Uploads : upload[u] # NoUpload => upload[u].key \in Keys
    BY DEF KeysTypeOK
  <2>2. QED
    BY <1>3, <2>1 DEF UploadsOK, Good, Past, Revoked
<1>9. LimitInherited' /\ ScopesOK'
  BY <1>1, <1>2 DEF LimitInherited, ScopesOK, RowsOK, TookEffect
<1>10. ShutOut'
  BY DEF ShutOut
<1>11. ASSUME NEW r \in Requests \ {q} PROVE ExpiryHeld(r)'
  <2>1. SUFFICES ASSUME pc'[r] \in {"begin", "lock", "insert"}, Rotating(r)'
                 PROVE  ExpiryHeld(r)'
    BY DEF ExpiryHeld
  <2>2. ask'[r] = ask[r] /\ ask[r].key \in Keys
    BY <2>1, AskedKeys DEF Rotating
  <2>3. QED
    BY <2>1, <2>2, <1>3 DEF ExpiryOK, ExpiryHeld, Rotating
<1>12. QED
  BY <1>3, <1>4, <1>6, <1>7, <1>8, <1>9, <1>10, <1>11

LEMMA ReceiveHolds ==
    ASSUME RotationsHeld, NEW q \in Requests, Receive(q)
    PROVE  RotationsHeld'
<1> USE DEF RotationsHeld
<1>1. PICK a \in Asks :
        /\ ask' = [ask EXCEPT ![q] = a]
        /\ expires' = [expires EXCEPT ![q] =
               IF a.op = "create" /\ a.days > 0 THEN day + a.days ELSE Never]
        /\ pc' = [pc EXCEPT ![q] = IF a.op = "create" THEN "begin" ELSE "read"]
  BY DEF Receive, Goto
<1>2. a \in Ask /\ a.op \in {"create", "rotate", "revoke"}
      /\ (a.op = "create" => a.days \in Nat)
  BY ApiKeysAssumption, AskFields
<1>3. KeysTypeOK'
  BY <1>1, <1>2 DEF Receive, KeysTypeOK, Exists, Never
<1>4. \A r \in Requests \ {q} : /\ pc'[r] = pc[r] /\ ask'[r] = ask[r]
                                /\ expires'[r] = expires[r] /\ began'[r] = began[r]
  BY <1>1 DEF KeysTypeOK, Receive
<1>5. ask'[q] = a /\ pc'[q] = (IF a.op = "create" THEN "begin" ELSE "read")
  BY <1>1 DEF KeysTypeOK
<1>6. /\ RowsOK' /\ ScopesOK' /\ EndsOK' /\ UploadsOK' /\ LimitInherited' /\ ShutOut'
      /\ \A r \in Requests \ {q} : ExpiryHeld(r)'
      /\ \A k \in Keys : Revocable(k)' <=> Revocable(k)
  BY <1>3, <1>4, <1>5, MoveKeeps DEF Receive
<1>7. StepsOK'
  BY <1>2, <1>4, <1>5 DEF Receive, StepsOK, Rotating
<1>8. LocksOK'
  BY <1>4, <1>5, <1>6, AskedKeys DEF LocksOK, StepsOK, Rotating
<1>9. ExpiryHeld(q)'
  BY <1>5 DEF ExpiryHeld, Rotating
<1>10. QED
  BY <1>3, <1>6, <1>7, <1>8, <1>9 DEF ExpiryOK

LEMMA ReadForRevokeHolds ==
    ASSUME RotationsHeld, NEW q \in Requests, ReadForRevoke(q)
    PROVE  RotationsHeld'
<1> USE DEF RotationsHeld
<1>1. KeysTypeOK'
  BY DEF ReadForRevoke, Goto, KeysTypeOK, Exists
<1>2. pc'[q] = "revoke" /\ \A r \in Requests \ {q} : pc'[r] = pc[r]
  BY DEF ReadForRevoke, Goto, KeysTypeOK
<1>3. /\ RowsOK' /\ ScopesOK' /\ EndsOK' /\ UploadsOK' /\ LimitInherited' /\ ShutOut'
      /\ \A r \in Requests \ {q} : ExpiryHeld(r)'
      /\ \A k \in Keys : Revocable(k)' <=> Revocable(k)
  BY <1>1, <1>2, MoveKeeps DEF ReadForRevoke
<1>4. StepsOK'
  BY <1>2 DEF ReadForRevoke, StepsOK, Rotating
<1>5. LocksOK'
  BY <1>2, <1>3, AskedKeys DEF ReadForRevoke, LocksOK, StepsOK, Rotating
<1>6. ExpiryHeld(q)'
  BY <1>2 DEF ExpiryHeld
<1>7. QED
  BY <1>1, <1>3, <1>4, <1>5, <1>6 DEF ExpiryOK

LEMMA ReadForRotateHolds ==
    ASSUME RotationsHeld, NEW q \in Requests, ReadForRotate(q)
    PROVE  RotationsHeld'
<1> USE DEF RotationsHeld
<1> DEFINE old == key[ask[q].key].expires
<1>1. ask[q].key \in Keys /\ ask[q].days \in Nat /\ old \in Nat /\ day \in Nat
  BY AskedKeys, KeyFields DEF ReadForRotate, Revocable, Committed, Row, KeysTypeOK
<1>2. KeysTypeOK'
  BY <1>1 DEF ReadForRotate, Goto, Expiry, KeysTypeOK, Exists, Never
<1>3. /\ pc'[q] = "begin" /\ expires'[q] = Expiry(q, old)
      /\ \A r \in Requests \ {q} : pc'[r] = pc[r] /\ expires'[r] = expires[r]
  BY DEF ReadForRotate, Goto, KeysTypeOK
<1>4. /\ RowsOK' /\ ScopesOK' /\ EndsOK' /\ UploadsOK' /\ LimitInherited' /\ ShutOut'
      /\ \A r \in Requests \ {q} : ExpiryHeld(r)'
      /\ \A k \in Keys : Revocable(k)' <=> Revocable(k)
      /\ \A k \in Keys : Committed(k)' <=> Committed(k)
  BY <1>2, <1>3, MoveKeeps DEF ReadForRotate
<1>5. StepsOK'
  BY <1>3 DEF ReadForRotate, StepsOK, Rotating
<1>6. LocksOK'
  BY <1>3, <1>4, AskedKeys DEF ReadForRotate, LocksOK, StepsOK, Rotating
<1>7. ExpiryHeld(q)'
  <2>1. \/ ask[q].days > 0
        \/ Expiry(q, old) = old
        \/ old # Never /\ old <= day
    BY <1>1 DEF Expiry, Past
  <2>2. Committed(ask[q].key)'
    BY <1>1, <1>4 DEF ReadForRotate, Revocable
  <2>3. QED
    BY <1>3, <2>1, <2>2 DEF ReadForRotate, ExpiryHeld
<1>8. QED
  BY <1>2, <1>4, <1>5, <1>6, <1>7 DEF ExpiryOK

LEMMA BeginHolds ==
    ASSUME RotationsHeld, NEW q \in Requests, Begin(q)
    PROVE  RotationsHeld'
<1> USE DEF RotationsHeld
<1>1. KeysTypeOK'
  BY DEF Begin, Goto, KeysTypeOK, Exists
<1>2. /\ pc'[q] = (IF ask[q].op = "create" THEN "create" ELSE "lock") /\ began'[q] = day
      /\ \A r \in Requests \ {q} : pc'[r] = pc[r] /\ began'[r] = began[r]
  BY DEF Begin, Goto, KeysTypeOK
<1>3. /\ RowsOK' /\ ScopesOK' /\ EndsOK' /\ UploadsOK' /\ LimitInherited' /\ ShutOut'
      /\ \A r \in Requests \ {q} : ExpiryHeld(r)'
      /\ \A k \in Keys : Revocable(k)' <=> Revocable(k)
      /\ \A k \in Keys : Committed(k)' <=> Committed(k)
  BY <1>1, <1>2, MoveKeeps DEF Begin
<1>4. StepsOK'
  BY <1>2 DEF Begin, StepsOK, Rotating
<1>5. LocksOK'
  BY <1>2, <1>3, AskedKeys DEF Begin, LocksOK, StepsOK, Rotating
<1>6. ExpiryHeld(q)'
  <2>1. SUFFICES ASSUME Rotating(q) PROVE ExpiryHeld(q)'
    BY DEF Begin, ExpiryHeld, Rotating
  <2>2. ask[q].key \in Keys /\ ExpiryHeld(q)
    BY <2>1, AskedKeys DEF Begin, Rotating, ExpiryOK
  <2>3. QED
    BY <1>2, <1>3, <2>1, <2>2 DEF Begin, ExpiryHeld, Rotating
<1>7. QED
  BY <1>1, <1>3, <1>4, <1>5, <1>6 DEF ExpiryOK

LEMMA LockKeyHolds ==
    ASSUME RotationsHeld, NEW q \in Requests, LockKey(q)
    PROVE  RotationsHeld'
<1> USE DEF RotationsHeld
<1>1. KeysTypeOK'
  BY DEF LockKey, Goto, KeysTypeOK, Exists
<1>2. pc'[q] = "insert" /\ \A r \in Requests \ {q} : pc'[r] = pc[r]
  BY DEF LockKey, Goto, KeysTypeOK
<1>3. /\ RowsOK' /\ ScopesOK' /\ EndsOK' /\ UploadsOK' /\ LimitInherited' /\ ShutOut'
      /\ \A r \in Requests \ {q} : ExpiryHeld(r)'
      /\ \A k \in Keys : Revocable(k)' <=> Revocable(k)
      /\ \A k \in Keys : Committed(k)' <=> Committed(k)
  BY <1>1, <1>2, MoveKeeps DEF LockKey
<1>4. StepsOK'
  BY <1>2 DEF LockKey, StepsOK, Rotating
<1>5. ask[q].key \in Keys /\ Rotating(q)
  BY AskedKeys DEF LockKey, StepsOK, Rotating
<1>6. LocksOK'
  BY <1>2, <1>3, <1>5, AskedKeys DEF LockKey, Locked, Holders, LocksOK, StepsOK, Rotating
<1>7. ExpiryHeld(q)'
  BY <1>2, <1>3, <1>5 DEF LockKey, ExpiryOK, ExpiryHeld, Rotating
<1>8. QED
  BY <1>1, <1>3, <1>4, <1>6, <1>7 DEF ExpiryOK

LEMMA FailKeeps ==
    ASSUME RotationsHeld, NEW q \in Requests, pc[q] \notin {"idle", "done"},
           NEW how \in {"notFound", "revoked", "nameConflict", "error", "cancelled"},
           Fail(q, how)
    PROVE  RotationsHeld'
<1> USE DEF RotationsHeld
<1>1. /\ pc'[q] = "done" /\ outcome'[q] = how
      /\ \A r \in Requests \ {q} : pc'[r] = pc[r] /\ outcome'[r] = outcome[r]
      /\ UNCHANGED <<day, ask, expires, began, upload>>
  BY DEF Fail, End, KeysTypeOK
<1>2. \A h \in Keys : Exists(h) => key[h] \in Row
  BY KeyFields
<1>3. \A h \in Keys :
        key'[h] = IF key[h] # NoKey /\ key[h].maker = q THEN NoKey ELSE key[h]
  BY DEF Fail, WithoutRowsOf, Exists
<1>4. KeysTypeOK'
  <2>1. key' \in [Keys -> Row \cup {NoKey}]
    BY <1>2 DEF Fail, WithoutRowsOf, KeysTypeOK
  <2>2. (\A k \in Keys : Exists(k) /\ key[k].expires # Never
                       => key[k].expires > key[k].created)'
    BY <1>3 DEF KeysTypeOK, Exists
  <2>3. pc' \in [Requests -> {"idle", "read", "begin", "create", "lock", "insert",
                            "commit", "revoke", "done"}]
        /\ outcome' \in [Requests -> {"none", "ok", "lost", "notFound", "revoked",
                                      "nameConflict", "error", "cancelled"}]
    BY DEF Fail, End, KeysTypeOK
  <2>4. \A r \in Requests : pc'[r] # "idle" => ask'[r] \in Ask
    BY <1>1 DEF KeysTypeOK
  <2>5. QED
    BY <1>1, <2>1, <2>2, <2>3, <2>4 DEF KeysTypeOK
<1>5. \A h \in Keys : Exists(h)' => Exists(h) /\ key'[h] = key[h] /\ key[h].maker # q
  BY <1>3 DEF Exists
<1>6. \A h \in Keys : Exists(h) /\ key[h].maker # q => Exists(h)' /\ key'[h] = key[h]
  BY <1>3 DEF Exists
<1>7. \A h \in Keys : Committed(h) => key[h].maker # q
  BY ApiKeysAssumption DEF Committed
<1>8. \A h \in Keys : Exists(h) => key[h].maker \in Requests \cup {NoRequest}
  BY <1>2 DEF Row
<1>9. \A h \in Keys : Committed(h)' <=> Committed(h)
  BY <1>1, <1>5, <1>6, <1>7, <1>8 DEF Committed
<1>10. \A h \in Keys : Committed(h) => key'[h] = key[h] /\ Exists(h) /\ Exists(h)'
  BY <1>6, <1>7 DEF Committed
<1>11. \A h \in Keys : Revocable(h)' <=> Revocable(h)
  BY <1>9, <1>10 DEF Revocable, Revoked
<1>12. StepsOK'
  BY <1>1 DEF StepsOK, Rotating
<1>13. LocksOK'
  BY <1>1, <1>11, AskedKeys DEF LocksOK, StepsOK, Rotating
<1>14. RowsOK'
  BY <1>1, <1>5, <1>8 DEF RowsOK, Rotating, TookEffect
<1>15. EndsOK'
  <2>1. (\A h \in Keys : Committed(h) /\ key[h].parent \in Keys =>
          Committed(key[h].parent) /\ key[key[h].parent].revokedBy = key[h].maker)'
    BY <1>9, <1>10 DEF EndsOK, TookEffect
  <2>2. (\A k \in Keys : Exists(k) /\ Revoked(k) =>
          LET r == key[k].revokedBy IN
          /\ Committed(k) /\ outcome[r] \in {"ok", "lost"}
          /\ ask[r].op \in {"rotate", "revoke"} /\ ask[r].key = k
          /\ Rotating(r) => \E h \in Keys : Committed(h) /\ key[h].parent = k)'
    <3>1. ASSUME NEW k \in Keys, Exists(k)', Revoked(k)'
          PROVE  /\ Exists(k) /\ Revoked(k) /\ key'[k] = key[k]
                 /\ key[k].revokedBy \in Requests
      BY <3>1, <1>2, <1>5 DEF Revoked, Row
    <3>2. outcome[q] = "none"
      BY DEF StepsOK
    <3>3. ASSUME NEW k \in Keys, Exists(k)', Revoked(k)'
          PROVE  outcome'[key[k].revokedBy] \in {"ok", "lost"}
      BY <3>1, <3>2, <3>3, <1>1 DEF EndsOK, TookEffect
    <3>4. QED
      BY <3>1, <3>3, <1>1, <1>9, <1>10 DEF EndsOK, Rotating, TookEffect
  <2>3. (\A r \in Requests : pc[r] = "commit" =>
          \E h \in Keys : Exists(h) /\ key[h].maker = r)'
    BY <1>1, <1>6 DEF EndsOK, TookEffect
  <2>4. (\A r \in Requests : outcome[r] \in {"ok", "lost"} /\ ask[r].op # "create" =>
          Exists(ask[r].key) /\ key[ask[r].key].revokedBy = r)'
    <3>1. ASSUME NEW r \in Requests, outcome'[r] \in {"ok", "lost"}, ask[r].op # "create"
          PROVE  /\ ask[r].key \in Keys /\ Exists(ask[r].key)
                 /\ key[ask[r].key].revokedBy = r
      <4>1. r # q /\ outcome[r] \in {"ok", "lost"}
        BY <3>1, <1>1
      <4>2. pc[r] # "idle"
        BY <4>1 DEF StepsOK
      <4>3. QED
        BY <3>1, <4>1, <4>2, AskedKeys DEF EndsOK, TookEffect
    <3>2. ASSUME NEW r \in Requests, outcome'[r] \in {"ok", "lost"}, ask[r].op # "create"
          PROVE  Committed(ask[r].key)
      BY <3>1, <3>2, ApiKeysAssumption DEF EndsOK, Revoked, TookEffect
    <3>3. QED
      BY <3>1, <3>2, <1>1, <1>10
  <2>5. QED
    BY <2>1, <2>2, <2>3, <2>4 DEF EndsOK, TookEffect
<1>16. ASSUME NEW r \in Requests PROVE ExpiryHeld(r)'
  <2>1. SUFFICES ASSUME pc'[r] \in {"begin", "lock", "insert"}, Rotating(r)'
                 PROVE  ExpiryHeld(r)'
    BY DEF ExpiryHeld
  <2>2. r # q /\ pc'[r] = pc[r] /\ ask'[r] = ask[r] /\ ask[r].key \in Keys
    BY <2>1, <1>1, AskedKeys DEF Rotating
  <2>3. QED
    BY <2>1, <2>2, <1>1, <1>9, <1>10 DEF ExpiryOK, ExpiryHeld, Rotating
<1>17. UploadsOK'
  <2>1. \A u \in Uploads : upload[u] # NoUpload => upload[u].key \in Keys
    BY DEF KeysTypeOK
  <2>2. QED
    BY <1>1, <1>9, <1>10, <2>1 DEF UploadsOK, Good, Past, Revoked
<1>18. LimitInherited' /\ ScopesOK'
  <2>1. ASSUME NEW h \in Keys, Exists(h)', key'[h].parent \in Keys
        PROVE  /\ Exists(h) /\ key'[h] = key[h] /\ Committed(key[h].parent)
               /\ key'[key[h].parent] = key[key[h].parent]
               /\ Exists(key[h].parent)
    <3>1. Exists(h) /\ key'[h] = key[h] /\ key[h].maker \in Requests
      BY <2>1, <1>5 DEF RowsOK, TookEffect
    <3>2. Committed(key[h].parent)
      BY <2>1, <3>1 DEF RowsOK, EndsOK, LocksOK, Revocable, Committed, TookEffect
    <3>3. QED
      BY <2>1, <3>1, <3>2, <1>10
  <2>2. QED
    BY <2>1, <1>1 DEF LimitInherited, ScopesOK, Exists
<1>19. ShutOut'
  BY <1>1 DEF ShutOut
<1>20. QED
  BY <1>4, <1>12, <1>13, <1>14, <1>15, <1>16, <1>17, <1>18, <1>19 DEF ExpiryOK

(* A request sets revoked_at on its key k and commits, which makes the row  *)
(* that it inserted visible.                                               *)
LEMMA RevocationKeeps ==
    ASSUME RotationsHeld, NEW q \in Requests, pc[q] \in {"commit", "revoke"},
           \/ pc[q] = "commit"
           \/ ~Locked(ask[q].key, q),
           Revocable(ask[q].key),
           key' = [key EXCEPT ![ask[q].key].revokedBy = q], Effect(q),
           UNCHANGED <<day, ask, expires, began, upload>>
    PROVE  RotationsHeld'
<1> USE DEF RotationsHeld
<1>0. PICK k \in Keys : k = ask[q].key
  BY AskedKeys DEF StepsOK, Rotating
<1>1. k = ask[q].key /\ ask[q].op \in {"rotate", "revoke"} /\ (Rotating(q) <=> pc[q] = "commit")
  BY <1>0 DEF StepsOK, Rotating
<1>2. /\ pc'[q] = "done" /\ outcome'[q] \in {"ok", "lost"}
      /\ \A r \in Requests \ {q} : pc'[r] = pc[r] /\ outcome'[r] = outcome[r]
      /\ UNCHANGED <<day, ask, expires, began, upload>>
  BY DEF Effect, End, KeysTypeOK
<1>3. \A h \in Keys : Exists(h) => key[h] \in Row
  BY KeyFields
<1>4. Exists(k) /\ Committed(k) /\ ~Revoked(k) /\ key[k].maker # q
  BY <1>1, ApiKeysAssumption DEF Revocable, Committed
<1>5. /\ key'[k] = [key[k] EXCEPT !.revokedBy = q]
      /\ \A h \in Keys \ {k} : key'[h] = key[h]
  BY <1>1 DEF KeysTypeOK
<1>6. /\ key'[k] \in Row /\ key'[k].revokedBy = q
      /\ key'[k].maker = key[k].maker /\ key'[k].parent = key[k].parent
      /\ key'[k].expires = key[k].expires /\ key'[k].created = key[k].created
      /\ key'[k].scope = key[k].scope
  BY <1>1, <1>3, <1>4, <1>5 DEF Row
<1>7. \A h \in Keys : Exists(h)' <=> Exists(h)
  BY <1>4, <1>5, <1>6, RowIsNoNoKey DEF Exists
<1>8. \A h \in Keys : Exists(h) =>
        /\ key'[h].maker = key[h].maker /\ key'[h].parent = key[h].parent
        /\ key'[h].expires = key[h].expires /\ key'[h].created = key[h].created
        /\ key'[h].scope = key[h].scope
        /\ key[h].maker \in Requests \cup {NoRequest}
  BY <1>3, <1>5, <1>6 DEF Row
<1>9. \A h \in Keys :
        Committed(h)' <=> (Committed(h) \/ (Exists(h) /\ key[h].maker = q))
  BY <1>2, <1>7, <1>8, ApiKeysAssumption DEF Committed
<1>10. \A h \in Keys : Exists(h) /\ key[h].maker = q /\ key[h].parent \in Keys
                      => pc[q] = "commit" /\ key[h].parent = k
  BY <1>1 DEF RowsOK, TookEffect
<1>11. \A h \in Keys : Exists(h) /\ key[h].maker = q => pc[q] = "commit"
  BY DEF RowsOK, TookEffect
<1>12. KeysTypeOK'
  <2>1. key' \in [Keys -> Row \cup {NoKey}]
    BY <1>5, <1>6 DEF KeysTypeOK
  <2>2. (\A h \in Keys : Exists(h) /\ key[h].expires # Never
                       => key[h].expires > key[h].created)'
    BY <1>7, <1>8 DEF KeysTypeOK
  <2>3. pc' \in [Requests -> {"idle", "read", "begin", "create", "lock", "insert",
                            "commit", "revoke", "done"}]
        /\ outcome' \in [Requests -> {"none", "ok", "lost", "notFound", "revoked",
                                      "nameConflict", "error", "cancelled"}]
    BY DEF Effect, End, KeysTypeOK
  <2>4. \A r \in Requests : pc'[r] # "idle" => ask'[r] \in Ask
    BY <1>2 DEF KeysTypeOK
  <2>5. QED
    BY <1>2, <2>1, <2>2, <2>3, <2>4 DEF KeysTypeOK
<1>13. StepsOK'
  BY <1>2 DEF StepsOK, Rotating
<1>14. \A h \in Keys \ {k} : Revocable(h) => Revocable(h)'
  BY <1>5, <1>9 DEF Revocable, Revoked
<1>15. LocksOK'
  <2>1. \A r \in Requests \ {q} : pc[r] \in {"insert", "commit"} =>
          ask[r].key \in Keys \ {k}
    BY <1>1, AskedKeys DEF LocksOK, StepsOK, Rotating, Locked, Holders
  <2>2. QED
    BY <2>1, <1>2, <1>14 DEF LocksOK
<1>16. RowsOK'
  BY <1>2, <1>7, <1>8 DEF RowsOK, Rotating, TookEffect
<1>17. EndsOK'
  <2>1. (\A h \in Keys : Committed(h) /\ key[h].parent \in Keys =>
          Committed(key[h].parent) /\ key[key[h].parent].revokedBy = key[h].maker)'
    <3>1. ASSUME NEW h \in Keys, Committed(h)', key'[h].parent \in Keys
          PROVE  Exists(h) /\ key[h].parent \in Keys
      BY <3>1, <1>7, <1>8 DEF Committed
    <3>2. ASSUME NEW h \in Keys, Committed(h), NEW j \in Keys, j = key[h].parent
          PROVE  Committed(j)' /\ j # k /\ key'[j].revokedBy = key[h].maker
      <4>1. key[h].maker \in Requests
        BY <3>2 DEF Committed, RowsOK, TookEffect
      <4>2. Committed(j) /\ key[j].revokedBy = key[h].maker
        BY <3>2 DEF EndsOK, TookEffect
      <4>3. j # k
        BY <4>1, <4>2, <1>4, ApiKeysAssumption DEF Revoked
      <4>4. QED
        BY <3>2, <4>2, <4>3, <1>5, <1>9
    <3>3. QED
      BY <3>1, <3>2, <1>4, <1>6, <1>8, <1>9, <1>10
  <2>2. (\A j \in Keys : Exists(j) /\ Revoked(j) =>
          LET r == key[j].revokedBy IN
          /\ Committed(j) /\ outcome[r] \in {"ok", "lost"}
          /\ ask[r].op \in {"rotate", "revoke"} /\ ask[r].key = j
          /\ Rotating(r) => \E h \in Keys : Committed(h) /\ key[h].parent = j)'
    <3>1. ASSUME NEW j \in Keys \ {k}, Exists(j)', Revoked(j)',
                 NEW r, r = key'[j].revokedBy
          PROVE  /\ Committed(j)' /\ outcome'[r] \in {"ok", "lost"}
                 /\ ask'[r].op \in {"rotate", "revoke"} /\ ask'[r].key = j
                 /\ Rotating(r)' => \E h \in Keys : Committed(h)' /\ key'[h].parent = j
      <4>1. Exists(j) /\ Revoked(j) /\ r = key[j].revokedBy /\ r \in Requests
        BY <3>1, <1>3, <1>5, <1>7 DEF Revoked, Row
      <4>2. /\ Committed(j) /\ outcome[r] \in {"ok", "lost"}
            /\ ask[r].op \in {"rotate", "revoke"} /\ ask[r].key = j
            /\ Rotating(r) => \E h \in Keys : Committed(h) /\ key[h].parent = j
        BY <4>1 DEF EndsOK, TookEffect
      <4>3. \A h \in Keys : Committed(h) => Committed(h)' /\ key'[h].parent = key[h].parent
        BY <1>8, <1>9 DEF Committed
      <4>4. QED
        BY <4>1, <4>2, <4>3, <1>2 DEF Rotating
    <3>2. Committed(k)' /\ key'[k].revokedBy = q
      BY <1>4, <1>6, <1>9
    <3>3. Rotating(q) => \E h \in Keys : Committed(h)' /\ key'[h].parent = k
      <4>1. SUFFICES ASSUME Rotating(q)
                     PROVE  \E h \in Keys : Committed(h)' /\ key'[h].parent = k
        OBVIOUS
      <4>2. PICK h \in Keys : Exists(h) /\ key[h].maker = q
        BY <4>1, <1>1 DEF EndsOK, TookEffect
      <4>3. key[h].parent = k
        BY <4>1, <4>2, <1>1 DEF RowsOK, Rotating, TookEffect
      <4>4. QED
        BY <4>2, <4>3, <1>8, <1>9
    <3>4. QED
      BY <3>1, <3>2, <3>3, <1>1, <1>2 DEF Rotating
  <2>3. (\A r \in Requests : pc[r] = "commit" =>
          \E h \in Keys : Exists(h) /\ key[h].maker = r)'
    BY <1>2, <1>7, <1>8 DEF EndsOK, TookEffect
  <2>4. (\A r \in Requests : outcome[r] \in {"ok", "lost"} /\ ask[r].op # "create" =>
          Exists(ask[r].key) /\ key[ask[r].key].revokedBy = r)'
    <3>1. ASSUME NEW r \in Requests \ {q}, outcome'[r] \in {"ok", "lost"}, ask[r].op # "create"
          PROVE  /\ ask[r].key \in Keys \ {k} /\ Exists(ask[r].key)
                 /\ key[ask[r].key].revokedBy = r
      <4>1. outcome[r] \in {"ok", "lost"} /\ pc[r] # "idle"
        BY <3>1, <1>2 DEF StepsOK
      <4>2. ask[r].key \in Keys /\ Exists(ask[r].key) /\ key[ask[r].key].revokedBy = r
        BY <3>1, <4>1, AskedKeys DEF EndsOK, TookEffect
      <4>3. QED
        BY <4>2, <1>4, ApiKeysAssumption DEF Revoked
    <3>2. QED
      BY <3>1, <1>1, <1>2, <1>4, <1>5, <1>6, <1>7
  <2>5. QED
    BY <2>1, <2>2, <2>3, <2>4 DEF EndsOK, TookEffect
<1>18. ASSUME NEW r \in Requests PROVE ExpiryHeld(r)'
  <2>1. SUFFICES ASSUME pc'[r] \in {"begin", "lock", "insert"}, Rotating(r)'
                 PROVE  ExpiryHeld(r)'
    BY DEF ExpiryHeld
  <2>2. r # q /\ pc'[r] = pc[r] /\ ask'[r] = ask[r] /\ ask[r].key \in Keys
    BY <2>1, <1>2, AskedKeys DEF Rotating
  <2>3. ExpiryHeld(r) /\ Rotating(r) /\ Committed(ask[r].key)
    BY <2>1, <2>2, <1>2 DEF ExpiryOK, ExpiryHeld, Rotating
  <2>4. Committed(ask[r].key)' /\ key'[ask[r].key].expires = key[ask[r].key].expires
    BY <2>2, <2>3, <1>8, <1>9 DEF Committed
  <2>5. QED
    BY <2>1, <2>2, <2>3, <2>4, <1>2 DEF ExpiryHeld
<1>19. UploadsOK'
  <2>1. \A u \in Uploads : upload[u] # NoUpload => upload[u].key \in Keys
    BY DEF KeysTypeOK
  <2>2. \A h \in Keys : Committed(h) => Committed(h)' /\ (Good(h)' => Good(h))
    BY <1>2, <1>5, <1>6, <1>8, <1>9, ApiKeysAssumption DEF Good, Past, Revoked, Committed
  <2>3. QED
    BY <1>2, <2>1, <2>2 DEF UploadsOK
<1>20. LimitInherited' /\ ScopesOK'
  BY <1>2, <1>7, <1>8 DEF LimitInherited, ScopesOK
<1>21. ShutOut'
  BY <1>2 DEF ShutOut
<1>22. QED
  BY <1>12, <1>13, <1>15, <1>16, <1>17, <1>18, <1>19, <1>20, <1>21 DEF ExpiryOK

(* The request's one INSERT: of a new key, which commits at once, or of    *)
(* the heir of the key it has locked.                                      *)
LEMMA InsertionKeeps ==
    ASSUME RotationsHeld, NEW q \in Requests, NEW scope \in Scopes,
           NEW parent \in Keys \cup {NoParent}, InsertRow(q, scope, parent),
           parent \in Keys => scope = key[parent].scope,
           \/ /\ pc[q] = "create" /\ parent = NoParent /\ Effect(q)
           \/ /\ pc[q] = "insert" /\ parent = ask[q].key
              /\ Goto(q, "commit") /\ UNCHANGED outcome,
           UNCHANGED <<day, ask, expires, began, upload>>
    PROVE  RotationsHeld'
<1> USE DEF RotationsHeld
<1> DEFINE row == [name |-> ask[q].name, scope |-> scope, expires |-> expires[q],
                   created |-> began[q], maker |-> q, revokedBy |-> NoRequest,
                   parent |-> parent]
<1>1. /\ ask[q].name \in Names /\ expires[q] \in Nat /\ began[q] \in Nat
      /\ Rotating(q) <=> pc[q] = "insert"
      /\ Rotating(q) => parent = ask[q].key /\ parent \in Keys
      /\ ~Rotating(q) => ask[q].op = "create" /\ parent = NoParent
  BY AskedKeys DEF StepsOK, Rotating, KeysTypeOK
<1>2. PICK h \in Keys : ~Exists(h) /\ key' = [key EXCEPT ![h] = row]
  BY DEF InsertRow
<1>3. row \in Row /\ row # NoKey
  BY <1>1, RowIsNoNoKey DEF Row
<1>4. key'[h] = row /\ \A j \in Keys \ {h} : key'[j] = key[j]
  BY <1>2 DEF KeysTypeOK
<1> HIDE DEF row
<1>5. /\ row.scope = scope /\ row.maker = q /\ row.revokedBy = NoRequest /\ row.parent = parent
      /\ row.expires = expires[q] /\ row.created = began[q]
  BY DEF row
<1>6. Exists(h)' /\ \A j \in Keys \ {h} : Exists(j)' <=> Exists(j)
  BY <1>3, <1>4 DEF Exists
<1>7. \A j \in Keys : Exists(j) => j # h /\ key'[j] = key[j] /\ Exists(j)' /\ key[j] \in Row
  BY <1>2, <1>4, <1>6, KeyFields
<1>8. \A j \in Keys : Exists(j) =>
        key[j].maker # q /\ key[j].maker \in Requests \cup {NoRequest}
  BY <1>7, ApiKeysAssumption DEF RowsOK, Row, TookEffect
<1>9. /\ pc'[q] = (IF Rotating(q) THEN "commit" ELSE "done")
      /\ Rotating(q) => outcome'[q] = "none"
      /\ ~Rotating(q) => outcome'[q] \in {"ok", "lost"}
      /\ \A r \in Requests \ {q} : pc'[r] = pc[r] /\ outcome'[r] = outcome[r]
      /\ UNCHANGED <<day, ask, expires, began, upload>>
  BY <1>1 DEF Effect, End, Goto, KeysTypeOK, StepsOK
<1>10. \A j \in Keys \ {h} : Committed(j)' <=> Committed(j)
  BY <1>4, <1>6, <1>7, <1>8, <1>9 DEF Committed
<1>11. Committed(h)' <=> ~Rotating(q)
  BY <1>4, <1>5, <1>6, <1>9, ApiKeysAssumption DEF Committed
<1>12. \A j \in Keys : Committed(j) => j # h /\ Committed(j)' /\ key'[j] = key[j]
  BY <1>7, <1>10 DEF Committed
<1>13. \A j \in Keys : Revocable(j) => Revocable(j)'
  BY <1>12 DEF Revocable, Revoked
<1>14. KeysTypeOK'
  <2>1. key' \in [Keys -> Row \cup {NoKey}]
    BY <1>2, <1>3 DEF KeysTypeOK
  <2>2. (\A j \in Keys : Exists(j) /\ key[j].expires # Never
                       => key[j].expires > key[j].created)'
    BY <1>4, <1>5, <1>6 DEF KeysTypeOK, InsertRow, ExpiryAccepted
  <2>3. pc' \in [Requests -> {"idle", "read", "begin", "create", "lock", "insert",
                            "commit", "revoke", "done"}]
        /\ outcome' \in [Requests -> {"none", "ok", "lost", "notFound", "revoked",
                                      "nameConflict", "error", "cancelled"}]
    BY DEF Effect, End, Goto, KeysTypeOK
  <2>4. \A r \in Requests : pc'[r] # "idle" => ask'[r] \in Ask
    BY <1>9 DEF KeysTypeOK
  <2>5. QED
    BY <1>9, <2>1, <2>2, <2>3, <2>4 DEF KeysTypeOK
<1>15. StepsOK'
  BY <1>1, <1>9 DEF StepsOK, Rotating
<1>16. LocksOK'
  BY <1>1, <1>9, <1>13, AskedKeys DEF LocksOK, StepsOK, Rotating
<1>17. RowsOK'
  <2>1. ASSUME NEW j \in Keys, Exists(j)
        PROVE  /\ key'[j].parent \in Keys => key'[j].maker \in Requests
               /\ key'[j].maker \in Requests =>
                    /\ \/ pc'[key'[j].maker] = "commit"
                       \/ pc'[key'[j].maker] = "done" /\ outcome'[key'[j].maker] \in {"ok", "lost"}
                    /\ IF key'[j].parent \in Keys
                       THEN ask'[key'[j].maker].op = "rotate"
                            /\ ask'[key'[j].maker].key = key'[j].parent
                       ELSE ask'[key'[j].maker].op = "create"
                    /\ key'[j].maker # q
    BY <2>1, <1>7, <1>8, <1>9 DEF RowsOK, Rotating, TookEffect
  <2>2. \A j, i \in Keys : Exists(j) /\ Exists(i) /\ key[i].maker \in Requests
                         /\ key[i].maker = key[j].maker => i = j
    BY DEF RowsOK, TookEffect
  <2>3. QED
    BY <2>1, <2>2, <1>1, <1>4, <1>5, <1>6, <1>7, <1>9, ApiKeysAssumption
    DEF RowsOK, Rotating, TookEffect
<1>18. EndsOK'
  <2>1. (\A j \in Keys : Committed(j) /\ key[j].parent \in Keys =>
          Committed(key[j].parent) /\ key[key[j].parent].revokedBy = key[j].maker)'
    BY <1>1, <1>4, <1>5, <1>10, <1>11, <1>12, ApiKeysAssumption DEF EndsOK, TookEffect
  <2>2. (\A j \in Keys : Exists(j) /\ Revoked(j) =>
          LET r == key[j].revokedBy IN
          /\ Committed(j) /\ outcome[r] \in {"ok", "lost"}
          /\ ask[r].op \in {"rotate", "revoke"} /\ ask[r].key = j
          /\ Rotating(r) => \E i \in Keys : Committed(i) /\ key[i].parent = j)'
    <3>1. ASSUME NEW j \in Keys, Exists(j)', Revoked(j)', NEW r, r = key'[j].revokedBy
          PROVE  /\ Committed(j)' /\ outcome'[r] \in {"ok", "lost"}
                 /\ ask'[r].op \in {"rotate", "revoke"} /\ ask'[r].key = j
                 /\ Rotating(r)' => \E i \in Keys : Committed(i)' /\ key'[i].parent = j
      <4>1. /\ Exists(j) /\ Revoked(j) /\ r = key[j].revokedBy /\ r \in Requests
        BY <3>1, <1>4, <1>5, <1>6, <1>7 DEF Revoked, Row
      <4>2. /\ Committed(j) /\ outcome[r] \in {"ok", "lost"}
            /\ ask[r].op \in {"rotate", "revoke"} /\ ask[r].key = j
            /\ Rotating(r) => \E i \in Keys : Committed(i) /\ key[i].parent = j
        BY <4>1 DEF EndsOK, TookEffect
      <4>3. r # q
        BY <4>2, <1>9 DEF StepsOK
      <4>4. QED
        BY <4>1, <4>2, <4>3, <1>9, <1>12 DEF Rotating
    <3>2. QED
      BY <3>1
  <2>3. (\A r \in Requests : pc[r] = "commit" =>
          \E j \in Keys : Exists(j) /\ key[j].maker = r)'
    BY <1>4, <1>5, <1>6, <1>7, <1>9 DEF EndsOK, TookEffect
  <2>4. (\A r \in Requests : outcome[r] \in {"ok", "lost"} /\ ask[r].op # "create" =>
          Exists(ask[r].key) /\ key[ask[r].key].revokedBy = r)'
    <3>1. ASSUME NEW r \in Requests, outcome'[r] \in {"ok", "lost"}, ask[r].op # "create"
          PROVE  ask[r].key \in Keys /\ Exists(ask[r].key) /\ key[ask[r].key].revokedBy = r
      <4>1. r # q /\ outcome[r] \in {"ok", "lost"} /\ pc[r] # "idle"
        BY <3>1, <1>1, <1>9 DEF StepsOK, Rotating
      <4>2. QED
        BY <3>1, <4>1, AskedKeys DEF EndsOK, TookEffect
    <3>2. QED
      BY <3>1, <1>7, <1>9
  <2>5. QED
    BY <2>1, <2>2, <2>3, <2>4 DEF EndsOK, TookEffect
<1>19. ASSUME NEW r \in Requests PROVE ExpiryHeld(r)'
  <2>1. SUFFICES ASSUME pc'[r] \in {"begin", "lock", "insert"}, Rotating(r)'
                 PROVE  ExpiryHeld(r)'
    BY DEF ExpiryHeld
  <2>2. r # q /\ pc'[r] = pc[r] /\ ask'[r] = ask[r] /\ ask[r].key \in Keys
    BY <2>1, <1>9, AskedKeys DEF Rotating
  <2>3. QED
    BY <2>1, <2>2, <1>9, <1>12 DEF ExpiryOK, ExpiryHeld, Rotating
<1>20. UploadsOK'
  <2>1. \A u \in Uploads : upload[u] # NoUpload => upload[u].key \in Keys
    BY DEF KeysTypeOK
  <2>2. QED
    BY <1>9, <1>12, <2>1 DEF UploadsOK, Good, Past, Revoked
<1>21. LimitInherited' /\ ScopesOK'
  <2>1. ASSUME NEW j \in Keys, Exists(j), key[j].parent \in Keys
        PROVE  Exists(key[j].parent)
    BY <2>1 DEF ScopesOK
  <2>2. ASSUME Rotating(q)
        PROVE  \/ ask[q].days > 0
               \/ expires[q] = key[parent].expires
               \/ key[parent].expires # Never /\ key[parent].expires <= began[q]
    BY <2>2, <1>1 DEF ExpiryOK, ExpiryHeld
  <2>3. ASSUME Rotating(q) PROVE Exists(parent)
    BY <2>3, <1>1 DEF LocksOK, Revocable, Committed
  <2>4. QED
    BY <2>1, <2>2, <2>3, <1>1, <1>4, <1>5, <1>6, <1>7, <1>9, ApiKeysAssumption
    DEF LimitInherited, ScopesOK
<1>22. ShutOut'
  BY <1>9 DEF ShutOut
<1>23. QED
  BY <1>14, <1>15, <1>16, <1>17, <1>18, <1>19, <1>20, <1>21, <1>22 DEF ExpiryOK

(* Uploads and time touch no request and no key.                           *)
LEMMA UploadKeeps ==
    ASSUME RotationsHeld, NEW u \in Uploads, Send(u) \/ Authenticate(u)
    PROVE  RotationsHeld'
<1> USE DEF RotationsHeld
<1>1. UNCHANGED <<key, day, pc, ask, expires, began, outcome>>
  BY DEF Send, Authenticate, requestVars
<1>2. \A v \in Uploads \ {u} : upload'[v] = upload[v]
  BY DEF Send, Authenticate, KeysTypeOK
<1>3. /\ upload'[u] \in [verdict : {"none", "accepted", "refused"}, key : Keys, live : BOOLEAN]
      /\ Committed(upload'[u].key)
      /\ ~upload'[u].live => ~Good(upload'[u].key)
      /\ upload'[u].verdict = "accepted" => upload'[u].live
  <2>1. CASE Send(u)
    <3>1. PICK k \in Keys : Committed(k) /\ upload' = [upload EXCEPT ![u] =
               [verdict |-> "none", key |-> k, live |-> Good(k)]]
      BY <2>1 DEF Send
    <3>2. upload'[u] = [verdict |-> "none", key |-> k, live |-> Good(k)]
      BY <3>1 DEF KeysTypeOK
    <3>3. Good(k) \in BOOLEAN
      BY DEF Good
    <3>4. QED
      BY <3>1, <3>2, <3>3
  <2>2. CASE Authenticate(u)
    <3>1. /\ upload[u] # NoUpload
          /\ upload[u] \in
               [verdict : {"none", "accepted", "refused"}, key : Keys, live : BOOLEAN]
      <4>1. NoUpload.verdict # "none"
        BY DEF NoUpload
      <4>2. upload[u] \in {NoUpload} \cup
               [verdict : {"none", "accepted", "refused"}, key : Keys, live : BOOLEAN]
        BY DEF KeysTypeOK
      <4>3. QED
        BY <2>2, <4>1, <4>2 DEF Authenticate
    <3>2. upload'[u] = [upload[u] EXCEPT !.verdict =
             IF Admits(upload[u].key) THEN "accepted" ELSE "refused"]
      BY <2>2 DEF Authenticate, KeysTypeOK
    <3>3. Admits(upload[u].key) => Good(upload[u].key)
      BY DEF Admits, Good, Revocable
    <3>4. QED
      BY <3>1, <3>2, <3>3 DEF UploadsOK
  <2>3. QED
    BY <2>1, <2>2
<1>4. KeysTypeOK'
  <2>1. upload' \in [Uploads -> {NoUpload} \cup
           [verdict : {"none", "accepted", "refused"}, key : Keys, live : BOOLEAN]]
    BY <1>3 DEF Send, Authenticate, KeysTypeOK
  <2>2. QED
    BY <1>1, <2>1 DEF KeysTypeOK, Exists
<1>5. StepsOK' /\ LocksOK' /\ RowsOK' /\ ScopesOK' /\ EndsOK' /\ LimitInherited'
  BY <1>1 DEF StepsOK, LocksOK, RowsOK, ScopesOK, EndsOK, LimitInherited, Rotating, Revocable,
     Committed, Revoked, Exists, TookEffect
<1>6. ExpiryOK'
  BY <1>1 DEF ExpiryOK, ExpiryHeld, Rotating, Committed, Exists
<1>7. UploadsOK' /\ ShutOut'
  BY <1>1, <1>2, <1>3 DEF UploadsOK, ShutOut, Good, Past, Committed, Revoked, Exists
<1>8. QED
  BY <1>4, <1>5, <1>6, <1>7

LEMMA TickKeeps == RotationsHeld /\ Tick => RotationsHeld'
<1> SUFFICES ASSUME RotationsHeld, Tick PROVE RotationsHeld'
  OBVIOUS
<1> USE DEF RotationsHeld
<1>1. UNCHANGED <<key, pc, ask, expires, began, outcome, upload>> /\ day' = day + 1
      /\ day \in Nat
  BY DEF Tick, requestVars, KeysTypeOK
<1>2. KeysTypeOK'
  BY <1>1 DEF KeysTypeOK, Exists
<1>3. StepsOK' /\ LocksOK' /\ RowsOK' /\ ScopesOK' /\ EndsOK' /\ LimitInherited' /\ ShutOut'
  BY <1>1 DEF StepsOK, LocksOK, RowsOK, ScopesOK, EndsOK, LimitInherited, Rotating, Revocable,
     Committed, Revoked, Exists, ShutOut, TookEffect
<1>4. \A k \in Keys : (Committed(k)' <=> Committed(k))
                     /\ (Committed(k) => key[k].expires \in Nat)
  BY <1>1, KeyFields DEF Committed, Exists, Row
<1>5. ExpiryOK'
  <2>1. ASSUME NEW r \in Requests, pc[r] \in {"begin", "lock", "insert"}, Rotating(r)
        PROVE  ask[r].key \in Keys /\ key[ask[r].key].expires \in Nat
    BY <2>1, <1>4, AskedKeys DEF ExpiryOK, ExpiryHeld, Rotating
  <2>2. QED
    BY <2>1, <1>1 DEF ExpiryOK, ExpiryHeld, Rotating, Committed, Exists
<1>6. UploadsOK'
  <2>1. \A u \in Uploads : upload[u] # NoUpload => upload[u].key \in Keys
    BY DEF KeysTypeOK
  <2>2. QED
    BY <1>1, <1>4, <2>1 DEF UploadsOK, Good, Past, Revoked
<1>7. QED
  BY <1>2, <1>3, <1>5, <1>6

LEMMA NextKeeps == RotationsHeld /\ [Next]_vars => RotationsHeld'
<1> SUFFICES ASSUME RotationsHeld, [Next]_vars PROVE RotationsHeld'
  OBVIOUS
<1>1. ASSUME NEW q \in Requests, Receive(q) PROVE RotationsHeld'
  BY <1>1, ReceiveHolds
<1>2. ASSUME NEW q \in Requests, Proceed(q) PROVE RotationsHeld'
  <2>1. CASE ReadForRevoke(q) \/ ReadForRotate(q) \/ Begin(q) \/ LockKey(q)
    BY <2>1, ReadForRevokeHolds, ReadForRotateHolds, BeginHolds, LockKeyHolds
  <2>2. CASE KeyNotFound(q) \/ AlreadyRevoked(q) \/ RevokedMeanwhile(q)
             \/ NameConflict(q) \/ ExpiryRefused(q) \/ NothingToRevoke(q)
    BY <2>2, FailKeeps DEF KeyNotFound, AlreadyRevoked, RevokedMeanwhile, NameConflict,
       ExpiryRefused, NothingToRevoke
  <2>3. CASE Create(q)
    <3>1. ask[q].scope \in Scopes
      BY <2>3, AskedKeys DEF Create, RotationsHeld, StepsOK
    <3>2. QED
      BY <2>3, <3>1, ApiKeysAssumption, InsertionKeeps DEF Create
  <2>4. CASE InsertHeir(q)
    <3>1. ask[q].key \in Keys /\ key[ask[q].key].scope \in Scopes
      BY <2>4, AskedKeys, KeyFields DEF InsertHeir, RotationsHeld, StepsOK, Rotating,
         LocksOK, Revocable, Committed, Row
    <3>2. QED
      BY <2>4, <3>1, InsertionKeeps DEF InsertHeir
  <2>5. CASE CommitRotation(q) \/ RevokeKey(q)
    BY <2>5, RevocationKeeps DEF CommitRotation, RevokeKey
  <2>6. QED
    BY <1>2, <2>1, <2>2, <2>3, <2>4, <2>5 DEF Proceed
<1>3. ASSUME NEW q \in Requests, Cancel(q) PROVE RotationsHeld'
  BY <1>3, FailKeeps DEF Cancel
<1>4. ASSUME NEW u \in Uploads, Send(u) \/ Authenticate(u) PROVE RotationsHeld'
  BY <1>4, UploadKeeps
<1>5. CASE Tick
  BY <1>5, TickKeeps
<1>6. CASE UNCHANGED vars
  BY <1>6 DEF vars, requestVars, RotationsHeld, KeysTypeOK, StepsOK, LocksOK, RowsOK, ScopesOK, EndsOK,
     ExpiryOK, ExpiryHeld, UploadsOK, LimitInherited, ShutOut, Rotating, Revocable,
     Committed, Revoked, Exists, Good, Past, TookEffect
<1>7. QED
  BY <1>1, <1>2, <1>3, <1>4, <1>5, <1>6 DEF Next

(* What a rotation holds while it runs, which everything below follows     *)
(* from.                                                                   *)
THEOREM RotationsInvariant == Spec => []RotationsHeld
<1>1. Init => RotationsHeld
  BY InitHolds
<1>2. RotationsHeld /\ [Next]_vars => RotationsHeld'
  BY NextKeeps
<1>3. QED
  BY <1>1, <1>2, PTL DEF Spec

LEMMA HeldEndsOnce == RotationsHeld => EndedOnce
<1> SUFFICES ASSUME RotationsHeld PROVE EndedOnce
  OBVIOUS
<1> USE DEF RotationsHeld
<1>1. ASSUME NEW k \in Keys, Exists(k), Revoked(k), NEW q, q = key[k].revokedBy
      PROVE  /\ outcome[q] \in {"ok", "lost"} /\ ask[q].key = k
             /\ ask[q].op = "rotate" <=> \E h \in Keys : Exists(h) /\ key[h].parent = k
  <2>1. /\ outcome[q] \in {"ok", "lost"} /\ ask[q].key = k /\ Committed(k)
        /\ Rotating(q) => \E h \in Keys : Committed(h) /\ key[h].parent = k
    BY <1>1 DEF EndsOK, TookEffect
  <2>2. ASSUME NEW h \in Keys, Exists(h), key[h].parent = k PROVE Rotating(q)
    <3>1. /\ key[h].maker \in Requests /\ Rotating(key[h].maker)
          /\ ask[key[h].maker].key = k /\ pc[key[h].maker] \in {"commit", "done"}
      BY <2>2 DEF RowsOK, TookEffect
    <3>2. CASE pc[key[h].maker] = "done"
      <4>1. Committed(h)
        BY <2>2, <3>2 DEF Committed
      <4>2. key[k].revokedBy = key[h].maker
        BY <4>1, <2>2 DEF EndsOK, TookEffect
      <4>3. QED
        BY <4>2, <3>1, <1>1
    <3>3. CASE pc[key[h].maker] = "commit"
      BY <3>1, <3>3, <1>1 DEF LocksOK, Revocable
    <3>4. QED
      BY <3>1, <3>2, <3>3
  <2>3. QED
    BY <2>1, <2>2 DEF Committed, Rotating
<1>2. \A q \in Requests : outcome[q] \in {"ok", "lost"} /\ ask[q].op # "create" =>
        Exists(ask[q].key) /\ key[ask[q].key].revokedBy = q
  BY DEF EndsOK, TookEffect
<1>3. ASSUME NEW h \in Keys, NEW j \in Keys, Committed(h), Committed(j),
             key[h].parent \in Keys, key[h].parent = key[j].parent
      PROVE  h = j
  BY <1>3 DEF EndsOK, RowsOK, Committed, TookEffect
<1>4. QED
  BY <1>1, <1>2, <1>3 DEF EndedOnce, TookEffect

(* A key is ended once: at most one request that asked for it answers 2xx, *)
(* and whoever answers 404 or 409 has ended none; the answer to a COMMIT   *)
(* may be lost (apikeys/service.go:166-264, apikeys/handlers.go).          *)
THEOREM KeysEndOnce == Spec => []EndedOnce
BY HeldEndsOnce, RotationsInvariant, PTL

(* The rows of api_keys keep their types and the expiry CHECK.             *)
THEOREM KeysTyped == Spec => []KeysTypeOK
<1>1. RotationsHeld => KeysTypeOK
  BY DEF RotationsHeld
<1>2. QED
  BY <1>1, RotationsInvariant, PTL

(* A successor does not outlive the limit of the key it replaces, unless   *)
(* that was asked for or the key had ended (apikeys/handlers.go:375-382).  *)
THEOREM LimitsInherited == Spec => []LimitInherited
<1>1. RotationsHeld => LimitInherited
  BY DEF RotationsHeld
<1>2. QED
  BY <1>1, RotationsInvariant, PTL

(* A token that was dead when an upload arrived does not let it in         *)
(* (apikey/auth.go).                                                       *)
THEOREM DeadTokensShutOut == Spec => []ShutOut
<1>1. RotationsHeld => ShutOut
  BY DEF RotationsHeld
<1>2. QED
  BY <1>1, RotationsInvariant, PTL

-----------------------------------------------------------------------------
(* The refinement.                                                         *)

LEMMA SameView ==
    ASSUME \A k \in Keys : Committed(k)' <=> Committed(k),
           \A k \in Keys : Committed(k) => key'[k] = key[k]
    PROVE  UNCHANGED <<Granted, Origin>>
<1>1. UNCHANGED Granted
  <2>1. \A k \in Keys : Granted'[k] = Granted[k]
    BY DEF Granted, Revoked
  <2>2. QED
    BY <2>1 DEF Granted
<1>2. UNCHANGED Origin
  <2>1. \A k \in Keys : Origin'[k] = Origin[k]
    BY DEF Origin
  <2>2. QED
    BY <2>1 DEF Origin
<1>3. QED
  BY <1>1, <1>2

LEMMA MakersKnown ==
    ASSUME RotationsHeld
    PROVE  \A k \in Keys : Exists(k) =>
             /\ key[k].maker \in Requests \cup {NoRequest}
             /\ key[k].maker \in Requests => pc[key[k].maker] \in {"commit", "done"}
BY KeyFields DEF RotationsHeld, RowsOK, Row, TookEffect

LEMMA MoveView ==
    ASSUME RotationsHeld, NEW q \in Requests, UNCHANGED key, NEW step,
           pc' = [pc EXCEPT ![q] = step], pc[q] \notin {"commit", "done"}
    PROVE  UNCHANGED <<Granted, Origin>>
<1>1. \A r \in Requests \ {q} : pc'[r] = pc[r]
  BY DEF RotationsHeld, KeysTypeOK
<1>2. \A k \in Keys : Committed(k)' <=> Committed(k)
  BY <1>1, MakersKnown DEF Committed, Exists
<1>3. QED
  BY <1>2, SameView

LEMMA FailView ==
    ASSUME RotationsHeld, NEW q \in Requests, pc[q] # "done", NEW how, Fail(q, how)
    PROVE  UNCHANGED <<Granted, Origin>>
<1>1. pc'[q] = "done" /\ \A r \in Requests \ {q} : pc'[r] = pc[r]
  BY DEF Fail, End, RotationsHeld, KeysTypeOK
<1>2. \A k \in Keys : key'[k] = IF Exists(k) /\ key[k].maker = q THEN NoKey ELSE key[k]
  BY DEF Fail, WithoutRowsOf
<1>3. \A k \in Keys : Committed(k)' <=> Committed(k)
  BY <1>1, <1>2, MakersKnown, ApiKeysAssumption DEF Committed, Exists
<1>4. \A k \in Keys : Committed(k) => key'[k] = key[k]
  BY <1>2, ApiKeysAssumption DEF Committed
<1>5. QED
  BY <1>3, <1>4, SameView

LEMMA CreateView ==
    ASSUME RotationsHeld, RotationsHeld', NEW q \in Requests, Create(q)
    PROVE  \E h \in Keys : Ring!Issue(h)
<1>1. pc'[q] = "done" /\ \A r \in Requests \ {q} : pc'[r] = pc[r]
  BY DEF Create, Effect, End, RotationsHeld, KeysTypeOK
<1>2. ask[q].scope \in Scopes
  BY AskedKeys DEF Create, RotationsHeld, StepsOK
<1>3. PICK h \in Keys :
        /\ ~Exists(h)
        /\ key' = [key EXCEPT ![h] =
               [name |-> ask[q].name, scope |-> ask[q].scope, expires |-> expires[q],
                created |-> began[q], maker |-> q, revokedBy |-> NoRequest,
                parent |-> NoParent]]
  BY DEF Create, InsertRow
<1>4. /\ key'[h].maker = q /\ key'[h].revokedBy = NoRequest /\ key'[h].parent = NoParent
      /\ key'[h].scope = ask[q].scope /\ key'[h] # NoKey
      /\ \A j \in Keys \ {h} : key'[j] = key[j]
  <2>1. "scope" \notin DOMAIN NoKey
    BY DEF NoKey
  <2>2. QED
    BY <1>3, <2>1 DEF RotationsHeld, KeysTypeOK
<1>5. \A j \in Keys \ {h} : Committed(j)' <=> Committed(j)
  BY <1>1, <1>4, MakersKnown DEF Committed, Exists, Create
<1>6. ~Committed(h) /\ Committed(h)'
  BY <1>1, <1>3, <1>4 DEF Committed, Exists
<1>7. Granted[h] = "unissued" /\ Granted' = [Granted EXCEPT ![h] = ask[q].scope]
  BY <1>4, <1>5, <1>6 DEF Granted, Revoked
<1>8. UNCHANGED Origin
  BY <1>4, <1>5, <1>6 DEF Origin
<1>9. QED
  BY <1>2, <1>7, <1>8 DEF Ring!Issue

LEMMA InsertHeirView ==
    ASSUME RotationsHeld, NEW q \in Requests, InsertHeir(q)
    PROVE  UNCHANGED <<Granted, Origin>>
<1>1. pc'[q] = "commit" /\ \A r \in Requests \ {q} : pc'[r] = pc[r]
  BY DEF InsertHeir, Goto, RotationsHeld, KeysTypeOK
<1>2. PICK h \in Keys :
        /\ ~Exists(h) /\ key'[h].maker = q
        /\ \A j \in Keys \ {h} : key'[j] = key[j]
  BY DEF InsertHeir, InsertRow, RotationsHeld, KeysTypeOK
<1>3. \A j \in Keys : Committed(j)' <=> Committed(j)
  BY <1>1, <1>2, MakersKnown, ApiKeysAssumption DEF Committed, Exists, InsertHeir
<1>4. QED
  BY <1>2, <1>3, SameView DEF Committed

LEMMA RevokeView ==
    ASSUME RotationsHeld, NEW q \in Requests, RevokeKey(q)
    PROVE  \E k \in Keys : Ring!Withdraw(k)
<1>1. PICK k \in Keys : k = ask[q].key
  BY AskedKeys DEF RevokeKey, RotationsHeld, StepsOK
<1>2. pc'[q] = "done" /\ \A r \in Requests \ {q} : pc'[r] = pc[r]
  BY DEF RevokeKey, Effect, End, RotationsHeld, KeysTypeOK
<1>3. Exists(k) /\ Committed(k) /\ ~Revoked(k) /\ key[k] \in Row
  BY <1>1, KeyFields DEF RevokeKey, Revocable, Committed, RotationsHeld
<1>4. /\ key'[k] = [key[k] EXCEPT !.revokedBy = q]
      /\ \A j \in Keys \ {k} : key'[j] = key[j]
  BY <1>1 DEF RevokeKey, RotationsHeld, KeysTypeOK
<1>5. /\ key'[k] \in Row /\ key'[k] # NoKey /\ key'[k].revokedBy = q
      /\ key'[k].maker = key[k].maker /\ key'[k].parent = key[k].parent
  BY <1>3, <1>4, RowIsNoNoKey DEF Row
<1>6. \A j \in Keys : Committed(j)' <=> Committed(j)
  BY <1>2, <1>3, <1>4, <1>5, MakersKnown DEF Committed, Exists, RevokeKey
<1>7. Granted[k] \notin Ring!Nothing /\ Granted' = [Granted EXCEPT ![k] = "gone"]
  <2>1. Granted[k] \notin Ring!Nothing
    BY <1>3, ApiKeysAssumption DEF Granted, Ring!Nothing, Row
  <2>2. \A j \in Keys : Granted'[j] = IF j = k THEN "gone" ELSE Granted[j]
    BY <1>3, <1>4, <1>5, <1>6, ApiKeysAssumption DEF Granted, Revoked
  <2>3. QED
    BY <2>1, <2>2 DEF Granted
<1>8. UNCHANGED Origin
  BY <1>3, <1>4, <1>5, <1>6 DEF Origin
<1>9. QED
  BY <1>7, <1>8 DEF Ring!Withdraw

LEMMA RotationView ==
    ASSUME RotationsHeld, NEW q \in Requests, CommitRotation(q)
    PROVE  \E k, h \in Keys : Ring!Exchange(k, h)
<1>1. PICK k \in Keys : k = ask[q].key
  BY AskedKeys DEF CommitRotation, RotationsHeld, StepsOK, Rotating
<1>2. pc'[q] = "done" /\ \A r \in Requests \ {q} : pc'[r] = pc[r]
  BY DEF CommitRotation, Effect, End, RotationsHeld, KeysTypeOK
<1>3. Exists(k) /\ Committed(k) /\ ~Revoked(k) /\ key[k] \in Row
  BY <1>1, KeyFields DEF CommitRotation, Revocable, Committed, RotationsHeld
<1>4. /\ key'[k] = [key[k] EXCEPT !.revokedBy = q]
      /\ \A j \in Keys \ {k} : key'[j] = key[j]
  BY <1>1 DEF CommitRotation, RotationsHeld, KeysTypeOK
<1>5. /\ key'[k] \in Row /\ key'[k] # NoKey /\ key'[k].revokedBy = q
      /\ key'[k].maker = key[k].maker /\ key'[k].parent = key[k].parent
  BY <1>3, <1>4, RowIsNoNoKey DEF Row
<1>6. PICK h \in Keys : Exists(h) /\ key[h].maker = q
  BY DEF CommitRotation, RotationsHeld, EndsOK, TookEffect
<1>7. /\ ~Committed(h) /\ ~Revoked(h) /\ h # k /\ key[h].parent = k
      /\ \A j \in Keys : Exists(j) /\ key[j].maker = q => j = h
  <2>1. ~Committed(h)
    BY <1>6, ApiKeysAssumption DEF Committed, CommitRotation
  <2>2. ~Revoked(h)
    BY <1>6, <2>1 DEF RotationsHeld, EndsOK, TookEffect
  <2>3. Rotating(q)
    BY DEF CommitRotation, RotationsHeld, StepsOK
  <2>4. key[h].parent = k
    BY <1>1, <1>6, <2>3 DEF RotationsHeld, RowsOK, Rotating, TookEffect
  <2>5. QED
    BY <1>3, <1>6, <2>1, <2>2, <2>4 DEF RotationsHeld, RowsOK, TookEffect
<1>8. key[h].scope = key[k].scope
  BY <1>6, <1>7 DEF RotationsHeld, ScopesOK
<1>9. Committed(h)' /\ \A j \in Keys \ {h} : Committed(j)' <=> Committed(j)
  BY <1>2, <1>3, <1>4, <1>5, <1>6, <1>7, MakersKnown DEF Committed, Exists, CommitRotation
<1>10. key'[h] = key[h]
  BY <1>4, <1>7
<1>11. /\ Granted[k] = key[k].scope /\ Granted[k] \notin Ring!Nothing
       /\ Granted[h] = "unissued"
  BY <1>3, <1>7, ApiKeysAssumption DEF Granted, Ring!Nothing, Row
<1>12. Granted' = [Granted EXCEPT ![k] = "gone", ![h] = Granted[k]]
  <2>1. Granted'[h] = Granted[k]
    BY <1>6, <1>7, <1>8, <1>9, <1>10, <1>11 DEF Granted, Revoked
  <2>2. Granted'[k] = "gone"
    BY <1>3, <1>5, <1>7, <1>9, ApiKeysAssumption DEF Granted, Revoked
  <2>3. ASSUME NEW j \in Keys \ {h, k} PROVE Granted'[j] = Granted[j]
    BY <1>4, <1>9 DEF Granted, Revoked
  <2>4. \A j \in Keys : Granted'[j] = IF j = h THEN Granted[k]
                                     ELSE IF j = k THEN "gone" ELSE Granted[j]
    BY <1>7, <2>1, <2>2, <2>3
  <2>5. QED
    BY <2>4 DEF Granted
<1>13. Origin' = [Origin EXCEPT ![h] = k]
  <2>1. \A j \in Keys : Origin'[j] = IF j = h THEN k ELSE Origin[j]
    BY <1>3, <1>4, <1>5, <1>7, <1>9, <1>10 DEF Origin
  <2>2. QED
    BY <2>1 DEF Origin
<1>14. QED
  BY <1>11, <1>12, <1>13 DEF Ring!Exchange

LEMMA RingStep ==
    RotationsHeld /\ RotationsHeld' /\ [Next]_vars => [Ring!Next]_<<Granted, Origin>>
<1> SUFFICES ASSUME RotationsHeld, RotationsHeld', [Next]_vars
             PROVE  Ring!Next \/ UNCHANGED <<Granted, Origin>>
  OBVIOUS
<1>1. ASSUME NEW q \in Requests, Receive(q) \/ Proceed(q) \/ Cancel(q)
      PROVE  Ring!Next \/ UNCHANGED <<Granted, Origin>>
  <2>1. CASE Receive(q) \/ ReadForRevoke(q) \/ ReadForRotate(q) \/ Begin(q) \/ LockKey(q)
    BY <2>1, MoveView DEF Receive, ReadForRevoke, ReadForRotate, Begin, LockKey, Goto
  <2>2. CASE KeyNotFound(q) \/ AlreadyRevoked(q) \/ RevokedMeanwhile(q) \/ NameConflict(q)
             \/ ExpiryRefused(q) \/ NothingToRevoke(q) \/ Cancel(q)
    BY <2>2, FailView DEF KeyNotFound, AlreadyRevoked, RevokedMeanwhile, NameConflict,
       ExpiryRefused, NothingToRevoke, Cancel
  <2>3. CASE Create(q)
    BY <2>3, CreateView DEF Ring!Next
  <2>4. CASE InsertHeir(q)
    BY <2>4, InsertHeirView
  <2>5. CASE CommitRotation(q)
    BY <2>5, RotationView DEF Ring!Next
  <2>6. CASE RevokeKey(q)
    BY <2>6, RevokeView DEF Ring!Next
  <2>7. QED
    BY <1>1, <2>1, <2>2, <2>3, <2>4, <2>5, <2>6 DEF Proceed
<1>2. ASSUME UNCHANGED <<key, pc>> PROVE UNCHANGED <<Granted, Origin>>
  BY <1>2 DEF Granted, Origin, Committed, Exists, Revoked
<1>3. QED
  BY <1>1, <1>2 DEF Next, Send, Authenticate, Tick, vars, requestVars

(* To everyone else a rotation is one exchange: the old key ends in the    *)
(* same step in which its one successor begins, with the same scopes.      *)
THEOREM RingImplemented == Spec => ImplementsRing
<1>1. Init => Ring!Init
  <2>1. SUFFICES ASSUME Init PROVE Ring!Init
    OBVIOUS
  <2>2. RotationsHeld
    BY <2>1, InitHolds
  <2>3. \A k \in Keys : Committed(k) => key[k].scope \in Scopes
    BY <2>2, KeyFields DEF RotationsHeld, Committed, Row
  <2>4. Granted \in [Keys -> Scopes \cup Ring!Nothing]
    BY <2>3 DEF Granted, Ring!Nothing
  <2>5. Origin = [k \in Keys |-> NoParent]
    BY <2>1 DEF Init, Origin, Committed, Exists
  <2>6. QED
    BY <2>4, <2>5 DEF Ring!Init
<1>2. RotationsHeld /\ RotationsHeld' /\ [Next]_vars => [Ring!Next]_<<Granted, Origin>>
  BY RingStep
<1>3. QED
  BY <1>1, <1>2, RotationsInvariant, PTL DEF Spec, ImplementsRing, Ring!Spec

-----------------------------------------------------------------------------
(* Waits for rows and names.                                               *)

(* A row that is not committed has its maker at its COMMIT.                *)
LEMMA NameHoldersFinish ==
    ASSUME RotationsHeld, NEW q \in Requests, NEW r \in NameHolders(q)
    PROVE  Finishes(r)
<1>1. PICK k \in Keys : Exists(k) /\ ~Committed(k) /\ key[k].maker = r /\ r \in Requests
  BY DEF NameHolders
<1>2. pc[r] = "commit"
  BY <1>1 DEF RotationsHeld, RowsOK, Committed, TookEffect
<1>3. QED
  BY <1>1, <1>2 DEF RotationsHeld, LocksOK, Finishes

(* Rotations lock a key and then a name, and whoever holds a name is about *)
(* to commit: for any number of requests there is no circle of waits, and  *)
(* nothing for PostgreSQL to break (apikeys/service.go:166-264).           *)
THEOREM KeyWaitsAreShort == Spec => []KeyWaitsEnd
<1>1. RotationsHeld => KeyWaitsEnd
  <2> SUFFICES ASSUME RotationsHeld, NEW q \in Requests, NEW r \in WaitsFor(q)
               PROVE  \/ Finishes(r)
                      \/ pc[r] = "insert" /\ \A p \in WaitsFor(r) : Finishes(p)
    BY DEF KeyWaitsEnd
  <2>1. r \in NameHolders(q) \/ r \in Holders(ask[q].key, q)
    BY DEF WaitsFor
  <2>2. CASE r \in NameHolders(q)
    BY <2>2, NameHoldersFinish
  <2>3. CASE r \in Holders(ask[q].key, q)
    <3>1. r \in Requests /\ pc[r] \in {"insert", "commit"}
      BY <2>3 DEF Holders
    <3>2. CASE pc[r] = "commit"
      BY <3>1, <3>2 DEF RotationsHeld, LocksOK, Finishes
    <3>3. CASE pc[r] = "insert"
      <4>1. \A p \in WaitsFor(r) : p \in NameHolders(r)
        BY <3>3 DEF WaitsFor
      <4>2. QED
        BY <3>1, <3>3, <4>1, NameHoldersFinish
    <3>4. QED
      BY <3>1, <3>2, <3>3
  <2>4. QED
    BY <2>1, <2>2, <2>3
<1>2. QED
  BY <1>1, RotationsInvariant, PTL
=============================================================================
