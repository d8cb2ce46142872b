-------------------------- MODULE TokenServiceProofs --------------------------
(* Theorems about TokenService, for every value of its constants. *)
EXTENDS TokenService, TLAPS

\* The invariant holds of the empty table.
LEMMA InitIInv == Init => IInv
  BY TokenAssumption DEF Init, IInv, TypeOK, TableInv, RotationInv, LockInv, SeenInv,
     AtMostOneLive, ExchangedOnce, RotatedHasSuccessor, Committed, RowsOf, InTx,
     Status, PC, Answer, Reason, Never

\* Every statement and every commit preserves the invariant.
LEMMA NextIInv == IInv /\ [Next]_vars => IInv'
<1> SUFFICES ASSUME TypeOK, TableInv, RotationInv, LockInv, SeenInv,
                    AtMostOneLive, ExchangedOnce, RotatedHasSuccessor, [Next]_vars
             PROVE  IInv'
  BY DEF IInv
<1> USE TokenAssumption DEF Status, PC, Answer, Reason, Never, Reply,
        Committed, table, local, InTx, RowsOf, Unused, Unlocked
<1>1. ASSUME NEW n \in Row, NEW f \in Family, NEW d \in Device, SignIn(n, f, d)
      PROVE  IInv'
  <2>0. /\ status' = [status EXCEPT ![n] = "live"] /\ status[n] = "absent"
        /\ parent' = parent /\ rotatedAt' = rotatedAt /\ parent[n] = NoRow
        /\ family'[n] = f /\ \A s \in Row : family[s] # f
        /\ \A s \in Row \ {n} : /\ status'[s] = status[s] /\ family'[s] = family[s]
                               /\ createdAt'[s] = createdAt[s]
    BY <1>1 DEF TypeOK, SignIn, TableInv
  <2>1. TypeOK'
    BY <1>1 DEF TypeOK, SignIn
  <2>2. TableInv'
    BY <1>1, <2>0 DEF SignIn, TypeOK, TableInv, RotationInv
  <2>3. RotationInv'
    BY <1>1, <2>0 DEF SignIn, TypeOK, RotationInv, LockInv
  <2>4. LockInv'
    BY <1>1, <2>0 DEF SignIn, TypeOK, LockInv, RotationInv
  <2>5. SeenInv'
    BY <1>1, <2>0 DEF SignIn, TypeOK, SeenInv, LockInv, RotationInv
  <2>6. AtMostOneLive'
    BY <2>0 DEF AtMostOneLive, TableInv
  <2>7. ExchangedOnce'
    BY <2>0 DEF ExchangedOnce, TableInv
  <2>8. RotatedHasSuccessor'
    BY <2>0 DEF RotatedHasSuccessor, TableInv
  <2>9. QED
    BY <2>1, <2>2, <2>3, <2>4, <2>5, <2>6, <2>7, <2>8 DEF IInv
<1>2. ASSUME NEW p \in Proc, NEW s \in Row, NEW d \in Device, SendRefresh(p, s, d)
      PROVE  IInv'
  <2>1. TypeOK'
    BY <1>2 DEF TypeOK, SendRefresh
  <2>2. TableInv'
    BY <1>2 DEF SendRefresh, TypeOK, TableInv, RotationInv
  <2>3. RotationInv'
    BY <1>2 DEF SendRefresh, TypeOK, RotationInv, LockInv
  <2>4. LockInv'
    BY <1>2 DEF SendRefresh, TypeOK, LockInv, RotationInv
  <2>5. SeenInv'
    BY <1>2 DEF SendRefresh, TypeOK, SeenInv, LockInv, RotationInv
  <2>6. AtMostOneLive'
    BY <1>2 DEF SendRefresh, AtMostOneLive
  <2>7. ExchangedOnce'
    BY <1>2 DEF SendRefresh, ExchangedOnce
  <2>8. RotatedHasSuccessor'
    BY <1>2 DEF SendRefresh, RotatedHasSuccessor
  <2>9. QED
    BY <2>1, <2>2, <2>3, <2>4, <2>5, <2>6, <2>7, <2>8 DEF IInv
<1>3. ASSUME NEW p \in Proc, NEW s \in Row, SendLogout(p, s)
      PROVE  IInv'
  <2>1. TypeOK'
    BY <1>3 DEF TypeOK, SendLogout, TableInv
  <2>2. TableInv'
    BY <1>3 DEF SendLogout, TypeOK, TableInv, RotationInv
  <2>3. RotationInv'
    BY <1>3 DEF SendLogout, TypeOK, RotationInv, LockInv
  <2>4. LockInv'
    BY <1>3 DEF SendLogout, TypeOK, LockInv, RotationInv
  <2>5. SeenInv'
    BY <1>3 DEF SendLogout, TypeOK, SeenInv, LockInv, RotationInv
  <2>6. AtMostOneLive'
    BY <1>3 DEF SendLogout, AtMostOneLive
  <2>7. ExchangedOnce'
    BY <1>3 DEF SendLogout, ExchangedOnce
  <2>8. RotatedHasSuccessor'
    BY <1>3 DEF SendLogout, RotatedHasSuccessor
  <2>9. QED
    BY <2>1, <2>2, <2>3, <2>4, <2>5, <2>6, <2>7, <2>8 DEF IInv
<1>4. ASSUME NEW p \in Proc, NEW s \in Row, SendLogoutAll(p, s)
      PROVE  IInv'
  <2>1. TypeOK'
    BY <1>4 DEF TypeOK, SendLogoutAll, Accepts, TableInv
  <2>2. TableInv'
    BY <1>4 DEF SendLogoutAll, Accepts, TypeOK, TableInv, RotationInv
  <2>3. RotationInv'
    BY <1>4 DEF SendLogoutAll, Accepts, TypeOK, RotationInv, LockInv
  <2>4. LockInv'
    BY <1>4 DEF SendLogoutAll, Accepts, TypeOK, LockInv, RotationInv
  <2>5. SeenInv'
    BY <1>4 DEF SendLogoutAll, Accepts, TypeOK, SeenInv, LockInv, RotationInv
  <2>6. AtMostOneLive'
    BY <1>4 DEF SendLogoutAll, Accepts, AtMostOneLive
  <2>7. ExchangedOnce'
    BY <1>4 DEF SendLogoutAll, Accepts, ExchangedOnce
  <2>8. RotatedHasSuccessor'
    BY <1>4 DEF SendLogoutAll, Accepts, RotatedHasSuccessor
  <2>9. QED
    BY <2>1, <2>2, <2>3, <2>4, <2>5, <2>6, <2>7, <2>8 DEF IInv
<1>5. ASSUME NEW p \in Proc, Lookup(p)
      PROVE  IInv'
  <2>1. TypeOK'
    <3>1. CASE /\ status[tok[p]] = "rotated"
             /\ pc' = [pc EXCEPT ![p] = "race"]
             /\ UNCHANGED answer
      BY <1>5, <3>1 DEF TypeOK, Lookup
    <3>2. CASE /\ status[tok[p]] = "live"
             /\ pc' = [pc EXCEPT ![p] = "claim"]
             /\ UNCHANGED answer
      BY <1>5, <3>2 DEF TypeOK, Lookup
    <3>3. CASE Reply(p, "401")
      BY <1>5, <3>3 DEF TypeOK, Lookup
    <3> QED
      BY <1>5, <3>1, <3>2, <3>3 DEF Lookup
  <2>2. TableInv'
    BY <1>5 DEF Lookup, TypeOK, TableInv, RotationInv
  <2>3. RotationInv'
    <3>1. CASE /\ status[tok[p]] = "rotated"
             /\ pc' = [pc EXCEPT ![p] = "race"]
             /\ UNCHANGED answer
      BY <1>5, <3>1 DEF TypeOK, Lookup, LockInv, RotationInv
    <3>2. CASE /\ status[tok[p]] = "live"
             /\ pc' = [pc EXCEPT ![p] = "claim"]
             /\ UNCHANGED answer
      BY <1>5, <3>2 DEF TypeOK, Lookup, LockInv, RotationInv
    <3>3. CASE Reply(p, "401")
      BY <1>5, <3>3 DEF TypeOK, Lookup, LockInv, RotationInv
    <3> QED
      BY <1>5, <3>1, <3>2, <3>3 DEF Lookup
  <2>4. LockInv'
    <3>1. CASE /\ status[tok[p]] = "rotated"
             /\ pc' = [pc EXCEPT ![p] = "race"]
             /\ UNCHANGED answer
      BY <1>5, <3>1 DEF TypeOK, Lookup, LockInv, RotationInv
    <3>2. CASE /\ status[tok[p]] = "live"
             /\ pc' = [pc EXCEPT ![p] = "claim"]
             /\ UNCHANGED answer
      BY <1>5, <3>2 DEF TypeOK, Lookup, LockInv, RotationInv
    <3>3. CASE Reply(p, "401")
      BY <1>5, <3>3 DEF TypeOK, Lookup, LockInv, RotationInv
    <3> QED
      BY <1>5, <3>1, <3>2, <3>3 DEF Lookup
  <2>5. SeenInv'
    <3>1. CASE /\ status[tok[p]] = "rotated"
             /\ pc' = [pc EXCEPT ![p] = "race"]
             /\ UNCHANGED answer
      BY <1>5, <3>1 DEF TypeOK, Lookup, SeenInv, LockInv
    <3>2. CASE /\ status[tok[p]] = "live"
             /\ pc' = [pc EXCEPT ![p] = "claim"]
             /\ UNCHANGED answer
      BY <1>5, <3>2 DEF TypeOK, Lookup, SeenInv, LockInv
    <3>3. CASE Reply(p, "401")
      BY <1>5, <3>3 DEF TypeOK, Lookup, SeenInv, LockInv
    <3> QED
      BY <1>5, <3>1, <3>2, <3>3 DEF Lookup
  <2>6. AtMostOneLive'
    BY <1>5 DEF Lookup, AtMostOneLive
  <2>7. ExchangedOnce'
    BY <1>5 DEF Lookup, ExchangedOnce
  <2>8. RotatedHasSuccessor'
    BY <1>5 DEF Lookup, RotatedHasSuccessor
  <2>9. QED
    BY <2>1, <2>2, <2>3, <2>4, <2>5, <2>6, <2>7, <2>8 DEF IInv
<1>6. ASSUME NEW p \in Proc, Race(p)
      PROVE  IInv'
  <2>1. TypeOK'
    <3>1. CASE Reply(p, "409") /\ UNCHANGED <<scope, reason>>
      BY <1>6, <3>1 DEF TypeOK, Race, TableInv, RotationInv
    <3>2. CASE /\ pc' = [pc EXCEPT ![p] = "scan"]
             /\ scope' = [scope EXCEPT ![p] = {family[tok[p]]}]
             /\ reason' = [reason EXCEPT ![p] = "refresh_reuse"]
             /\ UNCHANGED answer
      BY <1>6, <3>2 DEF TypeOK, Race, TableInv, RotationInv
    <3> QED
      BY <1>6, <3>1, <3>2 DEF Race
  <2>2. TableInv'
    BY <1>6 DEF Race, TypeOK, TableInv, RotationInv
  <2>3. RotationInv'
    <3>1. CASE Reply(p, "409") /\ UNCHANGED <<scope, reason>>
      BY <1>6, <3>1 DEF TypeOK, Race, BenignRace, RotationInv, LockInv
    <3>2. CASE /\ pc' = [pc EXCEPT ![p] = "scan"]
             /\ scope' = [scope EXCEPT ![p] = {family[tok[p]]}]
             /\ reason' = [reason EXCEPT ![p] = "refresh_reuse"]
             /\ UNCHANGED answer
      BY <1>6, <3>2 DEF TypeOK, Race, LockInv, RotationInv
    <3> QED
      BY <1>6, <3>1, <3>2 DEF Race
  <2>4. LockInv'
    <3>1. CASE Reply(p, "409") /\ UNCHANGED <<scope, reason>>
      BY <1>6, <3>1 DEF TypeOK, Race, BenignRace, RotationInv, LockInv
    <3>2. CASE /\ pc' = [pc EXCEPT ![p] = "scan"]
             /\ scope' = [scope EXCEPT ![p] = {family[tok[p]]}]
             /\ reason' = [reason EXCEPT ![p] = "refresh_reuse"]
             /\ UNCHANGED answer
      BY <1>6, <3>2 DEF TypeOK, Race, LockInv, RotationInv
    <3> QED
      BY <1>6, <3>1, <3>2 DEF Race
  <2>5. SeenInv'
    <3>1. CASE Reply(p, "409") /\ UNCHANGED <<scope, reason>>
      BY <1>6, <3>1 DEF TypeOK, Race, SeenInv, LockInv
    <3>2. CASE /\ pc' = [pc EXCEPT ![p] = "scan"]
             /\ scope' = [scope EXCEPT ![p] = {family[tok[p]]}]
             /\ reason' = [reason EXCEPT ![p] = "refresh_reuse"]
             /\ UNCHANGED answer
      BY <1>6, <3>2 DEF TypeOK, Race, SeenInv, LockInv
    <3> QED
      BY <1>6, <3>1, <3>2 DEF Race
  <2>6. AtMostOneLive'
    BY <1>6 DEF Race, AtMostOneLive
  <2>7. ExchangedOnce'
    BY <1>6 DEF Race, ExchangedOnce
  <2>8. RotatedHasSuccessor'
    BY <1>6 DEF Race, RotatedHasSuccessor
  <2>9. QED
    BY <2>1, <2>2, <2>3, <2>4, <2>5, <2>6, <2>7, <2>8 DEF IInv
<1>7. ASSUME NEW p \in Proc, Lost(p)
      PROVE  IInv'
  <2>1. TypeOK'
    BY <1>7 DEF TypeOK, Lost
  <2>2. TableInv'
    BY <1>7 DEF Lost, TypeOK, TableInv, RotationInv
  <2>3. RotationInv'
    BY <1>7 DEF Lost, BenignRace, TypeOK, RotationInv
  <2>4. LockInv'
    BY <1>7 DEF Lost, TypeOK, LockInv, RotationInv
  <2>5. SeenInv'
    BY <1>7 DEF Lost, TypeOK, SeenInv, LockInv, RotationInv
  <2>6. AtMostOneLive'
    BY <1>7 DEF Lost, AtMostOneLive
  <2>7. ExchangedOnce'
    BY <1>7 DEF Lost, ExchangedOnce
  <2>8. RotatedHasSuccessor'
    BY <1>7 DEF Lost, RotatedHasSuccessor
  <2>9. QED
    BY <2>1, <2>2, <2>3, <2>4, <2>5, <2>6, <2>7, <2>8 DEF IInv
<1>8. ASSUME NEW p \in Proc, Claim(p)
      PROVE  IInv'
  <2>1. TypeOK'
    <3>1. CASE /\ status[tok[p]] = "live"
             /\ written' = [written EXCEPT ![p] = {tok[p]}]
             /\ pc' = [pc EXCEPT ![p] = "insert"]
      BY <1>8, <3>1 DEF TypeOK, Claim, RotationInv
    <3>2. CASE /\ pc' = [pc EXCEPT ![p] = "lost"]
             /\ UNCHANGED written
      BY <1>8, <3>2 DEF TypeOK, Claim, RotationInv
    <3> QED
      BY <1>8, <3>1, <3>2 DEF Claim
  <2>2. TableInv'
    BY <1>8 DEF Claim, TypeOK, TableInv, RotationInv
  <2>3. RotationInv'
    <3>1. CASE /\ status[tok[p]] = "live"
             /\ written' = [written EXCEPT ![p] = {tok[p]}]
             /\ pc' = [pc EXCEPT ![p] = "insert"]
      BY <1>8, <3>1 DEF TypeOK, Claim, LockInv, RotationInv
    <3>2. CASE /\ pc' = [pc EXCEPT ![p] = "lost"]
             /\ UNCHANGED written
      BY <1>8, <3>2 DEF TypeOK, Claim, LockInv, RotationInv
    <3> QED
      BY <1>8, <3>1, <3>2 DEF Claim
  <2>4. LockInv'
    <3>1. CASE /\ status[tok[p]] = "live"
             /\ written' = [written EXCEPT ![p] = {tok[p]}]
             /\ pc' = [pc EXCEPT ![p] = "insert"]
      BY <1>8, <3>1 DEF TypeOK, Claim, LockInv, RotationInv
    <3>2. CASE /\ pc' = [pc EXCEPT ![p] = "lost"]
             /\ UNCHANGED written
      BY <1>8, <3>2 DEF TypeOK, Claim, LockInv, RotationInv
    <3> QED
      BY <1>8, <3>1, <3>2 DEF Claim
  <2>5. SeenInv'
    <3>1. CASE /\ status[tok[p]] = "live"
             /\ written' = [written EXCEPT ![p] = {tok[p]}]
             /\ pc' = [pc EXCEPT ![p] = "insert"]
      BY <1>8, <3>1 DEF TypeOK, Claim, SeenInv, LockInv
    <3>2. CASE /\ pc' = [pc EXCEPT ![p] = "lost"]
             /\ UNCHANGED written
      BY <1>8, <3>2 DEF TypeOK, Claim, SeenInv, LockInv
    <3> QED
      BY <1>8, <3>1, <3>2 DEF Claim
  <2>6. AtMostOneLive'
    BY <1>8 DEF Claim, AtMostOneLive
  <2>7. ExchangedOnce'
    BY <1>8 DEF Claim, ExchangedOnce
  <2>8. RotatedHasSuccessor'
    BY <1>8 DEF Claim, RotatedHasSuccessor
  <2>9. QED
    BY <2>1, <2>2, <2>3, <2>4, <2>5, <2>6, <2>7, <2>8 DEF IInv
<1>9. ASSUME NEW p \in Proc, NEW n \in Row, Insert(p, n)
      PROVE  IInv'
  <2>0. /\ status' = status /\ rotatedAt' = rotatedAt /\ status[n] = "absent"
        /\ tok[p] \in Row /\ parent'[n] = tok[p]
        /\ \A s \in Row \ {n} : /\ family'[s] = family[s] /\ parent'[s] = parent[s]
                               /\ createdAt'[s] = createdAt[s]
    BY <1>9 DEF TypeOK, Insert, RotationInv
  <2>1. TypeOK'
    BY <1>9 DEF TypeOK, Insert, RotationInv
  <2>2. TableInv'
    <3>1. ASSUME NEW s \in Row, s # n
          PROVE  (Unused(s))' => Unused(s)
      BY <1>9, <2>0, <3>1, SMTT(20) DEF Insert, TypeOK, RotationInv
    <3>2. ~(Unused(n))' /\ ~Committed(n)
      BY <1>9, <2>0 DEF Insert, TypeOK
    <3>3. QED
      BY <2>0, <3>1, <3>2 DEF TableInv
  <2>3. RotationInv'
    BY <1>9, <2>0 DEF Insert, TypeOK, RotationInv, LockInv
  <2>4. LockInv'
    BY <1>9, <2>0 DEF Insert, TypeOK, LockInv, RotationInv
  <2>5. SeenInv'
    BY <1>9, <2>0 DEF Insert, TypeOK, SeenInv, LockInv, RotationInv
  <2>6. AtMostOneLive'
    BY <2>0 DEF AtMostOneLive, TableInv
  <2>7. ExchangedOnce'
    BY <2>0 DEF ExchangedOnce, TableInv
  <2>8. RotatedHasSuccessor'
    BY <2>0 DEF RotatedHasSuccessor, TableInv
  <2>9. QED
    BY <2>1, <2>2, <2>3, <2>4, <2>5, <2>6, <2>7, <2>8 DEF IInv
<1>10. ASSUME NEW p \in Proc, CommitRotation(p)
      PROVE  IInv'
  <2>0. /\ tok[p] \in Row /\ fresh[p] \in Row /\ tok[p] # fresh[p]
        /\ status[tok[p]] = "live" /\ status[fresh[p]] = "absent"
        /\ status'[tok[p]] = "rotated" /\ status'[fresh[p]] = "live"
        /\ \A s \in Row \ {tok[p], fresh[p]} : status'[s] = status[s]
        /\ family' = family /\ parent' = parent /\ createdAt' = createdAt
        /\ family[fresh[p]] = family[tok[p]]
        /\ rotatedAt'[tok[p]] = at[p] /\ createdAt[fresh[p]] >= at[p] /\ parent[fresh[p]] = tok[p]
        /\ \A s \in Row \ {tok[p]} : rotatedAt'[s] = rotatedAt[s]
    BY <1>10 DEF TypeOK, CommitRotation, RotationInv
  <2>1. TypeOK'
    BY <1>10 DEF TypeOK, CommitRotation
  <2>2. TableInv'
    BY <1>10, <2>0 DEF CommitRotation, TypeOK, TableInv, RotationInv
  <2>3. RotationInv'
    <3>1. ASSUME NEW q \in Proc, q # p, pc[q] \in {"insert", "commit"}
          PROVE  tok[q] # tok[p] /\ (pc[q] = "commit" => fresh[q] # fresh[p])
      <4>1. pc[p] = "commit" /\ written[p] = {tok[p]} /\ written[q] = {tok[q]}
        BY <1>10, <3>1 DEF CommitRotation, RotationInv
      <4>2. written[p] \cap written[q] = {} /\ (pc[q] = "commit" => fresh[p] # fresh[q])
        BY <3>1, <4>1 DEF LockInv
      <4>3. QED
        BY <4>1, <4>2
    <3>2. QED
      BY <1>10, <2>0, <3>1 DEF CommitRotation, TypeOK, RotationInv
  <2>4. LockInv'
    BY <1>10, <2>0 DEF CommitRotation, TypeOK, LockInv, RotationInv
  <2>5. SeenInv'
    BY <1>10, <2>0 DEF CommitRotation, TypeOK, SeenInv, LockInv, RotationInv
  <2>6. AtMostOneLive'
    BY <2>0 DEF AtMostOneLive, TableInv
  <2>7. ExchangedOnce'
    BY <2>0 DEF ExchangedOnce, TableInv
  <2>8. RotatedHasSuccessor'
    BY <2>0 DEF RotatedHasSuccessor, TableInv
  <2>9. QED
    BY <2>1, <2>2, <2>3, <2>4, <2>5, <2>6, <2>7, <2>8 DEF IInv
<1>11. ASSUME NEW p \in Proc, Scan(p)
      PROVE  IInv'
  <2>1. TypeOK'
    BY <1>11 DEF TypeOK, Scan
  <2>2. TableInv'
    BY <1>11 DEF Scan, TypeOK, TableInv, RotationInv
  <2>3. RotationInv'
    BY <1>11 DEF Scan, TypeOK, RotationInv, LockInv
  <2>4. LockInv'
    BY <1>11 DEF Scan, TypeOK, LockInv, RotationInv
  <2>5. SeenInv'
    BY <1>11 DEF Scan, TypeOK, SeenInv, LockInv, RotationInv
  <2>6. AtMostOneLive'
    BY <1>11 DEF Scan, AtMostOneLive
  <2>7. ExchangedOnce'
    BY <1>11 DEF Scan, ExchangedOnce
  <2>8. RotatedHasSuccessor'
    BY <1>11 DEF Scan, RotatedHasSuccessor
  <2>9. QED
    BY <2>1, <2>2, <2>3, <2>4, <2>5, <2>6, <2>7, <2>8 DEF IInv
<1>12. ASSUME NEW p \in Proc, NEW s \in Row, Revoke(p, s)
      PROVE  IInv'
  <2>1. TypeOK'
    BY <1>12 DEF TypeOK, Revoke
  <2>2. TableInv'
    BY <1>12 DEF Revoke, TypeOK, TableInv, RotationInv
  <2>3. RotationInv'
    BY <1>12 DEF Revoke, TypeOK, RotationInv, LockInv
  <2>4. LockInv'
    BY <1>12 DEF Revoke, TypeOK, LockInv, RotationInv
  <2>5. SeenInv'
    BY <1>12 DEF Revoke, TypeOK, SeenInv, LockInv, RotationInv
  <2>6. AtMostOneLive'
    BY <1>12 DEF Revoke, AtMostOneLive
  <2>7. ExchangedOnce'
    BY <1>12 DEF Revoke, ExchangedOnce
  <2>8. RotatedHasSuccessor'
    BY <1>12 DEF Revoke, RotatedHasSuccessor
  <2>9. QED
    BY <2>1, <2>2, <2>3, <2>4, <2>5, <2>6, <2>7, <2>8 DEF IInv
<1>13. ASSUME NEW p \in Proc, Rescan(p)
      PROVE  IInv'
  <2>1. TypeOK'
    BY <1>13 DEF TypeOK, Rescan
  <2>2. TableInv'
    BY <1>13 DEF Rescan, TypeOK, TableInv, RotationInv
  <2>3. RotationInv'
    BY <1>13 DEF Rescan, TypeOK, RotationInv, LockInv
  <2>4. LockInv'
    BY <1>13 DEF Rescan, TypeOK, LockInv, RotationInv
  <2>5. SeenInv'
    BY <1>13 DEF Rescan, TypeOK, SeenInv, LockInv, RotationInv
  <2>6. AtMostOneLive'
    BY <1>13 DEF Rescan, AtMostOneLive
  <2>7. ExchangedOnce'
    BY <1>13 DEF Rescan, ExchangedOnce
  <2>8. RotatedHasSuccessor'
    BY <1>13 DEF Rescan, RotatedHasSuccessor
  <2>9. QED
    BY <2>1, <2>2, <2>3, <2>4, <2>5, <2>6, <2>7, <2>8 DEF IInv
<1>14. ASSUME NEW p \in Proc, CommitRevoke(p)
      PROVE  IInv'
  <2>0. /\ reason[p] \in Reason
        /\ family' = family /\ parent' = parent
        /\ createdAt' = createdAt /\ rotatedAt' = rotatedAt
        /\ \A s \in Row : status'[s] = IF s \in written[p] THEN reason[p] ELSE status[s]
        /\ \A s \in written[p] : status[s] \in {"live", "rotated"}
    BY <1>14 DEF TypeOK, CommitRevoke, LockInv
  <2>1. TypeOK'
    BY <1>14 DEF TypeOK, CommitRevoke, LockInv
  <2>2. TableInv'
    BY <1>14, <2>0 DEF CommitRevoke, TypeOK, TableInv, RotationInv
  <2>3. RotationInv'
    BY <1>14, <2>0 DEF CommitRevoke, TypeOK, RotationInv, LockInv
  <2>4. LockInv'
    BY <1>14, <2>0 DEF CommitRevoke, TypeOK, LockInv, RotationInv
  <2>5. SeenInv'
    BY <1>14, <2>0 DEF CommitRevoke, TypeOK, SeenInv, LockInv, RotationInv
  <2>6. AtMostOneLive'
    BY <2>0 DEF AtMostOneLive, TableInv
  <2>7. ExchangedOnce'
    BY <2>0 DEF ExchangedOnce, TableInv
  <2>8. RotatedHasSuccessor'
    BY <2>0 DEF RotatedHasSuccessor, TableInv
  <2>9. QED
    BY <2>1, <2>2, <2>3, <2>4, <2>5, <2>6, <2>7, <2>8 DEF IInv
<1>15. ASSUME NEW p \in Proc, Abort(p)
      PROVE  IInv'
  <2>0. /\ status' = status /\ rotatedAt' = rotatedAt
        /\ fresh[p] # NoRow => ~Committed(fresh[p])
        /\ \A s \in Row : Committed(s) => /\ family'[s] = family[s]
                                           /\ parent'[s] = parent[s]
                                           /\ createdAt'[s] = createdAt[s]
    BY <1>15 DEF TypeOK, Abort, RotationInv
  <2>1. TypeOK'
    BY <1>15 DEF TypeOK, Abort
  <2>2. TableInv'
    BY <1>15, <2>0 DEF Abort, TypeOK, TableInv, RotationInv
  <2>3. RotationInv'
    BY <1>15, <2>0 DEF Abort, TypeOK, RotationInv, LockInv
  <2>4. LockInv'
    BY <1>15, <2>0 DEF Abort, TypeOK, LockInv, RotationInv
  <2>5. SeenInv'
    BY <1>15, <2>0 DEF Abort, TypeOK, SeenInv, LockInv, RotationInv
  <2>6. AtMostOneLive'
    BY <2>0 DEF AtMostOneLive, TableInv
  <2>7. ExchangedOnce'
    BY <2>0 DEF ExchangedOnce, TableInv
  <2>8. RotatedHasSuccessor'
    BY <2>0 DEF RotatedHasSuccessor, TableInv
  <2>9. QED
    BY <2>1, <2>2, <2>3, <2>4, <2>5, <2>6, <2>7, <2>8 DEF IInv
<1>16. ASSUME NEW p \in Proc, Return(p)
      PROVE  IInv'
  <2>1. TypeOK'
    BY <1>16 DEF TypeOK, Return
  <2>2. TableInv'
    BY <1>16 DEF Return, TypeOK, TableInv, RotationInv
  <2>3. RotationInv'
    BY <1>16 DEF Return, TypeOK, RotationInv, LockInv
  <2>4. LockInv'
    BY <1>16 DEF Return, TypeOK, LockInv, RotationInv
  <2>5. SeenInv'
    BY <1>16 DEF Return, TypeOK, SeenInv, LockInv, RotationInv
  <2>6. AtMostOneLive'
    BY <1>16 DEF Return, AtMostOneLive
  <2>7. ExchangedOnce'
    BY <1>16 DEF Return, ExchangedOnce
  <2>8. RotatedHasSuccessor'
    BY <1>16 DEF Return, RotatedHasSuccessor
  <2>9. QED
    BY <2>1, <2>2, <2>3, <2>4, <2>5, <2>6, <2>7, <2>8 DEF IInv
<1>17. CASE Tick
  BY <1>17 DEF Tick, IInv, TypeOK, TableInv, RotationInv, LockInv, SeenInv, AtMostOneLive, ExchangedOnce, RotatedHasSuccessor
<1>18. CASE UNCHANGED vars
  BY <1>18 DEF vars, IInv, TypeOK, TableInv, RotationInv, LockInv, SeenInv, AtMostOneLive, ExchangedOnce, RotatedHasSuccessor
<1>19. QED
  BY <1>1, <1>2, <1>3, <1>4, <1>5, <1>6, <1>7, <1>8, <1>9, <1>10, <1>11, <1>12, <1>13, <1>14, <1>15, <1>16, <1>17, <1>18 DEF Next, Serve

-------------------------------------------------------------------------------
(* IInv is an invariant, and the safety properties follow from it.         *)

\* The inductive invariant holds in every reachable state.
THEOREM Invariance == Spec => []IInv
<1>1. Init => IInv
  BY InitIInv
<1>2. IInv /\ [Next]_vars => IInv'
  BY NextIInv
<1>3. QED
  BY <1>1, <1>2, PTL DEF Spec

\* Every variable keeps its type: the columns of auth_sessions and the locals
\* of the handlers.
THEOREM TypeCorrect == Spec => []TypeOK
<1>1. IInv => TypeOK
  BY DEF IInv
<1>2. QED
  BY <1>1, Invariance, PTL

\* At most one live refresh token per family, for any number of concurrent
\* refreshes, logouts and failed transactions (rotate's claim and insert).
THEOREM OneLiveToken == Spec => []AtMostOneLive
<1>1. IInv => AtMostOneLive
  BY DEF IInv
<1>2. QED
  BY <1>1, Invariance, PTL

\* A refresh token is exchanged for at most one successor (rotate).
THEOREM SingleUse == Spec => []ExchangedOnce
<1>1. IInv => ExchangedOnce
  BY DEF IInv
<1>2. QED
  BY <1>1, Invariance, PTL

\* Whoever reads a row as rotated finds its successor committed, with a
\* createdAt that isBenignRace accepts.
THEOREM LoserSeesSuccessor == Spec => []RotatedHasSuccessor
<1>1. IInv => RotatedHasSuccessor
  BY DEF IInv
<1>2. QED
  BY <1>1, Invariance, PTL

\* A 409 is answered only when the presented token has been exchanged.
THEOREM ConflictsHaveWinners == Spec => []ConflictHasWinner
<1>1. IInv => ConflictHasWinner
  BY DEF IInv, RotationInv, RotatedHasSuccessor, ConflictHasWinner
<1>2. QED
  BY <1>1, Invariance, PTL

\* A completed revokeWhere has killed every row, live or rotated, that was
\* committed when it began, and with them the access tokens those rows back.
THEOREM RevocationCovers == Spec => []RevocationCoversWhatItSaw
<1>1. IInv => RevocationCoversWhatItSaw
  <2> SUFFICES ASSUME IInv, NEW p \in Proc, pc[p] = "done", NEW s \in seen[p]
               PROVE  status[s] \in Reason /\ ~Accepts(s)
    BY DEF RevocationCoversWhatItSaw
  <2>1. s \in Row /\ status[s] # "absent"
    BY DEF IInv, SeenInv, RowsOf, Committed
  <2>2. status[s] \notin {"live", "rotated"}
    BY DEF IInv, SeenInv
  <2>3. QED
    BY <2>1, <2>2 DEF IInv, TypeOK, Status, Reason, Accepts
<1>2. QED
  BY <1>1, Invariance, PTL

-------------------------------------------------------------------------------
(* What the table can see of a step.                                       *)

Invisible == /\ status' = status /\ rotatedAt' = rotatedAt
             /\ \A s \in Row : Committed(s) => /\ family'[s] = family[s]
                                                /\ createdAt'[s] = createdAt[s]
                                                /\ device'[s] = device[s]

\* Three actions change what other requests can read: a sign-in and the two
\* commits.  Everything else is invisible.
LEMMA VisibleSteps ==
  ASSUME IInv, [Next]_vars
  PROVE  \/ Invisible
         \/ \E n \in Row, f \in Family, d \in Device : SignIn(n, f, d)
         \/ \E p \in Proc : CommitRotation(p) \/ CommitRevoke(p)
<1> USE DEF Invisible
<1>1. ASSUME NEW p \in Proc, NEW s \in Row, NEW d \in Device, SendRefresh(p, s, d)
      PROVE  Invisible
  BY <1>1 DEF SendRefresh, table
<1>2. ASSUME NEW p \in Proc, NEW s \in Row,
             SendLogout(p, s) \/ SendLogoutAll(p, s) \/ Revoke(p, s)
      PROVE  Invisible
  BY <1>2 DEF SendLogout, SendLogoutAll, Revoke, table
<1>3. ASSUME NEW p \in Proc,
             \/ Lookup(p) \/ Race(p) \/ Claim(p) \/ Lost(p)
             \/ Scan(p) \/ Rescan(p) \/ Return(p)
      PROVE  Invisible
  BY <1>3 DEF Lookup, Race, Claim, Lost, Scan, Rescan, Return, table
<1>4. ASSUME NEW p \in Proc, NEW n \in Row, Insert(p, n)
      PROVE  Invisible
  BY <1>4 DEF Insert, Unused, Committed, IInv, TypeOK
<1>5. ASSUME NEW p \in Proc, Abort(p)
      PROVE  Invisible
  BY <1>5, TokenAssumption DEF Abort, InTx, IInv, RotationInv, Committed
<1>6. ASSUME Tick \/ UNCHANGED vars
      PROVE  Invisible
  BY <1>6 DEF Tick, vars, table
<1>7. ASSUME NEW p \in Proc, Serve(p)
      PROVE  Invisible \/ CommitRotation(p) \/ CommitRevoke(p)
  BY <1>2, <1>3, <1>4, <1>7 DEF Serve
<1>8. QED
  BY <1>1, <1>2, <1>5, <1>6, <1>7 DEF Next

\* A family whose tokens are all dead gets no live token (rotate, revokeWhere).
THEOREM NoRevivalOfFamilies == Spec => DeadFamilyStaysDead
<1>1. IInv /\ [Next]_vars => [NoRevival]_vars
  <2> SUFFICES ASSUME IInv, [Next]_vars
               PROVE  NoRevival
    OBVIOUS
  <2> USE DEF NoRevival, Committed
  <2>1. ASSUME Invisible PROVE NoRevival
    <3> SUFFICES ASSUME NEW f \in Family,
                        \A s \in Row : family[s] = f => status[s] # "live",
                        NEW s \in Row, family'[s] = f
                 PROVE  status'[s] # "live"
      OBVIOUS
    <3>1. CASE Committed(s)
      BY <2>1, <3>1 DEF Invisible
    <3>2. CASE ~Committed(s)
      BY <2>1, <3>2 DEF Invisible
    <3>3. QED
      BY <3>1, <3>2
  <2>2. ASSUME NEW n \in Row, NEW f \in Family, NEW d \in Device, SignIn(n, f, d)
        PROVE  NoRevival
    BY <2>2 DEF SignIn, IInv, TypeOK
  <2>3. ASSUME NEW p \in Proc, CommitRotation(p) PROVE NoRevival
    BY <2>3 DEF CommitRotation, IInv, TypeOK, RotationInv
  <2>4. ASSUME NEW p \in Proc, CommitRevoke(p) PROVE NoRevival
    BY <2>4 DEF CommitRevoke, IInv, TypeOK, LockInv, Reason
  <2>5. QED
    BY <2>1, <2>2, <2>3, <2>4, VisibleSteps
<1>2. QED
  BY <1>1, Invariance, PTL DEF Spec, DeadFamilyStaysDead

\* The reason of a revocation, and the time of a rotation, are written once.
THEOREM RevocationsAreFinal == Spec => RevocationIsFinal
<1>1. IInv /\ [Next]_vars => [NoRewrite]_vars
  <2> SUFFICES ASSUME IInv, [Next]_vars
               PROVE  NoRewrite
    OBVIOUS
  <2> USE DEF NoRewrite, Reason
  <2>1. ASSUME Invisible PROVE NoRewrite
    BY <2>1 DEF Invisible
  <2>2. ASSUME NEW n \in Row, NEW f \in Family, NEW d \in Device, SignIn(n, f, d)
        PROVE  NoRewrite
    BY <2>2 DEF SignIn, Unused, Committed, IInv, TypeOK
  <2>3. ASSUME NEW p \in Proc, CommitRotation(p) PROVE NoRewrite
    BY <2>3 DEF CommitRotation, IInv, TypeOK, RotationInv, TableInv, Committed
  <2>4. ASSUME NEW p \in Proc, CommitRevoke(p) PROVE NoRewrite
    BY <2>4 DEF CommitRevoke, IInv, LockInv
  <2>5. QED
    BY <2>1, <2>2, <2>3, <2>4, VisibleSteps
<1>2. QED
  BY <1>1, Invariance, PTL DEF Spec, RevocationIsFinal

-------------------------------------------------------------------------------
(* TokenService implements SessionFamilies.                                *)

\* The family of a row as SessionFamilies sees it.
Issued == [s \in Row |-> IF Committed(s) THEN family[s] ELSE NoFamily]

\* A step of the table is a step of SessionFamilies or leaves its state alone.
LEMMA StepSimulation == IInv /\ [Next]_vars => [Families!Next]_(Families!vars)
<1> SUFFICES ASSUME IInv, [Next]_vars
             PROVE  Families!Next \/ (status' = status /\ Issued' = Issued)
  BY DEF Families!vars, Issued
<1> USE DEF Issued
<1>1. CASE Invisible
  BY <1>1 DEF Invisible, Committed
<1>2. ASSUME NEW n \in Row, NEW f \in Family, NEW d \in Device, SignIn(n, f, d)
      PROVE  Families!Next
  <2>1. Families!Open(n, f)
    BY <1>2, TokenAssumption DEF SignIn, Families!Open, Unused, Committed, IInv, TypeOK
  <2>2. QED
    BY <2>1 DEF Families!Next
<1>3. ASSUME NEW p \in Proc, CommitRotation(p)
      PROVE  Families!Next
  <2>1. PICK s \in Row, n \in Row : s = tok[p] /\ n = fresh[p]
    BY <1>3 DEF CommitRotation, IInv, RotationInv
  <2>2. status[s] = "live" /\ status[n] = "absent" /\ family[n] = family[s]
    BY <1>3, <2>1 DEF CommitRotation, IInv, RotationInv, Committed
  <2>3. Families!Exchange(s, n)
    BY <1>3, <2>1, <2>2 DEF CommitRotation, Families!Exchange, Committed, IInv, TypeOK
  <2>4. QED
    BY <2>3 DEF Families!Next
<1>4. ASSUME NEW p \in Proc, CommitRevoke(p)
      PROVE  Families!Next
  <2>1. /\ reason[p] \in Reason /\ written[p] \in SUBSET Row
        /\ \A s \in written[p] : status[s] \in {"live", "rotated"}
    BY <1>4 DEF CommitRevoke, IInv, LockInv, TypeOK
  <2>2. Families!Revoke(written[p], reason[p])
    BY <1>4, <2>1 DEF CommitRevoke, Families!Revoke, Committed, Reason
  <2>3. \E S \in SUBSET Row, r \in Reason : Families!Revoke(S, r)
    BY <2>1, <2>2
  <2>4. QED
    BY <2>3 DEF Families!Next
<1>5. QED
  BY <1>1, <1>2, <1>3, <1>4, VisibleSteps

\* Requests, statements and transactions implement the abstract families of
\* SessionFamilies: the only visible steps are commits.
THEOREM Refinement == Spec => ImplementsFamilies
<1>1. Init => Families!Init
  BY DEF Init, Families!Init, Committed
<1>2. IInv /\ [Next]_vars => [Families!Next]_(Families!vars)
  BY StepSimulation
<1>3. QED
  BY <1>1, <1>2, Invariance, PTL DEF Spec, ImplementsFamilies, Families!Spec

-------------------------------------------------------------------------------
(* Races of one browser.  Why a loser finds what isBenignRace looks for.   *)

\* What a request knows of the row it presented, and rows carry their device.
KnownInv ==
    /\ \A p \in Proc :
          /\ pc[p] \in {"lookup", "race", "claim", "insert", "commit"} =>
                dev[p] \in Device /\ createdAt[tok[p]] <= at[p]
          /\ pc[p] = "race" => rotatedAt[tok[p]] # Never
          /\ pc[p] = "commit" => device[fresh[p]] \in Device
    /\ \A s \in Row : /\ Committed(s) => device[s] \in Device
                      /\ status[s] = "rotated" => rotatedAt[s] # Never
                      /\ createdAt[s] <= clock

\* Time runs along a family: its live row is no older than any of its rotations.
OrderInv ==
    \A s, n \in Row : (rotatedAt[s] # Never /\ status[n] = "live" /\ family[n] = family[s])
                          => createdAt[n] >= rotatedAt[s]

\* A revocation that has locked a family's live row and scanned again has reached, or
\* will reach, every rotated row of that family; the second statement is why.
RescanInv ==
    \A p \in Proc :
        /\ pc[p] \notin {"revoke", "relabel"} => todo[p] = {}
        /\ pc[p] \in {"revoke", "relabel"} =>
              todo[p] \subseteq RowsOf(scope[p]) /\ written[p] \subseteq RowsOf(scope[p])
        /\ pc[p] = "relabel" =>
              \A n \in written[p], s \in Row :
                  (status[n] = "live" /\ status[s] = "rotated" /\ family[s] = family[n])
                      => s \in todo[p] \cup written[p]

\* So a row still marked as rotated belongs to a family that still has a live row.
HeirInv ==
    \A s \in Row : status[s] = "rotated" =>
        \E n \in Row : status[n] = "live" /\ family[n] = family[s]

\* One device, and every rotation within the grace period.
Tame == /\ \A d, e \in Device : d = e
        /\ Grace # 0
        /\ \A s \in Row : rotatedAt[s] # Never => clock - rotatedAt[s] <= Grace

\* The only presentations then taken for theft are of tokens of families that a
\* logout has ended, where nothing is left to revoke.
TheftInv ==
    Tame =>
        /\ \A s \in Row : status[s] # "refresh_reuse"
        /\ \A p \in Proc :
              (pc[p] \in {"scan", "revoke", "relabel"} /\ reason[p] = "refresh_reuse") =>
                  /\ \E r \in Row : Committed(r) /\ scope[p] = {family[r]}
                  /\ \A s \in RowsOf(scope[p]) : status[s] \notin {"live", "rotated"}
                  /\ todo[p] = {} /\ written[p] = {}

RaceInv == KnownInv /\ OrderInv /\ RescanInv /\ HeirInv /\ TheftInv

LEMMA InitRaceInv == Init => RaceInv
<1> SUFFICES ASSUME Init
             PROVE  RaceInv
  OBVIOUS
<1>1. KnownInv /\ OrderInv /\ HeirInv
  BY DEF Init, KnownInv, OrderInv, HeirInv, Committed, Never
<1>2. RescanInv
  BY DEF Init, RescanInv
<1>3. TheftInv
  BY DEF Init, TheftInv
<1> QED
  BY <1>1, <1>2, <1>3 DEF RaceInv

LEMMA NextOrderInv == IInv /\ KnownInv /\ OrderInv /\ [Next]_vars => OrderInv'
<1> SUFFICES ASSUME IInv, KnownInv, OrderInv, [Next]_vars,
                    NEW s \in Row, NEW n \in Row,
                    rotatedAt'[s] # Never, status'[n] = "live", family'[n] = family'[s]
             PROVE  createdAt'[n] >= rotatedAt'[s]
  BY DEF OrderInv
<1>0. TypeOK /\ TableInv /\ RotationInv /\ AtMostOneLive
  BY DEF IInv
<1>1. ASSUME Invisible
      PROVE  createdAt'[n] >= rotatedAt'[s]
  BY <1>0, <1>1 DEF Invisible, OrderInv, TableInv, Committed
<1>2. ASSUME NEW m \in Row, NEW f \in Family, NEW d \in Device, SignIn(m, f, d)
      PROVE  createdAt'[n] >= rotatedAt'[s]
  <2>1. s # m /\ family[s] # f
    BY <1>0, <1>2 DEF SignIn, TableInv, Unused, Committed, TypeOK
  <2>2. n # m
    BY <1>0, <1>2, <2>1 DEF SignIn, TypeOK
  <2> QED
    BY <1>0, <1>2, <2>1, <2>2 DEF SignIn, TypeOK, OrderInv
<1>3. ASSUME NEW p \in Proc, CommitRotation(p)
      PROVE  createdAt'[n] >= rotatedAt'[s]
  <2> DEFINE t == tok[p]
  <2>1. /\ t \in Row /\ fresh[p] \in Row /\ t # fresh[p] /\ pc[p] = "commit"
        /\ status[t] = "live" /\ status[fresh[p]] = "absent"
        /\ family' = family /\ createdAt' = createdAt
        /\ family[fresh[p]] = family[t]
        /\ rotatedAt' = [rotatedAt EXCEPT ![t] = at[p]]
        /\ status' = [status EXCEPT ![t] = "rotated", ![fresh[p]] = "live"]
        /\ createdAt[fresh[p]] >= at[p] /\ createdAt[t] <= at[p]
    BY <1>0, <1>3 DEF CommitRotation, RotationInv, KnownInv, Committed
  <2>2. CASE n = fresh[p]
    <3>1. CASE s = t
      BY <1>0, <2>1, <2>2, <3>1 DEF TypeOK
    <3>2. CASE s # t
      <4>1. rotatedAt[s] = rotatedAt'[s] /\ createdAt[t] >= rotatedAt[s]
        BY <1>0, <2>1, <2>2, <3>2 DEF TypeOK, OrderInv
      <4>2. /\ createdAt[t] \in Int /\ createdAt[fresh[p]] \in Int /\ at[p] \in Int
            /\ rotatedAt[s] \in Int
        BY <1>0, <2>1, TokenAssumption DEF TypeOK, Never
      <4> QED
        BY <2>1, <2>2, <4>1, <4>2
    <3> QED
      BY <3>1, <3>2
  <2>3. CASE n # fresh[p]
    <3>1. status[n] = "live" /\ n # t
      BY <1>0, <2>1, <2>3 DEF TypeOK
    <3>2. family[n] # family[t]
      BY <1>0, <2>1, <3>1 DEF AtMostOneLive
    <3> QED
      BY <1>0, <2>1, <3>1, <3>2 DEF TypeOK, OrderInv
  <2> QED
    BY <2>2, <2>3
<1>4. ASSUME NEW p \in Proc, CommitRevoke(p)
      PROVE  createdAt'[n] >= rotatedAt'[s]
  <2>1. status[n] = "live"
    BY <1>4 DEF CommitRevoke, IInv, LockInv, Reason
  <2> QED
    BY <1>4, <2>1 DEF CommitRevoke, OrderInv
<1> QED
  BY <1>1, <1>2, <1>3, <1>4, VisibleSteps

LEMMA NextHeirInv == IInv /\ RescanInv /\ HeirInv /\ [Next]_vars => HeirInv'
<1> SUFFICES ASSUME IInv, RescanInv, HeirInv, [Next]_vars,
                    NEW s \in Row, status'[s] = "rotated"
             PROVE  \E n \in Row : status'[n] = "live" /\ family'[n] = family'[s]
  BY DEF HeirInv
<1>0. TypeOK /\ TableInv /\ RotationInv
  BY DEF IInv
<1>1. ASSUME Invisible
      PROVE  \E n \in Row : status'[n] = "live" /\ family'[n] = family'[s]
  BY <1>1 DEF Invisible, HeirInv, Committed
<1>2. ASSUME NEW m \in Row, NEW f \in Family, NEW d \in Device, SignIn(m, f, d)
      PROVE  \E n \in Row : status'[n] = "live" /\ family'[n] = family'[s]
  <2>1. status[m] = "absent" /\ s # m /\ status[s] = "rotated"
    BY <1>0, <1>2 DEF SignIn, Unused, Committed, TypeOK
  <2>2. PICK n \in Row : status[n] = "live" /\ family[n] = family[s]
    BY <2>1 DEF HeirInv
  <2> QED
    BY <1>0, <1>2, <2>1, <2>2 DEF SignIn, TypeOK
<1>3. ASSUME NEW p \in Proc, CommitRotation(p)
      PROVE  \E n \in Row : status'[n] = "live" /\ family'[n] = family'[s]
  <2>1. /\ tok[p] \in Row /\ fresh[p] \in Row /\ tok[p] # fresh[p]
        /\ status[fresh[p]] = "absent" /\ family' = family
        /\ family[fresh[p]] = family[tok[p]]
        /\ status' = [status EXCEPT ![tok[p]] = "rotated", ![fresh[p]] = "live"]
    BY <1>0, <1>3 DEF CommitRotation, RotationInv, Committed
  <2>2. status'[fresh[p]] = "live"
    BY <1>0, <2>1 DEF TypeOK
  <2>3. CASE s = tok[p]
    BY <2>1, <2>2, <2>3
  <2>4. CASE s # tok[p]
    <3>1. status[s] = "rotated"
      BY <1>0, <2>1, <2>4 DEF TypeOK
    <3>2. PICK n \in Row : status[n] = "live" /\ family[n] = family[s]
      BY <3>1 DEF HeirInv
    <3>3. CASE n = tok[p]
      BY <2>1, <2>2, <3>2, <3>3
    <3>4. CASE n # tok[p]
      BY <1>0, <2>1, <3>2, <3>4 DEF TypeOK
    <3> QED
      BY <3>3, <3>4
  <2> QED
    BY <2>3, <2>4
<1>4. ASSUME NEW p \in Proc, CommitRevoke(p)
      PROVE  \E n \in Row : status'[n] = "live" /\ family'[n] = family'[s]
  <2>1. /\ pc[p] = "relabel" /\ todo[p] = {} /\ family' = family /\ reason[p] \in Reason
        /\ status' = [t \in Row |-> IF t \in written[p] THEN reason[p] ELSE status[t]]
    BY <1>4 DEF CommitRevoke, IInv, LockInv
  <2>2. status[s] = "rotated" /\ s \notin written[p]
    BY <2>1 DEF Reason
  <2>3. PICK n \in Row : status[n] = "live" /\ family[n] = family[s]
    BY <2>2 DEF HeirInv
  <2>4. n \notin written[p]
    BY <2>1, <2>2, <2>3 DEF RescanInv
  <2> QED
    BY <2>1, <2>3, <2>4
<1> QED
  BY <1>1, <1>2, <1>3, <1>4, VisibleSteps

LEMMA NextKnownInv == IInv /\ KnownInv /\ [Next]_vars => KnownInv'
<1> SUFFICES ASSUME IInv, KnownInv, [Next]_vars
             PROVE  KnownInv'
  OBVIOUS
<1>0. TypeOK /\ TableInv /\ RotationInv
  BY DEF IInv
<1> USE TokenAssumption DEF KnownInv, Committed, table, local, Reply, Never
<1>1. ASSUME NEW n \in Row, NEW f \in Family, NEW d \in Device, SignIn(n, f, d)
      PROVE  KnownInv'
  BY <1>0, <1>1 DEF SignIn, Unused, TypeOK, TableInv, RotationInv
<1>2. ASSUME NEW p \in Proc, NEW s \in Row, NEW d \in Device, SendRefresh(p, s, d)
      PROVE  KnownInv'
  BY <1>0, <1>2 DEF SendRefresh, TypeOK
<1>3. ASSUME NEW p \in Proc, NEW s \in Row,
             SendLogout(p, s) \/ SendLogoutAll(p, s) \/ Revoke(p, s)
      PROVE  KnownInv'
  BY <1>0, <1>3 DEF SendLogout, SendLogoutAll, Revoke, TypeOK
<1>4. ASSUME NEW p \in Proc, Lookup(p)
      PROVE  KnownInv'
  <2>1. tok[p] \in Row
    BY <1>0, <1>4 DEF Lookup, RotationInv
  <2> QED
    BY <1>0, <1>4, <2>1 DEF Lookup, TypeOK
<1>5. ASSUME NEW p \in Proc, Race(p) \/ Claim(p) \/ Lost(p) \/ Scan(p) \/ Rescan(p) \/ Return(p)
      PROVE  KnownInv'
  BY <1>0, <1>5 DEF Race, Claim, Lost, Scan, Rescan, Return, TypeOK
<1>6. ASSUME NEW p \in Proc, NEW n \in Row, Insert(p, n)
      PROVE  KnownInv'
  BY <1>0, <1>6 DEF Insert, Unused, TypeOK, RotationInv
<1>7. ASSUME NEW p \in Proc, CommitRotation(p)
      PROVE  KnownInv'
  BY <1>0, <1>7 DEF CommitRotation, TypeOK, RotationInv
<1>8. ASSUME NEW p \in Proc, CommitRevoke(p)
      PROVE  KnownInv'
  BY <1>0, <1>8 DEF CommitRevoke, TypeOK, IInv, LockInv, Reason
<1>9. ASSUME NEW p \in Proc, Abort(p)
      PROVE  KnownInv'
  BY <1>0, <1>9, SMTT(20) DEF Abort, InTx, TypeOK, RotationInv, IInv, LockInv
<1>10. CASE Tick
  BY <1>0, <1>10 DEF Tick, TypeOK
<1>11. CASE UNCHANGED vars
  BY <1>11 DEF vars
<1> QED
  BY <1>1, <1>2, <1>3, <1>4, <1>5, <1>6, <1>7, <1>8, <1>9, <1>10, <1>11 DEF Next, Serve

LEMMA NextRescanInv == IInv /\ RescanInv /\ [Next]_vars => RescanInv'
<1> SUFFICES ASSUME IInv, RescanInv, [Next]_vars
             PROVE  RescanInv'
  OBVIOUS
<1>0. TypeOK /\ TableInv /\ RotationInv /\ LockInv /\ AtMostOneLive
  BY DEF IInv
<1> USE TokenAssumption DEF RescanInv, RowsOf, Committed, table, local, Reply, InTx
<1>1. ASSUME NEW n \in Row, NEW f \in Family, NEW d \in Device, SignIn(n, f, d)
      PROVE  RescanInv'
  <2>1. status[n] = "absent" /\ \A p \in Proc : n \notin todo[p] \cup written[p]
    BY <1>0, <1>1 DEF SignIn, Unused, LockInv, TypeOK
  <2> QED
    BY <1>0, <1>1, <2>1 DEF SignIn, TypeOK
<1>2. ASSUME NEW p \in Proc, NEW s \in Row,
             \/ \E d \in Device : SendRefresh(p, s, d)
             \/ SendLogout(p, s) \/ SendLogoutAll(p, s)
      PROVE  RescanInv'
  BY <1>0, <1>2 DEF SendRefresh, SendLogout, SendLogoutAll, TypeOK
<1>3. ASSUME NEW p \in Proc, Lookup(p) \/ Race(p) \/ Claim(p) \/ Lost(p) \/ Return(p)
      PROVE  RescanInv'
  <2>1. CASE Lookup(p)
    BY <1>0, <2>1, SMTT(20) DEF Lookup, TypeOK
  <2>2. CASE Race(p)
    BY <1>0, <2>2 DEF Race, TypeOK
  <2>3. CASE Claim(p)
    BY <1>0, <2>3 DEF Claim, TypeOK
  <2>4. CASE Lost(p) \/ Return(p)
    BY <1>0, <2>4 DEF Lost, Return, TypeOK
  <2> QED
    BY <1>3, <2>1, <2>2, <2>3, <2>4
<1>4. ASSUME NEW p \in Proc, NEW n \in Row, Insert(p, n)
      PROVE  RescanInv'
  <2>1. status[n] = "absent" /\ \A q \in Proc : n \notin todo[q] \cup written[q]
    BY <1>0, <1>4 DEF Insert, Unused, LockInv, TypeOK
  <2> QED
    BY <1>0, <1>4, <2>1 DEF Insert, TypeOK
<1>5. ASSUME NEW p \in Proc, Scan(p)
      PROVE  RescanInv'
  <2>1. written[p] = {} /\ todo'[p] \subseteq RowsOf(scope[p]) /\ pc'[p] = "revoke"
    <3>1. pc[p] = "scan"
      BY <1>5 DEF Scan
    <3>2. written[p] = {}
      BY <1>0, <3>1 DEF LockInv
    <3>3. todo'[p] = {s \in RowsOf(scope[p]) : status[s] = "live"} /\ pc'[p] = "revoke"
      BY <1>0, <1>5 DEF Scan, TypeOK
    <3> QED
      BY <3>2, <3>3
  <2>2. /\ status' = status /\ family' = family /\ scope' = scope /\ written' = written
        /\ \A q \in Proc \ {p} : todo'[q] = todo[q] /\ pc'[q] = pc[q]
    BY <1>0, <1>5 DEF Scan, TypeOK
  <2> QED
    BY <2>1, <2>2
<1>6. ASSUME NEW p \in Proc, NEW s \in Row, Revoke(p, s)
      PROVE  RescanInv'
  BY <1>0, <1>6 DEF Revoke, TypeOK
<1>7. ASSUME NEW p \in Proc, Rescan(p)
      PROVE  RescanInv'
  BY <1>0, <1>7 DEF Rescan, TypeOK
<1>8. ASSUME NEW p \in Proc, CommitRotation(p)
      PROVE  RescanInv'
  <2>1. /\ tok[p] \in Row /\ fresh[p] \in Row /\ tok[p] # fresh[p] /\ pc[p] = "commit"
        /\ status[tok[p]] = "live" /\ status[fresh[p]] = "absent" /\ written[p] = {tok[p]}
        /\ family' = family /\ pc' = [pc EXCEPT ![p] = "done"]
        /\ status' = [status EXCEPT ![tok[p]] = "rotated", ![fresh[p]] = "live"]
        /\ todo' = todo /\ scope' = scope /\ written' = [written EXCEPT ![p] = {}]
    BY <1>0, <1>8 DEF CommitRotation, RotationInv
  <2>2. \A q \in Proc : fresh[p] \notin todo[q] \cup written[q]
    BY <1>0, <2>1 DEF TypeOK, LockInv
  <2>3. ASSUME NEW q \in Proc, q # p
        PROVE  tok[p] \notin written[q]
    BY <1>0, <2>1, <2>3 DEF LockInv
  <2>4. ASSUME NEW q \in Proc, pc'[q] = "relabel", NEW n \in written'[q], NEW s \in Row,
               status'[n] = "live", status'[s] = "rotated", family'[s] = family'[n]
        PROVE  s \in todo'[q] \cup written'[q]
    <3>1. q # p /\ pc[q] = "relabel" /\ n \in written[q] /\ n # tok[p] /\ n # fresh[p]
      BY <1>0, <2>1, <2>2, <2>3, <2>4 DEF TypeOK
    <3>2. status[n] = "live" /\ n \in Row
      BY <1>0, <2>1, <2>4, <3>1 DEF TypeOK
    <3>3. s # tok[p]
      BY <1>0, <2>1, <2>4, <3>1, <3>2 DEF AtMostOneLive
    <3>4. status[s] = "rotated"
      BY <1>0, <2>1, <2>4, <3>3 DEF TypeOK
    <3> QED
      BY <1>0, <2>1, <2>4, <3>1, <3>2, <3>4 DEF TypeOK
  <2>5. ASSUME NEW q \in Proc
        PROVE  /\ pc'[q] \notin {"revoke", "relabel"} => todo'[q] = {}
               /\ pc'[q] \in {"revoke", "relabel"} =>
                    todo'[q] \subseteq RowsOf(scope[q])' /\ written'[q] \subseteq RowsOf(scope[q])'
    BY <1>0, <2>1 DEF TypeOK
  <2> QED
    BY <2>4, <2>5
<1>9. ASSUME NEW p \in Proc, CommitRevoke(p)
      PROVE  RescanInv'
  <2>1. /\ pc[p] = "relabel" /\ todo[p] = {} /\ reason[p] \in Reason /\ family' = family
        /\ \A s \in Row : /\ status'[s] \in {"live", "rotated"} => status'[s] = status[s]
                          /\ status[s] # "absent" => status'[s] # "absent"
        /\ pc' = [pc EXCEPT ![p] = "done"]
        /\ todo' = todo /\ scope' = scope /\ written' = [written EXCEPT ![p] = {}]
    BY <1>0, <1>9 DEF CommitRevoke, LockInv, Reason
  <2>2. ASSUME NEW q \in Proc, pc'[q] = "relabel", NEW n \in written'[q], NEW s \in Row,
               status'[n] = "live", status'[s] = "rotated", family'[s] = family'[n]
        PROVE  s \in todo'[q] \cup written'[q]
    <3>1. q # p /\ pc[q] = "relabel" /\ n \in written[q] /\ n \in Row
      BY <1>0, <2>1, <2>2 DEF TypeOK
    <3> QED
      BY <1>0, <2>1, <2>2, <3>1 DEF TypeOK
  <2>3. ASSUME NEW q \in Proc
        PROVE  /\ pc'[q] \notin {"revoke", "relabel"} => todo'[q] = {}
               /\ pc'[q] \in {"revoke", "relabel"} =>
                    todo'[q] \subseteq RowsOf(scope[q])' /\ written'[q] \subseteq RowsOf(scope[q])'
    BY <1>0, <2>1 DEF TypeOK
  <2> QED
    BY <2>2, <2>3
<1>10. ASSUME NEW p \in Proc, Abort(p)
      PROVE  RescanInv'
  <2>1. /\ status' = status
        /\ pc' = [pc EXCEPT ![p] = "done"] /\ scope' = scope
        /\ todo' = [todo EXCEPT ![p] = {}] /\ written' = [written EXCEPT ![p] = {}]
        /\ \A s \in Row : status[s] # "absent" => family'[s] = family[s]
    BY <1>0, <1>10 DEF Abort, RotationInv, TypeOK
  <2>2. ASSUME NEW q \in Proc, pc'[q] = "relabel", NEW n \in written'[q], NEW s \in Row,
               status'[n] = "live", status'[s] = "rotated", family'[s] = family'[n]
        PROVE  s \in todo'[q] \cup written'[q]
    <3>1. q # p /\ pc[q] = "relabel" /\ n \in written[q] /\ n \in Row
      BY <1>0, <2>1, <2>2 DEF TypeOK
    <3> QED
      BY <1>0, <2>1, <2>2, <3>1 DEF TypeOK
  <2>3. ASSUME NEW q \in Proc
        PROVE  /\ pc'[q] \notin {"revoke", "relabel"} => todo'[q] = {}
               /\ pc'[q] \in {"revoke", "relabel"} =>
                    todo'[q] \subseteq RowsOf(scope[q])' /\ written'[q] \subseteq RowsOf(scope[q])'
    BY <1>0, <2>1 DEF TypeOK
  <2> QED
    BY <2>2, <2>3
<1>11. CASE Tick \/ UNCHANGED vars
  BY <1>11 DEF Tick, vars
<1> QED
  BY <1>1, <1>2, <1>3, <1>4, <1>5, <1>6, <1>7, <1>8, <1>9, <1>10, <1>11 DEF Next, Serve

\* A later tame state was tame before: rotations are kept, and the clock only advances.
LEMMA TameBefore == IInv /\ [Next]_vars /\ Tame' => Tame
<1> SUFFICES ASSUME IInv, [Next]_vars, Tame', NEW s \in Row, rotatedAt[s] # Never
             PROVE  clock - rotatedAt[s] <= Grace
  BY DEF Tame
<1>1. clock' >= clock
  BY TokenAssumption DEF Next, Serve, vars, IInv, TypeOK, SignIn, SendLogout, SendLogoutAll,
     SendRefresh, Lookup, Race, Claim, CommitRotation, Lost, Insert, Scan, Rescan,
     CommitRevoke, Revoke, Return, Abort, Tick
<1>2. rotatedAt'[s] = rotatedAt[s]
  <2>1. CASE Invisible
    BY <2>1 DEF Invisible
  <2>2. ASSUME NEW m \in Row, NEW f \in Family, NEW d \in Device, SignIn(m, f, d)
        PROVE  rotatedAt'[s] = rotatedAt[s]
    BY <2>2 DEF SignIn
  <2>3. ASSUME NEW p \in Proc, CommitRotation(p)
        PROVE  rotatedAt'[s] = rotatedAt[s]
    BY <2>3 DEF CommitRotation, IInv, TypeOK, RotationInv, TableInv
  <2>4. ASSUME NEW p \in Proc, CommitRevoke(p)
        PROVE  rotatedAt'[s] = rotatedAt[s]
    BY <2>4 DEF CommitRevoke
  <2> QED
    BY <2>1, <2>2, <2>3, <2>4, VisibleSteps
<1>3. clock' - rotatedAt'[s] <= Grace
  BY <1>2 DEF Tame
<1>4. clock \in Int /\ clock' \in Int /\ rotatedAt[s] \in Int /\ Grace \in Int
  <2>1. TypeOK /\ TypeOK'
    BY NextIInv DEF IInv
  <2> QED
    BY <2>1, TokenAssumption DEF TypeOK, Never
<1> QED
  BY <1>1, <1>2, <1>3, <1>4

LEMMA NextTheftInv == IInv /\ KnownInv /\ OrderInv /\ RescanInv /\ HeirInv
                         /\ TheftInv /\ [Next]_vars
                         => TheftInv'
<1> SUFFICES ASSUME IInv, KnownInv, OrderInv, RescanInv, HeirInv, TheftInv,
                    [Next]_vars, Tame'
             PROVE  /\ \A s \in Row : status'[s] # "refresh_reuse"
                    /\ \A p \in Proc :
                          (pc'[p] \in {"scan", "revoke", "relabel"}
                              /\ reason'[p] = "refresh_reuse") =>
                          /\ \E r \in Row : Committed(r)' /\ scope'[p] = {family'[r]}
                          /\ \A s \in RowsOf(scope[p])' : status'[s] \notin {"live", "rotated"}
                          /\ todo'[p] = {} /\ written'[p] = {}
  BY DEF TheftInv
<1> DEFINE Empty(p) ==
        /\ \E r \in Row : Committed(r) /\ scope[p] = {family[r]}
        /\ \A s \in RowsOf(scope[p]) : status[s] \notin {"live", "rotated"}
        /\ todo[p] = {} /\ written[p] = {}
           Reuse(p) == pc[p] \in {"scan", "revoke", "relabel"} /\ reason[p] = "refresh_reuse"
<1>0. TypeOK /\ TableInv /\ RotationInv /\ LockInv /\ Tame
  BY TameBefore DEF IInv
<1>1. (\A s \in Row : status[s] # "refresh_reuse") /\ \A p \in Proc : Reuse(p) => Empty(p)
  BY <1>0 DEF TheftInv
<1> SUFFICES (\A s \in Row : status'[s] # "refresh_reuse")
                 /\ \A p \in Proc : Reuse(p)' => Empty(p)'
  OBVIOUS
\* A family with nothing to revoke stays so, whoever commits.
<1>2. ASSUME NEW p \in Proc, Empty(p), scope'[p] = scope[p],
             todo'[p] = {}, written'[p] = {}
      PROVE  Empty(p)'
  <2>1. PICK r \in Row : Committed(r) /\ scope[p] = {family[r]}
    BY <1>2
  <2>2. CASE Invisible
    BY <1>2, <2>1, <2>2 DEF Invisible, RowsOf, Committed
  <2>3. ASSUME NEW m \in Row, NEW f \in Family, NEW d \in Device, SignIn(m, f, d)
        PROVE  Empty(p)'
    <3>1. status[m] = "absent" /\ family[r] # f
      BY <2>3 DEF SignIn, Unused, Committed
    <3> QED
      BY <1>0, <1>2, <2>1, <2>3, <3>1 DEF SignIn, RowsOf, Committed, TypeOK
  <2>4. ASSUME NEW q \in Proc, CommitRotation(q)
        PROVE  Empty(p)'
    <3>1. /\ tok[q] \in Row /\ fresh[q] \in Row /\ status[tok[q]] = "live"
          /\ status[fresh[q]] = "absent" /\ family' = family
          /\ family[fresh[q]] = family[tok[q]]
          /\ status' = [status EXCEPT ![tok[q]] = "rotated", ![fresh[q]] = "live"]
      BY <1>0, <2>4 DEF CommitRotation, RotationInv, Committed
    <3>2. family[tok[q]] \notin scope[p]
      BY <1>2, <3>1 DEF RowsOf, Committed
    <3> QED
      BY <1>0, <1>2, <2>1, <3>1, <3>2 DEF RowsOf, Committed, TypeOK
  <2>5. ASSUME NEW q \in Proc, CommitRevoke(q)
        PROVE  Empty(p)'
    BY <1>0, <1>2, <2>1, <2>5 DEF CommitRevoke, LockInv, RowsOf, Committed, Reason
  <2> QED
    BY <2>2, <2>3, <2>4, <2>5, VisibleSteps
\* Requests that revoke nothing for theft.
<1>3. \A s \in Row : status'[s] # "refresh_reuse"
  <2>1. CASE Invisible
    BY <1>1, <2>1 DEF Invisible
  <2>2. ASSUME NEW m \in Row, NEW f \in Family, NEW d \in Device, SignIn(m, f, d)
        PROVE  \A s \in Row : status'[s] # "refresh_reuse"
    BY <1>0, <1>1, <2>2 DEF SignIn, TypeOK
  <2>3. ASSUME NEW q \in Proc, CommitRotation(q)
        PROVE  \A s \in Row : status'[s] # "refresh_reuse"
    BY <1>0, <1>1, <2>3 DEF CommitRotation, TypeOK
  <2>4. ASSUME NEW q \in Proc, CommitRevoke(q)
        PROVE  \A s \in Row : status'[s] # "refresh_reuse"
    BY <1>1, <2>4 DEF CommitRevoke
  <2> QED
    BY <2>1, <2>2, <2>3, <2>4, VisibleSteps
\* A presentation of a rotated token that is not taken for a race: its family is over.
<1>4. ASSUME NEW p \in Proc, Race(p), Reuse(p)'
      PROVE  Empty(p)'
  <2> DEFINE t == tok[p]
  <2>1. /\ pc[p] = "race" /\ ~BenignRace(t, dev[p], at[p]) /\ scope'[p] = {family[t]}
        /\ UNCHANGED <<table, todo, written>>
    BY <1>0, <1>4 DEF Race, Reply, TypeOK
  <2>2. t \in Row /\ Committed(t) /\ rotatedAt[t] # Never /\ dev[p] \in Device /\ at[p] <= clock
    BY <1>0, <2>1 DEF RotationInv, KnownInv
  <2>3. Grace # 0 /\ at[p] - rotatedAt[t] <= Grace
    <3>1. clock - rotatedAt[t] <= Grace
      BY <1>0, <2>2 DEF Tame
    <3>2. at[p] \in Int /\ clock \in Int /\ rotatedAt[t] \in Int
      BY <1>0, <2>2, TokenAssumption DEF TypeOK, Never
    <3> QED
      BY <1>0, <2>2, <3>1, <3>2, TokenAssumption DEF Tame
  <2>4. ASSUME NEW n \in Row, status[n] = "live", family[n] = family[t]
        PROVE  FALSE
    <3>1. createdAt[n] >= rotatedAt[t]
      BY <2>2, <2>4 DEF OrderInv
    <3>2. n \in Successors(t)
      BY <2>4, <3>1 DEF Successors
    <3>3. \A m \in Successors(t) : m = n
      BY <2>4 DEF Successors, IInv, AtMostOneLive
    <3>4. n \in Newest(Successors(t))
      BY <1>0, <2>4, <3>2, <3>3, TokenAssumption DEF Newest, TypeOK
    <3>5. device[n] = dev[p]
      BY <1>0, <2>2, <2>4 DEF Tame, KnownInv, Committed
    <3> QED
      BY <2>1, <2>2, <2>3, <3>4, <3>5 DEF BenignRace
  <2>5. ASSUME NEW s \in Row, family[s] = family[t]
        PROVE  status[s] \notin {"live", "rotated"}
    BY <2>4, <2>5 DEF HeirInv
  <2>6. todo[p] = {} /\ written[p] = {}
    BY <1>0, <2>1 DEF LockInv, RescanInv, InTx
  <2> QED
    BY <2>1, <2>2, <2>5, <2>6 DEF RowsOf, Committed, table
\* The other steps of a request, and the steps of others, keep its scope.
<1>5. ASSUME NEW p \in Proc, Reuse(p)', ~Race(p)
      PROVE  /\ Reuse(p) /\ scope'[p] = scope[p]
             /\ Empty(p) => todo'[p] = {} /\ written'[p] = {}
  <2> USE <1>0, <1>5 DEF TypeOK, Reply
  <2>1. ASSUME NEW n \in Row, NEW f \in Family, NEW d \in Device, SignIn(n, f, d)
        PROVE  Reuse(p) /\ UNCHANGED <<scope, todo, written>>
    BY <2>1 DEF SignIn, local
  <2>2. ASSUME NEW q \in Proc, NEW s \in Row, NEW d \in Device, SendRefresh(q, s, d)
        PROVE  Reuse(p) /\ UNCHANGED <<scope, todo, written>>
    BY <2>2 DEF SendRefresh
  <2>3. ASSUME NEW q \in Proc, NEW s \in Row, SendLogout(q, s) \/ SendLogoutAll(q, s)
        PROVE  Reuse(p) /\ scope'[p] = scope[p] /\ UNCHANGED <<todo, written>>
    BY <2>3 DEF SendLogout, SendLogoutAll
  <2>4. ASSUME NEW q \in Proc, Lookup(q) \/ Lost(q)
        PROVE  Reuse(p) /\ UNCHANGED <<scope, todo, written>>
    BY <2>4 DEF Lookup, Lost, local
  <2>5. ASSUME NEW q \in Proc, Race(q)
        PROVE  Reuse(p) /\ scope'[p] = scope[p] /\ UNCHANGED <<todo, written>>
    BY <2>5 DEF Race
  <2>6. ASSUME NEW q \in Proc, Claim(q)
        PROVE  Reuse(p) /\ UNCHANGED <<scope, todo>> /\ written'[p] = written[p]
    BY <2>6 DEF Claim
  <2>7. ASSUME NEW q \in Proc, CommitRotation(q) \/ CommitRevoke(q) \/ Abort(q) \/ Return(q)
        PROVE  /\ Reuse(p) /\ scope'[p] = scope[p] /\ todo'[p] = todo[p]
               /\ written'[p] = written[p]
    BY <2>7 DEF CommitRotation, CommitRevoke, Abort, Return
  <2>8. ASSUME NEW q \in Proc, NEW n \in Row, Insert(q, n)
        PROVE  Reuse(p) /\ UNCHANGED <<scope, todo, written>>
    BY <2>8 DEF Insert
  <2>9. ASSUME NEW q \in Proc, Scan(q) \/ Rescan(q)
        PROVE  /\ Reuse(p) /\ UNCHANGED <<scope, written>>
               /\ Empty(p) => todo'[p] = {}
    BY <2>9, SMTT(20) DEF Scan, Rescan
  <2>10. ASSUME NEW q \in Proc, NEW s \in Row, Revoke(q, s)
         PROVE  /\ Reuse(p) /\ UNCHANGED scope
                /\ Empty(p) => todo'[p] = {} /\ written'[p] = {}
    BY <2>10 DEF Revoke
  <2>11. CASE Tick \/ UNCHANGED vars
    BY <2>11 DEF Tick, vars, local
  <2>12. Empty(p) => todo[p] = {} /\ written[p] = {}
    OBVIOUS
  <2> HIDE DEF Reuse, Empty
  <2> QED
    BY <2>12, <2>1, <2>2, <2>3, <2>4, <2>5, <2>6, <2>7, <2>8, <2>9, <2>10, <2>11 DEF Next, Serve
<1> HIDE DEF Reuse, Empty
<1>6. ASSUME NEW p \in Proc, Reuse(p)'
      PROVE  Empty(p)'
  BY <1>1, <1>2, <1>4, <1>5, <1>6
<1> QED
  BY <1>3, <1>6

LEMMA RaceInvariance == Spec => []RaceInv
<1>1. IInv /\ RaceInv /\ [Next]_vars => RaceInv'
  BY NextKnownInv, NextOrderInv, NextRescanInv, NextHeirInv, NextTheftInv DEF RaceInv
<1> QED
  BY <1>1, InitRaceInv, Invariance, PTL DEF Spec

\* Tabs and retries of one browser, as many as there may be, are never taken for theft
\* while the rotations are within the grace period, whatever logouts race with them.
THEOREM RacesAreNotTheft == Spec => []SameBrowserRaceIsNotTheft
<1>1. RaceInv => SameBrowserRaceIsNotTheft
  BY DEF RaceInv, TheftInv, Tame, SameBrowserRaceIsNotTheft
<1> QED
  BY <1>1, RaceInvariance, PTL

=============================================================================
