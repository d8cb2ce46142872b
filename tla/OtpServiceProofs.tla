---------------------------- MODULE OtpServiceProofs ----------------------------
(* Theorems about OtpService, for every value of its constants. *)
EXTENDS OtpService, FiniteSetTheorems, TLAPS

\* The invariant holds before the first request.
LEMMA InitIInv == Init => IInv
  BY OtpAssumption DEF Init, IInv, TypeOK, HolderInv, TicketInv, WinnerInv, ResendInv,
     SingleUse, Status, PC, Guess, Never, Winning

\* Every statement of every request preserves the invariant.
LEMMA NextIInv == IInv /\ [Next]_vars => IInv'
<1> SUFFICES ASSUME TypeOK, HolderInv, TicketInv, WinnerInv, ResendInv, SingleUse,
                    [Next]_vars
             PROVE  IInv'
  BY DEF IInv
<1> USE OtpAssumption DEF Status, PC, Guess, Never, Winning, Goto, CloseIfPending, table, local
<1>1. ASSUME NEW p \in Proc, NEW m \in Mobile, NEW i \in Ip, SendRequest(p, m, i)
      PROVE  IInv'
  <2>1. TypeOK'
    BY <1>1 DEF SendRequest, TypeOK, HolderInv, WinnerInv, ResendInv, TicketInv
  <2>2. HolderInv'
    BY <1>1 DEF SendRequest, TypeOK, HolderInv
  <2>3. TicketInv'
    BY <1>1 DEF SendRequest, TypeOK, TicketInv, HolderInv
  <2>4. WinnerInv'
    BY <1>1 DEF SendRequest, TypeOK, WinnerInv, HolderInv
  <2>5. ResendInv'
    BY <1>1 DEF SendRequest, TypeOK, ResendInv, HolderInv
  <2>6. SingleUse'
    BY <1>1 DEF SendRequest, TypeOK, SingleUse, WinnerInv
  <2>7. QED
    BY <2>1, <2>2, <2>3, <2>4, <2>5, <2>6 DEF IInv
<1>2. ASSUME NEW p \in Proc, CheckLimit(p)
      PROVE  IInv'
  <2>0. PICK l \in {"done", "hourly", "network", "expire"} : pc' = [pc EXCEPT ![p] = l]
    BY <1>2 DEF CheckLimit
  <2>1. TypeOK'
    BY <1>2 DEF CheckLimit, TypeOK, HolderInv, WinnerInv, ResendInv, TicketInv
  <2>2. HolderInv'
    BY <1>2 DEF CheckLimit, TypeOK, HolderInv
  <2>3. TicketInv'
    BY <1>2, <2>0 DEF CheckLimit, TypeOK, TicketInv, HolderInv
  <2>4. WinnerInv'
    BY <1>2, <2>0 DEF CheckLimit, TypeOK, WinnerInv, HolderInv
  <2>5. ResendInv'
    BY <1>2 DEF CheckLimit, TypeOK, ResendInv, HolderInv
  <2>6. SingleUse'
    BY <1>2 DEF CheckLimit, TypeOK, SingleUse, WinnerInv
  <2>7. QED
    BY <2>1, <2>2, <2>3, <2>4, <2>5, <2>6 DEF IInv
<1>3. ASSUME NEW p \in Proc, ExpireOlder(p)
      PROVE  IInv'
  <2>1. TypeOK'
    BY <1>3 DEF ExpireOlder, TypeOK, HolderInv, WinnerInv, ResendInv, TicketInv
  <2>2. HolderInv'
    BY <1>3 DEF ExpireOlder, TypeOK, HolderInv
  <2>3. TicketInv'
    BY <1>3 DEF ExpireOlder, TypeOK, TicketInv, HolderInv
  <2>4. WinnerInv'
    BY <1>3 DEF ExpireOlder, TypeOK, WinnerInv, HolderInv
  <2>5. ResendInv'
    BY <1>3 DEF ExpireOlder, TypeOK, ResendInv, HolderInv
  <2>6. SingleUse'
    BY <1>3 DEF ExpireOlder, TypeOK, SingleUse, WinnerInv
  <2>7. QED
    BY <2>1, <2>2, <2>3, <2>4, <2>5, <2>6 DEF IInv
<1>4. ASSUME NEW p \in Proc, NEW s \in Session, Create(p, s)
      PROVE  IInv'
  <2>1. TypeOK'
    BY <1>4 DEF Create, TypeOK, HolderInv, WinnerInv, ResendInv, TicketInv
  <2>2. HolderInv'
    BY <1>4 DEF Create, TypeOK, HolderInv
  <2>3. TicketInv'
    BY <1>4 DEF Create, TypeOK, TicketInv, HolderInv
  <2>4. WinnerInv'
    BY <1>4 DEF Create, TypeOK, WinnerInv, HolderInv
  <2>5. ResendInv'
    BY <1>4 DEF Create, TypeOK, ResendInv, HolderInv
  <2>6. SingleUse'
    BY <1>4 DEF Create, TypeOK, SingleUse, WinnerInv
  <2>7. QED
    BY <2>1, <2>2, <2>3, <2>4, <2>5, <2>6 DEF IInv
<1>5. ASSUME NEW p \in Proc, Deliver(p)
      PROVE  IInv'
  <2>1. TypeOK'
    <3>1. status' \in [Session -> Status]
      BY <1>5 DEF Deliver, TypeOK, HolderInv
    <3> QED
      BY <1>5, <3>1 DEF Deliver, TypeOK
  <2>2. HolderInv'
    BY <1>5 DEF Deliver, TypeOK, HolderInv
  <2>3. TicketInv'
    BY <1>5 DEF Deliver, TypeOK, TicketInv, HolderInv
  <2>4. WinnerInv'
    BY <1>5 DEF Deliver, TypeOK, WinnerInv, HolderInv
  <2>5. ResendInv'
    BY <1>5 DEF Deliver, TypeOK, ResendInv, HolderInv
  <2>6. SingleUse'
    BY <1>5 DEF Deliver, TypeOK, SingleUse, WinnerInv
  <2>7. QED
    BY <2>1, <2>2, <2>3, <2>4, <2>5, <2>6 DEF IInv
<1>6. ASSUME NEW p \in Proc, NEW s \in Session, SendResend(p, s)
      PROVE  IInv'
  <2>1. TypeOK'
    BY <1>6 DEF SendResend, TypeOK, HolderInv, WinnerInv, ResendInv, TicketInv
  <2>2. HolderInv'
    BY <1>6 DEF SendResend, TypeOK, HolderInv
  <2>3. TicketInv'
    BY <1>6 DEF SendResend, TypeOK, TicketInv, HolderInv
  <2>4. WinnerInv'
    BY <1>6 DEF SendResend, TypeOK, WinnerInv, HolderInv
  <2>5. ResendInv'
    BY <1>6 DEF SendResend, TypeOK, ResendInv, HolderInv
  <2>6. SingleUse'
    BY <1>6 DEF SendResend, TypeOK, SingleUse, WinnerInv
  <2>7. QED
    BY <2>1, <2>2, <2>3, <2>4, <2>5, <2>6 DEF IInv
<1>7. ASSUME NEW p \in Proc, ReadForResend(p)
      PROVE  IInv'
  <2>0. PICK l \in {"resend", "done"} : pc' = [pc EXCEPT ![p] = l]
    BY <1>7 DEF ReadForResend
  <2>a. sent' \in [Proc -> 0..MaxSends]
    BY <1>7 DEF ReadForResend, TypeOK, HolderInv
  <2>1. TypeOK'
    BY <1>7, <2>0, <2>a DEF ReadForResend, TypeOK
  <2>2. HolderInv'
    BY <1>7 DEF ReadForResend, TypeOK, HolderInv
  <2>3. TicketInv'
    BY <1>7, <2>0 DEF ReadForResend, TypeOK, TicketInv, HolderInv
  <2>4. WinnerInv'
    BY <1>7, <2>0 DEF ReadForResend, TypeOK, WinnerInv, HolderInv
  <2>5. ResendInv'
    BY <1>7 DEF ReadForResend, TypeOK, ResendInv, HolderInv
  <2>6. SingleUse'
    BY <1>7 DEF ReadForResend, TypeOK, SingleUse, WinnerInv
  <2>7. QED
    BY <2>1, <2>2, <2>3, <2>4, <2>5, <2>6 DEF IInv
<1>8. ASSUME NEW p \in Proc, Resend(p)
      PROVE  IInv'
  <2>0. PICK l \in {"deliver", "done"} : pc' = [pc EXCEPT ![p] = l]
    BY <1>8 DEF Resend
  <2>a. sends' \in [Session -> 0..MaxSends] /\ sentAt' \in [Session -> 0..MaxTime]
    <3>1. /\ sid[p] \in Session /\ sent[p] \in Nat /\ sent[p] < MaxSends
          /\ at[p] \in 0..MaxTime
      BY <1>8 DEF Resend, TypeOK, HolderInv, ResendInv
    <3>2. CASE UNCHANGED <<sends, sentAt>>
      BY <3>2 DEF TypeOK
    <3>3. CASE /\ sends[sid[p]] = sent[p]
               /\ sends' = [sends EXCEPT ![sid[p]] = @ + 1]
               /\ sentAt' = [sentAt EXCEPT ![sid[p]] = at[p]]
      <4>1. sends[sid[p]] + 1 \in 0..MaxSends
        BY <3>1, <3>3
      <4> QED
        BY <3>1, <3>3, <4>1 DEF TypeOK
    <3> QED
      BY <1>8, <3>2, <3>3 DEF Resend
  <2>1. TypeOK'
    BY <1>8, <2>0, <2>a DEF Resend, TypeOK
  <2>2. HolderInv'
    BY <1>8 DEF Resend, TypeOK, HolderInv
  <2>3. TicketInv'
    BY <1>8, <2>0 DEF Resend, TypeOK, TicketInv, HolderInv
  <2>4. WinnerInv'
    BY <1>8, <2>0 DEF Resend, TypeOK, WinnerInv, HolderInv
  <2>5. ResendInv'
    BY <1>8, SMTT(20) DEF Resend, TypeOK, ResendInv, HolderInv
  <2>6. SingleUse'
    BY <1>8 DEF Resend, TypeOK, SingleUse, WinnerInv
  <2>7. QED
    BY <2>1, <2>2, <2>3, <2>4, <2>5, <2>6 DEF IInv
<1>9. ASSUME NEW p \in Proc, NEW s \in Session, NEW g \in Guess, SendVerify(p, s, g)
      PROVE  IInv'
  <2>1. TypeOK'
    BY <1>9 DEF SendVerify, TypeOK, HolderInv, WinnerInv, ResendInv, TicketInv
  <2>2. HolderInv'
    BY <1>9 DEF SendVerify, TypeOK, HolderInv
  <2>3. TicketInv'
    BY <1>9 DEF SendVerify, TypeOK, TicketInv, HolderInv
  <2>4. WinnerInv'
    BY <1>9 DEF SendVerify, TypeOK, WinnerInv, HolderInv
  <2>5. ResendInv'
    BY <1>9 DEF SendVerify, TypeOK, ResendInv, HolderInv
  <2>6. SingleUse'
    BY <1>9 DEF SendVerify, TypeOK, SingleUse, WinnerInv
  <2>7. QED
    BY <2>1, <2>2, <2>3, <2>4, <2>5, <2>6 DEF IInv
<1>10. ASSUME NEW p \in Proc, ClaimAttempt(p)
      PROVE  IInv'
  <2>0. CASE /\ status[sid[p]] = "PENDING" /\ attempts[sid[p]] < MaxAttempts
             /\ attempts' = [attempts EXCEPT ![sid[p]] = @ + 1]
             /\ ticket' = [ticket EXCEPT ![p] = attempts[sid[p]] + 1]
             /\ Goto(p, "check")
    <3>0. sid[p] \in Session /\ attempts[sid[p]] \in 0..MaxAttempts
      BY <1>10 DEF ClaimAttempt, HolderInv, TypeOK
    <3>1. TypeOK'
      BY <1>10, <2>0, <3>0 DEF ClaimAttempt, TypeOK
    <3>2. HolderInv'
      BY <1>10, <2>0 DEF ClaimAttempt, TypeOK, HolderInv
    <3>3. TicketInv'
      <4>1. \A t \in Session : compared'[t] \subseteq 1..attempts'[t]
        BY <1>10, <2>0, <3>0 DEF ClaimAttempt, TypeOK, TicketInv
      <4>2. \A q \in Proc \ {p} : pc[q] = "check" /\ sid[q] = sid[p] => ticket[q] # ticket'[p]
        BY <2>0, <3>0 DEF TypeOK, TicketInv
      <4>3. ticket'[p] \notin compared[sid[p]]
        BY <2>0, <3>0 DEF TypeOK, TicketInv
      <4>4. \A q \in Proc : pc'[q] \in {"check", "consume", "lookup", "upsert", "issue"} =>
                ticket'[q] \in 1..attempts'[sid'[q]]
        BY <1>10, <2>0, <3>0 DEF ClaimAttempt, TypeOK, TicketInv, HolderInv
      <4> QED
        BY <1>10, <2>0, <4>1, <4>2, <4>3, <4>4 DEF ClaimAttempt, TypeOK, TicketInv
    <3>4. WinnerInv'
      BY <1>10, <2>0 DEF ClaimAttempt, TypeOK, WinnerInv
    <3>5. ResendInv' /\ SingleUse'
      BY <1>10, <2>0 DEF ClaimAttempt, TypeOK, ResendInv, SingleUse
    <3> QED
      BY <3>1, <3>2, <3>3, <3>4, <3>5 DEF IInv
  <2>a. CASE Goto(p, "done") /\ UNCHANGED <<attempts, ticket>>
    BY <1>10, <2>a DEF ClaimAttempt, IInv, TypeOK, HolderInv, TicketInv, WinnerInv,
       ResendInv, SingleUse
  <2>1. QED
    BY <1>10, <2>0, <2>a DEF ClaimAttempt
<1>11. ASSUME NEW p \in Proc, Check(p)
      PROVE  IInv'
  <2>0. PICK l \in {"lapse", "consume", "lock", "done"} : pc' = [pc EXCEPT ![p] = l]
    BY <1>11 DEF Check
  <2>a. /\ compared' = compared \/ compared' = [compared EXCEPT ![sid[p]] = @ \cup {ticket[p]}]
        /\ pc[p] = "check" /\ sid[p] \in Session /\ ticket[p] \in 1..attempts[sid[p]]
    BY <1>11 DEF Check, HolderInv, TicketInv
  <2>1. TypeOK'
    <3>1. compared' \in [Session -> SUBSET (1..MaxAttempts)]
      BY <2>a DEF TypeOK
    <3> QED
      BY <1>11, <2>0, <3>1 DEF Check, TypeOK
  <2>2. HolderInv'
    BY <1>11 DEF Check, TypeOK, HolderInv
  <2>3. TicketInv'
    <3>1. \A t \in Session : compared'[t] \subseteq 1..attempts[t]
      <4>1. CASE compared' = compared
        BY <4>1 DEF TicketInv
      <4>2. CASE compared' = [compared EXCEPT ![sid[p]] = @ \cup {ticket[p]}]
        <5> TAKE t \in Session
        <5>1. t = sid[p] => compared'[t] = compared[t] \cup {ticket[p]}
          BY <4>2 DEF TypeOK
        <5>2. t # sid[p] => compared'[t] = compared[t]
          BY <4>2 DEF TypeOK
        <5> QED
          BY <2>a, <5>1, <5>2 DEF TicketInv
      <4> QED
        BY <2>a, <4>1, <4>2
    <3>2. ASSUME NEW q \in Proc \ {p}, pc[q] = "check"
          PROVE  ticket[q] \notin compared'[sid[q]]
      <4>1. sid[q] \in Session /\ ticket[q] \notin compared[sid[q]]
        BY <3>2 DEF TicketInv, HolderInv
      <4>2. sid[q] = sid[p] => ticket[q] # ticket[p]
        BY <2>a, <3>2 DEF TicketInv
      <4> QED
        BY <2>a, <4>1, <4>2 DEF TypeOK
    <3> QED
      BY <1>11, <2>0, <2>a, <3>1, <3>2 DEF Check, TypeOK, TicketInv
  <2>4. WinnerInv'
    BY <1>11, <2>0 DEF Check, TypeOK, WinnerInv, HolderInv
  <2>5. ResendInv'
    BY <1>11 DEF Check, TypeOK, ResendInv, HolderInv
  <2>6. SingleUse'
    BY <1>11 DEF Check, TypeOK, SingleUse, WinnerInv
  <2>7. QED
    BY <2>1, <2>2, <2>3, <2>4, <2>5, <2>6 DEF IInv
<1>12. ASSUME NEW p \in Proc, Lapse(p)
      PROVE  IInv'
  <2>1. TypeOK'
    BY <1>12 DEF Lapse, TypeOK, HolderInv, WinnerInv, ResendInv, TicketInv
  <2>2. HolderInv'
    BY <1>12 DEF Lapse, TypeOK, HolderInv
  <2>3. TicketInv'
    BY <1>12 DEF Lapse, TypeOK, TicketInv, HolderInv
  <2>4. WinnerInv'
    BY <1>12 DEF Lapse, TypeOK, WinnerInv, HolderInv
  <2>5. ResendInv'
    BY <1>12 DEF Lapse, TypeOK, ResendInv, HolderInv
  <2>6. SingleUse'
    BY <1>12 DEF Lapse, TypeOK, SingleUse, WinnerInv
  <2>7. QED
    BY <2>1, <2>2, <2>3, <2>4, <2>5, <2>6 DEF IInv
<1>13. ASSUME NEW p \in Proc, LockSession(p)
      PROVE  IInv'
  <2>1. TypeOK'
    BY <1>13 DEF LockSession, TypeOK, HolderInv, WinnerInv, ResendInv, TicketInv
  <2>2. HolderInv'
    BY <1>13 DEF LockSession, TypeOK, HolderInv
  <2>3. TicketInv'
    BY <1>13 DEF LockSession, TypeOK, TicketInv, HolderInv
  <2>4. WinnerInv'
    BY <1>13 DEF LockSession, TypeOK, WinnerInv, HolderInv
  <2>5. ResendInv'
    BY <1>13 DEF LockSession, TypeOK, ResendInv, HolderInv
  <2>6. SingleUse'
    BY <1>13 DEF LockSession, TypeOK, SingleUse, WinnerInv
  <2>7. QED
    BY <2>1, <2>2, <2>3, <2>4, <2>5, <2>6 DEF IInv
<1>14. ASSUME NEW p \in Proc, Consume(p)
      PROVE  IInv'
  <2>1. TypeOK'
    BY <1>14 DEF Consume, TypeOK, HolderInv, WinnerInv, ResendInv, TicketInv
  <2>2. HolderInv'
    BY <1>14 DEF Consume, TypeOK, HolderInv
  <2>3. TicketInv'
    BY <1>14 DEF Consume, TypeOK, TicketInv, HolderInv
  <2>4. WinnerInv'
    BY <1>14 DEF Consume, TypeOK, WinnerInv, HolderInv
  <2>5. ResendInv'
    BY <1>14 DEF Consume, TypeOK, ResendInv, HolderInv
  <2>6. SingleUse'
    BY <1>14 DEF Consume, TypeOK, SingleUse, WinnerInv
  <2>7. QED
    BY <2>1, <2>2, <2>3, <2>4, <2>5, <2>6 DEF IInv
<1>15. ASSUME NEW p \in Proc, LookupUser(p)
      PROVE  IInv'
  <2>1. TypeOK'
    BY <1>15 DEF LookupUser, TypeOK, HolderInv, WinnerInv, ResendInv, TicketInv
  <2>2. HolderInv'
    BY <1>15 DEF LookupUser, TypeOK, HolderInv
  <2>3. TicketInv'
    BY <1>15 DEF LookupUser, TypeOK, TicketInv, HolderInv
  <2>4. WinnerInv'
    BY <1>15 DEF LookupUser, TypeOK, WinnerInv, HolderInv
  <2>5. ResendInv'
    BY <1>15 DEF LookupUser, TypeOK, ResendInv, HolderInv
  <2>6. SingleUse'
    BY <1>15 DEF LookupUser, TypeOK, SingleUse, WinnerInv
  <2>7. QED
    BY <2>1, <2>2, <2>3, <2>4, <2>5, <2>6 DEF IInv
<1>16. ASSUME NEW p \in Proc, UpsertUser(p)
      PROVE  IInv'
  <2>0. PICK l \in {"issue", "done"} : pc' = [pc EXCEPT ![p] = l]
    BY <1>16 DEF UpsertUser
  <2>a. users' \in SUBSET Mobile /\ pc[p] = "upsert"
    BY <1>16 DEF UpsertUser, TypeOK, HolderInv, WinnerInv
  <2>1. TypeOK'
    BY <1>16, <2>0, <2>a DEF UpsertUser, TypeOK
  <2>2. HolderInv'
    BY <1>16 DEF UpsertUser, TypeOK, HolderInv
  <2>3. TicketInv'
    BY <1>16, <2>0, <2>a DEF UpsertUser, TypeOK, TicketInv, HolderInv
  <2>4. WinnerInv'
    BY <1>16, <2>0, <2>a DEF UpsertUser, TypeOK, WinnerInv, HolderInv
  <2>5. ResendInv'
    BY <1>16 DEF UpsertUser, TypeOK, ResendInv, HolderInv
  <2>6. SingleUse'
    BY <1>16 DEF UpsertUser, TypeOK, SingleUse, WinnerInv
  <2>7. QED
    BY <2>1, <2>2, <2>3, <2>4, <2>5, <2>6 DEF IInv
<1>17. ASSUME NEW p \in Proc, IssueTokens(p)
      PROVE  IInv'
  <2>1. TypeOK'
    BY <1>17 DEF IssueTokens, TypeOK, HolderInv, WinnerInv, ResendInv, TicketInv
  <2>2. HolderInv'
    BY <1>17 DEF IssueTokens, TypeOK, HolderInv
  <2>3. TicketInv'
    BY <1>17 DEF IssueTokens, TypeOK, TicketInv, HolderInv
  <2>4. WinnerInv'
    BY <1>17 DEF IssueTokens, TypeOK, WinnerInv, HolderInv
  <2>5. ResendInv'
    BY <1>17 DEF IssueTokens, TypeOK, ResendInv, HolderInv
  <2>6. SingleUse'
    BY <1>17 DEF IssueTokens, TypeOK, SingleUse, WinnerInv
  <2>7. QED
    BY <2>1, <2>2, <2>3, <2>4, <2>5, <2>6 DEF IInv
<1>18. ASSUME NEW p \in Proc, pc[p] # "idle", Reset(p)
      PROVE  IInv'
  <2>1. TypeOK'
    BY <1>18 DEF Reset, TypeOK, HolderInv, WinnerInv, ResendInv, TicketInv
  <2>2. HolderInv'
    BY <1>18 DEF Reset, TypeOK, HolderInv
  <2>3. TicketInv'
    BY <1>18 DEF Reset, TypeOK, TicketInv, HolderInv
  <2>4. WinnerInv'
    BY <1>18 DEF Reset, TypeOK, WinnerInv, HolderInv
  <2>5. ResendInv'
    BY <1>18 DEF Reset, TypeOK, ResendInv, HolderInv
  <2>6. SingleUse'
    BY <1>18 DEF Reset, TypeOK, SingleUse, WinnerInv
  <2>7. QED
    BY <2>1, <2>2, <2>3, <2>4, <2>5, <2>6 DEF IInv
<1>19. ASSUME Tick
      PROVE  IInv'
  BY <1>19 DEF Tick, IInv, TypeOK, HolderInv, TicketInv, WinnerInv, ResendInv, SingleUse
<1>20. ASSUME UNCHANGED vars
      PROVE  IInv'
  BY <1>20 DEF vars, IInv, TypeOK, HolderInv, TicketInv, WinnerInv, ResendInv, SingleUse
<1>21. QED
  BY <1>1, <1>2, <1>3, <1>4, <1>5, <1>6, <1>7, <1>8, <1>9, <1>10, <1>11, <1>12, <1>13, <1>14, <1>15, <1>16, <1>17, <1>18, <1>19, <1>20 DEF Next, Arrive, Step, Return, Crash

\* No request sees or holds a value outside the model's types, and no counter of
\* a session leaves its range (attempts, sendCount).
THEOREM TypeCorrect == Spec => []TypeOK
<1>1. Init => IInv
  BY InitIInv
<1>2. IInv /\ [Next]_vars => IInv'
  BY NextIInv
<1>3. IInv => TypeOK
  BY DEF IInv
<1> QED
  BY <1>1, <1>2, <1>3, PTL DEF Spec

\* The invariant that the other theorems rest on: claimed attempts are handed out
\* to one request each, and a session is won at most once.
THEOREM Invariance == Spec => []IInv
  BY InitIInv, NextIInv, PTL DEF Spec

\* Parallel guesses cannot exceed the attempt limit, and a resend grants no extra
\* ones (otp.service.ts, verify and resend), however many requests race.
THEOREM GuessesAreLimited == Spec => []EveryGuessCostsAnAttempt
<1>1. IInv => EveryGuessCostsAnAttempt
  <2> SUFFICES ASSUME IInv, NEW p \in Proc, pc[p] = "check"
               PROVE  /\ ticket[p] \in 1..MaxAttempts
                      /\ ticket[p] \notin compared[sid[p]]
                      /\ \A q \in Proc : (q # p /\ pc[q] = "check" /\ sid[q] = sid[p])
                                             => ticket[q] # ticket[p]
    BY DEF EveryGuessCostsAnAttempt
  <2>1. sid[p] \in Session /\ attempts[sid[p]] \in 0..MaxAttempts
    BY DEF IInv, HolderInv, TypeOK
  <2>2. ticket[p] \in 1..attempts[sid[p]] /\ ticket[p] \notin compared[sid[p]]
    BY DEF IInv, TicketInv
  <2>3. ticket[p] \in 1..MaxAttempts
    BY <2>1, <2>2, OtpAssumption
  <2> QED
    BY <2>2, <2>3 DEF IInv, TicketInv
<1> QED
  BY <1>1, Invariance, PTL

\* A code can be used once: verify's conditional update lets one request through,
\* so a session signs in at most once.
THEOREM CodeUsedOnce == Spec => []SingleUse
<1>1. IInv => SingleUse
  BY DEF IInv
<1> QED
  BY <1>1, Invariance, PTL

\* Racing resends keep the cooldown between two sends of a session, and the limit
\* on sends: what a resend read is still true when its update matches.
THEOREM CooldownHolds == Spec => SendsAreSpaced
<1>1. IInv /\ [Next]_vars => [Spaced]_vars
  <2> SUFFICES ASSUME IInv, Next, NEW s \in Session, status[s] # "absent", sends'[s] # sends[s]
               PROVE  /\ sends'[s] = sends[s] + 1 /\ sends'[s] <= MaxSends
                      /\ sentAt'[s] >= sentAt[s] + Cooldown
    BY DEF Spaced
  <2>1. PICK p \in Proc : Resend(p)
    <3>1. ASSUME NEW p \in Proc, NEW t \in Session, Create(p, t)
          PROVE  FALSE
      BY <3>1 DEF Create, IInv, TypeOK
    <3> QED
      BY <3>1 DEF Next, Arrive, Step, SendRequest, SendResend, SendVerify, CheckLimit,
         ExpireOlder, Deliver, ReadForResend, ClaimAttempt, Check, Lapse, LockSession,
         Consume, LookupUser, UpsertUser, IssueTokens, Return, Crash, Reset, Tick, table
  <2>2. /\ sid[p] \in Session /\ sends[sid[p]] \in 0..MaxSends
        /\ sends' = [sends EXCEPT ![sid[p]] = @ + 1]
        /\ sentAt' = [sentAt EXCEPT ![sid[p]] = at[p]]
        /\ sends[sid[p]] = sent[p] /\ pc[p] = "resend"
    BY <2>1 DEF Resend, IInv, TypeOK, HolderInv
  <2>3. s = sid[p]
    BY <2>2 DEF IInv, TypeOK
  <2>4. sent[p] < MaxSends /\ at[p] >= sentAt[s] + Cooldown
    BY <2>2, <2>3 DEF IInv, ResendInv
  <2> QED
    BY <2>2, <2>3, <2>4, OtpAssumption DEF IInv, TypeOK
<1> QED
  BY <1>1, Invariance, PTL DEF Spec, SendsAreSpaced

\* A session that was verified, expired or locked never takes a guess again: every
\* write that sets another status is conditional on PENDING or closes it.
THEOREM ClosedForGood == Spec => ClosedStaysClosed
<1>1. IInv /\ [Next]_vars => [Final]_vars
  <2> SUFFICES ASSUME IInv, Next, NEW s \in Session,
                      status[s] \in {"VERIFIED", "EXPIRED", "LOCKED"}
               PROVE  status'[s] \notin {"absent", "PENDING"}
    BY DEF Final
  <2> USE DEF IInv, TypeOK, HolderInv, table
  <2>1. ASSUME NEW p \in Proc, ExpireOlder(p)
        PROVE  status'[s] \notin {"absent", "PENDING"}
    BY <2>1 DEF ExpireOlder
  <2>2. ASSUME NEW p \in Proc, NEW t \in Session, Create(p, t)
        PROVE  status'[s] \notin {"absent", "PENDING"}
    BY <2>2 DEF Create
  <2>3. ASSUME NEW p \in Proc, Deliver(p)
        PROVE  status'[s] \notin {"absent", "PENDING"}
    BY <2>3 DEF Deliver
  <2>4. ASSUME NEW p \in Proc, Lapse(p) \/ LockSession(p) \/ Consume(p)
        PROVE  status'[s] \notin {"absent", "PENDING"}
    BY <2>4 DEF Lapse, LockSession, Consume, CloseIfPending
  <2>5. CASE UNCHANGED status
    BY <2>5
  <2> QED
    BY <2>1, <2>2, <2>3, <2>4, <2>5 DEF Next, Arrive, Step, SendRequest, SendResend,
       SendVerify, CheckLimit, ReadForResend, Resend, ClaimAttempt, Check, LookupUser,
       UpsertUser, IssueTokens, Return, Crash, Reset, Tick
<1> QED
  BY <1>1, Invariance, PTL DEF Spec, ClosedStaysClosed

\* If no request dies midway, the guess that used up the last attempt closes the
\* session: it is still on its way to do so as long as the session is PENDING.
THEOREM ExhaustionCloses == ASSUME MayCrash = FALSE PROVE Spec => []ExhaustedIsClosed
<1> DEFINE Closing == {"check", "lapse", "lock", "consume"}
<1>1. Init => CloserInv
  BY OtpAssumption DEF Init, CloserInv
<1>2. IInv /\ CloserInv /\ [Next]_vars => CloserInv'
  <2> SUFFICES ASSUME IInv, CloserInv, [Next]_vars, NEW s \in Session,
                      status'[s] = "PENDING", attempts'[s] = MaxAttempts
               PROVE  \E p \in Proc : sid'[p] = s /\ pc'[p] \in Closing
    BY DEF CloserInv
  <2> USE OtpAssumption DEF table, local, Goto, CloseIfPending
  <2>1. ASSUME NEW p \in Proc, ClaimAttempt(p)
        PROVE  \E q \in Proc : sid'[q] = s /\ pc'[q] \in Closing
    BY <2>1, SMTT(20) DEF ClaimAttempt, CloserInv, IInv, TypeOK, HolderInv
  <2>2. ASSUME NEW p \in Proc, NEW t \in Session, Create(p, t)
        PROVE  \E q \in Proc : sid'[q] = s /\ pc'[q] \in Closing
    <3>1. s # t
      BY <2>2 DEF Create, IInv, TypeOK, TicketInv
    <3>2. status[s] = "PENDING" /\ attempts[s] = MaxAttempts
      BY <2>2, <3>1 DEF Create, IInv, TypeOK
    <3>3. PICK q \in Proc : sid[q] = s /\ pc[q] \in Closing
      BY <3>2 DEF CloserInv
    <3>4. q # p
      BY <2>2, <3>3 DEF Create
    <3> QED
      BY <2>2, <3>3, <3>4 DEF Create, IInv, TypeOK
  <2>3. ASSUME NEW p \in Proc, Check(p)
        PROVE  \E q \in Proc : sid'[q] = s /\ pc'[q] \in Closing
    <3>1. PICK q \in Proc : sid[q] = s /\ pc[q] \in Closing
      BY <2>3 DEF Check, CloserInv
    <3>2. CASE q = p
      BY <2>3, <3>1, <3>2 DEF Check, IInv, TypeOK
    <3>3. CASE q # p
      BY <2>3, <3>1, <3>3 DEF Check, IInv, TypeOK
    <3> QED
      BY <3>2, <3>3
  <2>4. ASSUME NEW p \in Proc, Lapse(p) \/ LockSession(p) \/ Consume(p)
        PROVE  \E q \in Proc : sid'[q] = s /\ pc'[q] \in Closing
    <3>1. status[s] = "PENDING" /\ attempts[s] = MaxAttempts /\ sid[p] # s /\ sid' = sid
      BY <2>4 DEF Lapse, LockSession, Consume, IInv, TypeOK, HolderInv
    <3>2. PICK q \in Proc : sid[q] = s /\ pc[q] \in Closing
      BY <3>1 DEF CloserInv
    <3>3. pc'[q] = pc[q]
      BY <2>4, <3>1, <3>2 DEF Lapse, LockSession, Consume, IInv, TypeOK
    <3> QED
      BY <3>1, <3>2, <3>3
  <2>5. ASSUME NEW p \in Proc, pc[p] \notin Closing, UNCHANGED attempts,
               status[s] = "PENDING",
               \A q \in Proc \ {p} : pc'[q] = pc[q] /\ sid'[q] = sid[q]
        PROVE  \E q \in Proc : sid'[q] = s /\ pc'[q] \in Closing
    BY <2>5 DEF CloserInv
  <2>6. ASSUME NEW p \in Proc, Arrive(p)
        PROVE  \E q \in Proc : sid'[q] = s /\ pc'[q] \in Closing
    <3>1. ASSUME NEW m \in Mobile, NEW i \in Ip, SendRequest(p, m, i)
          PROVE  \E q \in Proc : sid'[q] = s /\ pc'[q] \in Closing
      BY <2>5, <3>1 DEF SendRequest, IInv, TypeOK
    <3>2. ASSUME NEW t \in Session, SendResend(p, t)
          PROVE  \E q \in Proc : sid'[q] = s /\ pc'[q] \in Closing
      BY <2>5, <3>2 DEF SendResend, IInv, TypeOK
    <3>3. ASSUME NEW t \in Session, NEW g \in Guess, SendVerify(p, t, g)
          PROVE  \E q \in Proc : sid'[q] = s /\ pc'[q] \in Closing
      BY <2>5, <3>3 DEF SendVerify, IInv, TypeOK
    <3> QED
      BY <2>6, <3>1, <3>2, <3>3 DEF Arrive
  <2>7. ASSUME NEW p \in Proc,
               \/ CheckLimit(p) \/ ExpireOlder(p) \/ Deliver(p)
               \/ ReadForResend(p) \/ Resend(p)
        PROVE  \E q \in Proc : sid'[q] = s /\ pc'[q] \in Closing
    <3>1. CASE CheckLimit(p)
      BY <2>5, <3>1 DEF CheckLimit, IInv, TypeOK
    <3>2. CASE ExpireOlder(p)
      BY <2>5, <3>2 DEF ExpireOlder, IInv, TypeOK
    <3>3. CASE Deliver(p)
      BY <2>5, <3>3 DEF Deliver, IInv, TypeOK
    <3>4. CASE ReadForResend(p)
      BY <2>5, <3>4 DEF ReadForResend, IInv, TypeOK
    <3>5. CASE Resend(p)
      BY <2>5, <3>5 DEF Resend, IInv, TypeOK
    <3> QED
      BY <2>7, <3>1, <3>2, <3>3, <3>4, <3>5
  <2>8. ASSUME NEW p \in Proc, LookupUser(p) \/ UpsertUser(p) \/ IssueTokens(p) \/ Return(p)
        PROVE  \E q \in Proc : sid'[q] = s /\ pc'[q] \in Closing
    BY <2>5, <2>8 DEF LookupUser, UpsertUser, IssueTokens, Return, Reset, IInv, TypeOK
  <2>9. CASE Tick \/ UNCHANGED vars
    BY <2>9 DEF Tick, vars, CloserInv
  <2> QED
    BY <2>1, <2>2, <2>3, <2>4, <2>6, <2>7, <2>8, <2>9 DEF Next, Step, Crash
<1>3. CloserInv => ExhaustedIsClosed
  BY DEF CloserInv, ExhaustedIsClosed
<1> QED
  BY <1>1, <1>2, <1>3, Invariance, PTL DEF Spec

-------------------------------------------------------------------------------
(* Counting.  The limits are tested in one statement and used up in another, so   *)
(* what is bounded is the number of sessions together with that of the requests   *)
(* that have passed the test and not yet made theirs.                             *)

Requesting(m, S) == {p \in Proc : mob[p] = m /\ pc[p] \in S}
Creating(m) == Requesting(m, {"create"})

\* Requests that have passed the test of the lockout and have not expired older codes.
Early(m) == Requesting(m, {"hourly", "network", "expire"})

\* Requests that a limit of a mobile, or of a network, has let through.
Counted(m)   == Requesting(m, {"network", "expire", "create"})
CountedIp(i) == {p \in Proc : net[p] = i /\ pc[p] \in {"expire", "create"}}

Locks(m) == RecentLocks(m, clock)

ClockInv == \A p \in Proc : at[p] <= clock

QuotaInv ==
    /\ \A m \in Mobile : Cardinality(ByMobile(m, clock)) + Cardinality(Counted(m))
                             < MaxPerMobile + Cardinality(Proc)
    /\ \A i \in Ip : Cardinality(ByIp(i, clock)) + Cardinality(CountedIp(i))
                         < MaxPerIp + Cardinality(Proc)

\* A request expires the live codes before it makes its own.
LiveInv == \A m \in Mobile :
    Cardinality(LiveCodes(m)) + Cardinality(Creating(m)) <= Cardinality(Proc)

\* The last request to pass the test found less than LockThreshold locks; from then on
\* a lock uses up a live code, and a live code uses up a request that has passed.
Risk(m) == Cardinality(Locks(m)) + Cardinality(LiveCodes(m))
           + Cardinality(Early(m)) + Cardinality(Creating(m))

LockoutInv == \A m \in Mobile :
    /\ Early(m) = Proc => Cardinality(Locks(m)) < LockThreshold
    /\ Risk(m) < LockThreshold + 2 * Cardinality(Proc)
    /\ Early(m) # Proc => Risk(m) < LockThreshold + 2 * Cardinality(Proc) - 1

LEMMA FinitePart ==
  ASSUME NEW T, IsFiniteSet(T), NEW S \in SUBSET T
  PROVE  IsFiniteSet(S) /\ Cardinality(S) \in Nat /\ Cardinality(S) <= Cardinality(T)
  BY FS_Subset, FS_CardinalityType

\* Adding an element to a finite set, or taking one away, changes its size by one.
LEMMA OneMore ==
  ASSUME NEW S, IsFiniteSet(S), NEW x
  PROVE  /\ IsFiniteSet(S \cup {x}) /\ Cardinality(S \cup {x}) \in Nat
         /\ x \notin S => Cardinality(S \cup {x}) = Cardinality(S) + 1
         /\ Cardinality(S \cup {x}) <= Cardinality(S) + 1
<1>1. IsFiniteSet(S \cup {x}) /\ Cardinality(S \cup {x}) \in Nat /\ Cardinality(S) \in Nat
  BY FS_AddElement, FS_CardinalityType
<1>2. Cardinality(S \cup {x}) = IF x \in S THEN Cardinality(S) ELSE Cardinality(S) + 1
  BY FS_AddElement
<1> QED
  BY <1>1, <1>2

LEMMA OneLess ==
  ASSUME NEW S, IsFiniteSet(S), NEW x \in S
  PROVE  Cardinality(S \ {x}) \in Nat /\ Cardinality(S \ {x}) = Cardinality(S) - 1
<1>1. IsFiniteSet(S \ {x})
  BY FS_RemoveElement
<1> QED
  BY <1>1, FS_RemoveElement, FS_CardinalityType

\* What a step may do to the locks, live codes and requests of a mobile.
Shrink(m) ==
    /\ Locks(m)' \subseteq Locks(m) /\ LiveCodes(m)' \subseteq LiveCodes(m)
    /\ Early(m)' \subseteq Early(m) /\ Creating(m)' \subseteq Creating(m)

Pass(m, p) ==
    /\ Cardinality(Locks(m)') < LockThreshold
    /\ Locks(m)' = Locks(m) /\ LiveCodes(m)' = LiveCodes(m) /\ Creating(m)' = Creating(m)
    /\ Early(m)' = Early(m) \cup {p} /\ p \notin Early(m)

Expire(m, p) ==
    /\ Locks(m)' = Locks(m) /\ LiveCodes(m)' = {}
    /\ p \in Early(m) /\ Early(m)' = Early(m) \ {p}
    /\ p \notin Creating(m) /\ Creating(m)' = Creating(m) \cup {p}

Issue(m, p, s) ==
    /\ Locks(m)' = Locks(m) /\ Early(m)' = Early(m) /\ Early(m) # Proc
    /\ p \in Creating(m) /\ Creating(m)' = Creating(m) \ {p}
    /\ s \notin LiveCodes(m) /\ LiveCodes(m)' = LiveCodes(m) \cup {s}

Lock(m, s) ==
    /\ Locks(m)' \subseteq Locks(m) \cup {s} /\ Early(m)' = Early(m) /\ Early(m) # Proc
    /\ s \in LiveCodes(m) /\ LiveCodes(m)' = LiveCodes(m) \ {s}
    /\ Creating(m)' = Creating(m)

LEMMA StepShapes ==
  ASSUME IInv, ClockInv, [Next]_vars, NEW m \in Mobile
  PROVE  \/ Shrink(m)
         \/ \E p \in Proc : Pass(m, p) \/ Expire(m, p)
         \/ \E p \in Proc, s \in Session : Issue(m, p, s)
         \/ \E s \in Session : Lock(m, s)
<1> DEFINE Goal == \/ Shrink(m)
                   \/ \E p \in Proc : Pass(m, p) \/ Expire(m, p)
                   \/ \E p \in Proc, s \in Session : Issue(m, p, s)
                   \/ \E s \in Session : Lock(m, s)
<1> USE DEF Locks, LiveCodes, Early, Creating, Requesting, RecentLocks
<1>0. TypeOK /\ HolderInv
  BY DEF IInv
\* Requests at other points, and changes of the table that leave status alone.
<1>1. ASSUME NEW p \in Proc, UNCHANGED <<clock, table>>,
             \A q \in Proc \ {p} : pc'[q] = pc[q] /\ mob'[q] = mob[q],
             pc'[p] \notin {"hourly", "network", "expire", "create"}
      PROVE  Shrink(m)
  BY <1>1 DEF Shrink, table
<1>2. ASSUME NEW p \in Proc, Arrive(p)
      PROVE  Shrink(m)
  <2>1. ASSUME NEW n \in Mobile, NEW i \in Ip, SendRequest(p, n, i)
        PROVE  Shrink(m)
    BY <1>0, <1>1, <2>1 DEF SendRequest, Goto, TypeOK, PC
  <2>2. ASSUME NEW t \in Session, SendResend(p, t)
        PROVE  Shrink(m)
    BY <1>0, <1>1, <2>2 DEF SendResend, Goto, TypeOK, PC
  <2>3. ASSUME NEW t \in Session, NEW g \in Guess, SendVerify(p, t, g)
        PROVE  Shrink(m)
    BY <1>0, <1>1, <2>3 DEF SendVerify, Goto, TypeOK, PC
  <2> QED
    BY <1>2, <2>1, <2>2, <2>3 DEF Arrive
<1>3. ASSUME NEW p \in Proc, CheckLimit(p)
      PROVE  Goal
  <2>1. CASE pc[p] = "locks" /\ pc' = [pc EXCEPT ![p] = "hourly"] /\ mob[p] = m
    <3>1. Cardinality(RecentLocks(m, at[p])) < LockThreshold
      <4>1. RecentLocks(m, at[p]) \in SUBSET Session
        OBVIOUS
      <4>2. Cardinality(RecentLocks(m, at[p])) \in Nat
        BY <4>1, FinitePart, OtpAssumption
      <4>3. pc' = [pc EXCEPT ![p] =
                      IF Cardinality(RecentLocks(m, at[p])) >= LockThreshold
                      THEN "done" ELSE "hourly"]
        BY <1>3, <2>1 DEF CheckLimit, Goto
      <4> HIDE DEF RecentLocks
      <4>4. ~(Cardinality(RecentLocks(m, at[p])) >= LockThreshold)
        BY <1>0, <2>1, <4>3 DEF TypeOK
      <4> QED
        BY <4>2, <4>4, OtpAssumption
    <3>2. Locks(m) \subseteq RecentLocks(m, at[p]) /\ Locks(m)' = Locks(m)
      BY <1>0, <1>3, OtpAssumption DEF ClockInv, CheckLimit, TypeOK, table, Never
    <3>3. Cardinality(Locks(m)') < LockThreshold
      <4>1. RecentLocks(m, at[p]) \in SUBSET Session /\ Locks(m) \in SUBSET RecentLocks(m, at[p])
        BY <3>2
      <4>2. IsFiniteSet(RecentLocks(m, at[p]))
        BY <4>1, FinitePart, OtpAssumption
      <4>3. /\ Cardinality(Locks(m)) <= Cardinality(RecentLocks(m, at[p]))
            /\ Cardinality(Locks(m)) \in Nat /\ Cardinality(RecentLocks(m, at[p])) \in Nat
        BY <4>1, <4>2, FinitePart, OtpAssumption
      <4> HIDE DEF RecentLocks, Locks
      <4> QED
        BY <3>1, <3>2, <4>3, OtpAssumption
    <3>4. LiveCodes(m)' = LiveCodes(m)
      BY <1>3 DEF CheckLimit, table
    <3>5. Creating(m)' = Creating(m) /\ Early(m)' = Early(m) \cup {p} /\ p \notin Early(m)
      BY <1>0, <1>3, <2>1 DEF CheckLimit, TypeOK, local
    <3> HIDE DEF Locks, LiveCodes, Creating, Early
    <3> QED
      BY <3>2, <3>3, <3>4, <3>5 DEF Pass
  <2>2. CASE ~(pc[p] = "locks" /\ pc' = [pc EXCEPT ![p] = "hourly"] /\ mob[p] = m)
    <3>1. LiveCodes(m)' = LiveCodes(m) /\ Locks(m)' = Locks(m)
      BY <1>3 DEF CheckLimit, table
    <3>2. Creating(m)' \subseteq Creating(m)
      BY <1>0, <1>3 DEF CheckLimit, TypeOK, local, Goto
    <3>3. Early(m)' \subseteq Early(m)
      BY <1>0, <1>3, <2>2 DEF CheckLimit, TypeOK, local, Goto
    <3> QED
      BY <3>1, <3>2, <3>3 DEF Shrink
  <2> QED
    BY <2>1, <2>2
<1>4. ASSUME NEW p \in Proc, ExpireOlder(p)
      PROVE  Goal
  <2>1. CASE mob[p] = m
    <3>1. Locks(m)' = Locks(m) /\ LiveCodes(m)' = {}
      BY <1>0, <1>4, <2>1 DEF ExpireOlder, TypeOK
    <3>2. /\ p \in Early(m) /\ Early(m)' = Early(m) \ {p}
          /\ p \notin Creating(m) /\ Creating(m)' = Creating(m) \cup {p}
      BY <1>0, <1>4, <2>1 DEF ExpireOlder, TypeOK, Goto, local
    <3> QED
      BY <3>1, <3>2 DEF Expire
  <2>2. CASE mob[p] # m
    BY <1>0, <1>4, <2>2 DEF ExpireOlder, TypeOK, Goto, local, Shrink
  <2> QED
    BY <2>1, <2>2
<1>5. ASSUME NEW p \in Proc, NEW s \in Session, Create(p, s)
      PROVE  Goal
  <2>1. Locks(m)' = Locks(m)
    BY <1>0, <1>5 DEF Create, TypeOK
  <2>2. Early(m)' = Early(m) /\ Early(m) # Proc
    BY <1>0, <1>5 DEF Create, TypeOK, Goto
  <2>3. CASE mob[p] = m
    <3>1. p \in Creating(m) /\ Creating(m)' = Creating(m) \ {p}
      BY <1>0, <1>5, <2>3 DEF Create, TypeOK, Goto
    <3>2. s \notin LiveCodes(m) /\ LiveCodes(m)' = LiveCodes(m) \cup {s}
      BY <1>0, <1>5, <2>3 DEF Create, TypeOK
    <3> QED
      BY <2>1, <2>2, <3>1, <3>2 DEF Issue
  <2>4. CASE mob[p] # m
    <3>1. Creating(m)' = Creating(m) /\ LiveCodes(m)' = LiveCodes(m)
      BY <1>0, <1>5, <2>4 DEF Create, TypeOK, Goto
    <3> QED
      BY <2>1, <2>2, <3>1 DEF Shrink
  <2> QED
    BY <2>3, <2>4
\* Steps of requests that hold a session and only close it.
<1>6. ASSUME NEW p \in Proc, UNCHANGED <<clock, mobile, lockedAt, mob>>,
             pc[p] \notin {"hourly", "network", "expire", "create"},
             \E l \in {"done", "lookup"} : pc' = [pc EXCEPT ![p] = l],
             \E v \in {"VERIFIED", "EXPIRED"} : \A s \in Session :
                 status'[s] \in {status[s], v}
      PROVE  Shrink(m)
  <2>1. Early(m)' \subseteq Early(m) /\ Creating(m)' \subseteq Creating(m)
    BY <1>0, <1>6 DEF TypeOK
  <2>2. Locks(m)' \subseteq Locks(m) /\ LiveCodes(m)' \subseteq LiveCodes(m)
    BY <1>6
  <2> QED
    BY <2>1, <2>2 DEF Shrink
<1>7. ASSUME NEW p \in Proc, Deliver(p) \/ Lapse(p) \/ Consume(p)
      PROVE  Shrink(m)
  <2>1. CASE Deliver(p)
    BY <1>0, <1>6, <2>1 DEF Deliver, Goto, TypeOK, HolderInv, local
  <2>2. CASE Lapse(p)
    BY <1>0, <1>6, <2>2 DEF Lapse, CloseIfPending, Goto, TypeOK, HolderInv, local
  <2>3. CASE Consume(p)
    BY <1>0, <1>6, <2>3 DEF Consume, CloseIfPending, Goto, TypeOK, HolderInv, local
  <2> QED
    BY <1>7, <2>1, <2>2, <2>3
<1>8. ASSUME NEW p \in Proc, LockSession(p)
      PROVE  Goal
  <2>1. Early(m)' = Early(m) /\ Early(m) # Proc /\ Creating(m)' = Creating(m)
    BY <1>0, <1>8 DEF LockSession, TypeOK, Goto, local
  <2>2. CASE sid[p] \in LiveCodes(m)
    <3>1. Locks(m)' \subseteq Locks(m) \cup {sid[p]}
      BY <1>0, <1>8, <2>2 DEF LockSession, CloseIfPending, TypeOK
    <3>2. LiveCodes(m)' = LiveCodes(m) \ {sid[p]}
      BY <1>0, <1>8, <2>2 DEF LockSession, CloseIfPending, TypeOK
    <3> QED
      BY <2>1, <2>2, <3>1, <3>2 DEF Lock
  <2>3. CASE sid[p] \notin LiveCodes(m)
    <3>1. Locks(m)' \subseteq Locks(m) /\ LiveCodes(m)' \subseteq LiveCodes(m)
      BY <1>0, <1>8, <2>3 DEF LockSession, CloseIfPending, TypeOK, HolderInv
    <3> QED
      BY <2>1, <3>1 DEF Shrink
  <2> QED
    BY <2>2, <2>3
<1>9. ASSUME NEW p \in Proc, UNCHANGED <<clock, status, mobile, lockedAt, mob>>,
             pc[p] \notin {"hourly", "network", "expire", "create"},
             \E l \in {"done", "deliver", "resend", "check", "lapse", "lock", "consume",
                       "upsert", "issue"} : pc' = [pc EXCEPT ![p] = l]
      PROVE  Shrink(m)
  BY <1>0, <1>9 DEF Shrink, TypeOK
<1>10. ASSUME NEW p \in Proc,
              \/ ReadForResend(p) \/ Resend(p) \/ ClaimAttempt(p) \/ Check(p)
              \/ LookupUser(p) \/ UpsertUser(p) \/ IssueTokens(p)
       PROVE  Shrink(m)
  <2>1. CASE ReadForResend(p)
    BY <1>9, <2>1 DEF ReadForResend, Goto, table
  <2>2. CASE Resend(p)
    BY <1>9, <2>2 DEF Resend, Goto, local
  <2>3. CASE ClaimAttempt(p)
    BY <1>9, <2>3 DEF ClaimAttempt, Goto
  <2>4. CASE Check(p)
    BY <1>9, <2>4 DEF Check, Goto, table, local
  <2>5. CASE LookupUser(p) \/ UpsertUser(p) \/ IssueTokens(p)
    BY <1>9, <2>5 DEF LookupUser, UpsertUser, IssueTokens, Goto, table, local
  <2> QED
    BY <1>10, <2>1, <2>2, <2>3, <2>4, <2>5
<1>11. ASSUME NEW p \in Proc, Return(p) \/ Crash(p)
       PROVE  Shrink(m)
  BY <1>0, <1>1, <1>11 DEF Return, Crash, Reset, Goto, TypeOK
<1>12. CASE Tick
  BY <1>0, <1>12, OtpAssumption DEF Tick, Shrink, TypeOK, table, local, Never
<1>13. CASE UNCHANGED vars
  BY <1>13 DEF vars, Shrink, table, local
<1> HIDE DEF Locks, LiveCodes, Early, Creating, Requesting, RecentLocks
<1> QED
  BY <1>2, <1>3, <1>4, <1>5, <1>7, <1>8, <1>10, <1>11, <1>12, <1>13 DEF Next, Step

LEMMA NextClockInv == IInv /\ ClockInv /\ [Next]_vars => ClockInv'
<1> SUFFICES ASSUME IInv, ClockInv, [Next]_vars, NEW q \in Proc
             PROVE  at'[q] <= clock'
  BY DEF ClockInv
<1> USE OtpAssumption DEF table, local
<1>0. at \in [Proc -> 0..MaxTime] /\ clock \in 0..MaxTime /\ at[q] <= clock
  BY DEF IInv, TypeOK, ClockInv
<1>1. ASSUME NEW p \in Proc, clock' = clock,
             at' = at \/ at' = [at EXCEPT ![p] = clock] \/ at' = [at EXCEPT ![p] = 0]
      PROVE  at'[q] <= clock'
  BY <1>0, <1>1
<1>2. ASSUME NEW p \in Proc, Arrive(p)
      PROVE  at'[q] <= clock'
  BY <1>1, <1>2 DEF Arrive, SendRequest, SendResend, SendVerify
<1>3. ASSUME NEW p \in Proc,
             \/ CheckLimit(p) \/ ExpireOlder(p) \/ Deliver(p) \/ \E s \in Session : Create(p, s)
             \/ ReadForResend(p) \/ Resend(p) \/ ClaimAttempt(p) \/ Check(p) \/ Lapse(p)
             \/ LockSession(p) \/ Consume(p) \/ LookupUser(p) \/ UpsertUser(p) \/ IssueTokens(p)
      PROVE  at'[q] <= clock'
  BY <1>1, <1>3 DEF CheckLimit, ExpireOlder, Deliver, Create, ReadForResend, Resend,
     ClaimAttempt, Check, Lapse, LockSession, Consume, LookupUser, UpsertUser, IssueTokens
<1>4. ASSUME NEW p \in Proc, Return(p) \/ Crash(p)
      PROVE  at'[q] <= clock'
  BY <1>1, <1>4 DEF Return, Crash, Reset
<1>5. CASE Tick
  BY <1>0, <1>5 DEF Tick
<1>6. CASE UNCHANGED vars
  BY <1>0, <1>6 DEF vars
<1> QED
  BY <1>2, <1>3, <1>4, <1>5, <1>6 DEF Next, Step

\* The sets that are counted are finite.
LEMMA Counts ==
  ASSUME NEW m
  PROVE  /\ IsFiniteSet(Locks(m)) /\ Cardinality(Locks(m)) \in Nat
         /\ IsFiniteSet(LiveCodes(m)) /\ Cardinality(LiveCodes(m)) \in Nat
         /\ IsFiniteSet(Early(m)) /\ Cardinality(Early(m)) \in Nat
         /\ IsFiniteSet(Creating(m)) /\ Cardinality(Creating(m)) \in Nat
         /\ Early(m) \subseteq Proc /\ Cardinality(Early(m)) <= Cardinality(Proc)
         /\ Early(m) # Proc => Cardinality(Early(m)) < Cardinality(Proc)
         /\ Cardinality(Proc) \in Nat \ {0}
<1>1. Locks(m) \in SUBSET Session /\ LiveCodes(m) \in SUBSET Session
  BY DEF Locks, RecentLocks, LiveCodes
<1>2. Early(m) \in SUBSET Proc /\ Creating(m) \in SUBSET Proc
  BY DEF Early, Creating, Requesting
<1>3. Cardinality(Early(m)) = Cardinality(Proc) => Early(m) = Proc
  BY <1>2, FS_Subset, OtpAssumption
<1>4. Cardinality(Proc) \in Nat /\ Cardinality(Proc) # 0
  BY FS_CardinalityType, FS_EmptySet, OtpAssumption
<1>5. IsFiniteSet(Locks(m)) /\ Cardinality(Locks(m)) \in Nat
  BY <1>1, FinitePart, OtpAssumption
<1>6. IsFiniteSet(LiveCodes(m)) /\ Cardinality(LiveCodes(m)) \in Nat
  BY <1>1, FinitePart, OtpAssumption
<1>7. /\ IsFiniteSet(Early(m)) /\ Cardinality(Early(m)) \in Nat
      /\ Cardinality(Early(m)) <= Cardinality(Proc)
  BY <1>2, FinitePart, OtpAssumption
<1>8. IsFiniteSet(Creating(m)) /\ Cardinality(Creating(m)) \in Nat
  BY <1>2, FinitePart, OtpAssumption
<1> QED
  BY <1>2, <1>3, <1>4, <1>5, <1>6, <1>7, <1>8

LEMMA NextLiveInv == IInv /\ ClockInv /\ LiveInv /\ LockoutInv /\ [Next]_vars
                        => LiveInv' /\ LockoutInv'
<1> SUFFICES ASSUME IInv, ClockInv, LiveInv, LockoutInv, [Next]_vars, NEW m \in Mobile
             PROVE  /\ Cardinality(LiveCodes(m)') + Cardinality(Creating(m)') <= Cardinality(Proc)
                    /\ Early(m)' = Proc => Cardinality(Locks(m)') < LockThreshold
                    /\ Risk(m)' < LockThreshold + 2 * Cardinality(Proc)
                    /\ Early(m)' # Proc => Risk(m)' < LockThreshold + 2 * Cardinality(Proc) - 1
  BY DEF LiveInv, LockoutInv
<1> DEFINE L == Cardinality(Locks(m))     L1 == Cardinality(Locks(m)')
           V == Cardinality(LiveCodes(m)) V1 == Cardinality(LiveCodes(m)')
           E == Cardinality(Early(m))     E1 == Cardinality(Early(m)')
           C == Cardinality(Creating(m))  C1 == Cardinality(Creating(m)')
           N == Cardinality(Proc)
<1>1. /\ L \in Nat /\ V \in Nat /\ E \in Nat /\ C \in Nat /\ N \in Nat \ {0}
      /\ LockThreshold \in Nat \ {0} /\ E <= N
      /\ Early(m) # Proc => E < N
  BY Counts, OtpAssumption
<1>2. /\ V + C <= N
      /\ Early(m) = Proc => L < LockThreshold
      /\ L + V + E + C < LockThreshold + 2 * N
      /\ Early(m) # Proc => L + V + E + C < LockThreshold + 2 * N - 1
  BY DEF LiveInv, LockoutInv, Risk
<1>3. SUFFICES /\ L1 \in Nat /\ V1 \in Nat /\ E1 \in Nat /\ C1 \in Nat
               /\ V1 + C1 <= N
               /\ Early(m)' = Proc => L1 < LockThreshold
               /\ L1 + V1 + E1 + C1 < LockThreshold + 2 * N
               /\ Early(m)' # Proc => L1 + V1 + E1 + C1 < LockThreshold + 2 * N - 1
  BY DEF Risk
<1>4. CASE Shrink(m)
  <2>1. L1 \in Nat /\ L1 <= L
    BY <1>4, Counts, FinitePart DEF Shrink
  <2>2. V1 \in Nat /\ V1 <= V
    BY <1>4, Counts, FinitePart DEF Shrink
  <2>3. E1 \in Nat /\ E1 <= E
    BY <1>4, Counts, FinitePart DEF Shrink
  <2>4. C1 \in Nat /\ C1 <= C
    BY <1>4, Counts, FinitePart DEF Shrink
  <2>5. CASE Early(m) = Proc /\ Early(m)' # Proc
    <3>1. E1 # E
      BY <1>4, <2>5, Counts, FS_Subset DEF Shrink
    <3> HIDE DEF L, L1, V, V1, E, E1, C, C1, N
    <3>2. E \in Nat /\ E1 \in Nat /\ E1 <= E /\ E1 # E
      BY <1>1, <2>3, <3>1
    <3>3. E1 < E
      BY <3>2
    <3> QED
      BY <1>1, <1>2, <2>1, <2>2, <2>3, <2>4, <2>5, <3>3
  <2>6. CASE Early(m)' = Proc
    <3>1. Early(m) = Proc
      BY <1>4, <2>6, Counts DEF Shrink
    <3> QED
      BY <1>1, <1>2, <2>1, <2>2, <2>3, <2>4, <2>6, <3>1
  <2>7. CASE Early(m) # Proc /\ Early(m)' # Proc
    BY <1>1, <1>2, <2>1, <2>2, <2>3, <2>4, <2>7
  <2> QED
    BY <2>5, <2>6, <2>7
<1>5. ASSUME NEW p \in Proc, Pass(m, p)
      PROVE  /\ L1 \in Nat /\ V1 \in Nat /\ E1 \in Nat /\ C1 \in Nat
             /\ V1 + C1 <= N
             /\ Early(m)' = Proc => L1 < LockThreshold
             /\ L1 + V1 + E1 + C1 < LockThreshold + 2 * N
             /\ Early(m)' # Proc => L1 + V1 + E1 + C1 < LockThreshold + 2 * N - 1
  <2>1. L1 = L /\ V1 = V /\ C1 = C /\ L1 < LockThreshold
    BY <1>5 DEF Pass
  <2>2. E1 = E + 1
    BY <1>5, Counts, OneMore DEF Pass
  <2>3. Early(m)' \in SUBSET Proc
    BY <1>5, Counts DEF Pass
  <2>4. E1 <= N /\ (E1 = N => Early(m)' = Proc)
    BY <2>3, FS_Subset, OtpAssumption
  <2>5. Early(m)' # Proc => E1 < N
    BY <1>1, <2>2, <2>4
  <2> QED
    BY <1>1, <1>2, <2>1, <2>2, <2>4, <2>5
<1>6. ASSUME NEW p \in Proc, Expire(m, p)
      PROVE  /\ L1 \in Nat /\ V1 \in Nat /\ E1 \in Nat /\ C1 \in Nat
             /\ V1 + C1 <= N
             /\ Early(m)' = Proc => L1 < LockThreshold
             /\ L1 + V1 + E1 + C1 < LockThreshold + 2 * N
             /\ Early(m)' # Proc => L1 + V1 + E1 + C1 < LockThreshold + 2 * N - 1
  <2>1. L1 = L /\ V1 = 0
    BY <1>6, FS_EmptySet DEF Expire
  <2>2. E1 = E - 1 /\ C1 = C + 1
    <3>1. E1 = E - 1
      BY <1>6, Counts, OneLess DEF Expire
    <3>2. C1 = C + 1
      BY <1>6, Counts, OneMore DEF Expire
    <3> QED
      BY <3>1, <3>2
  <2>3. Early(m)' # Proc
    BY <1>6 DEF Expire
  <2>4. E1 \in Nat
    BY <1>6, Counts, OneLess DEF Expire
  <2>5. Early(m) \cap Creating(m) = {}
    BY DEF Early, Creating, Requesting
  <2>6. E + C <= N
    <3>1. Early(m) \cup Creating(m) \in SUBSET Proc
      BY DEF Early, Creating, Requesting
    <3>2. Cardinality(Early(m) \cup Creating(m)) <= N
      BY <3>1, FinitePart, OtpAssumption
    <3>3. Cardinality(Early(m) \cup Creating(m)) = E + C - Cardinality({})
      BY <2>5, Counts, FS_Union
    <3> QED
      BY <1>1, <3>2, <3>3, FS_EmptySet
  <2>7. Early(m) = Proc => C = 0 /\ E = N
    BY <1>1, <2>6
  <2> QED
    BY <1>1, <1>2, <2>1, <2>2, <2>3, <2>4, <2>6, <2>7
<1>7. ASSUME NEW p \in Proc, NEW s \in Session, Issue(m, p, s)
      PROVE  /\ L1 \in Nat /\ V1 \in Nat /\ E1 \in Nat /\ C1 \in Nat
             /\ V1 + C1 <= N
             /\ Early(m)' = Proc => L1 < LockThreshold
             /\ L1 + V1 + E1 + C1 < LockThreshold + 2 * N
             /\ Early(m)' # Proc => L1 + V1 + E1 + C1 < LockThreshold + 2 * N - 1
  <2>1. L1 = L /\ E1 = E /\ Early(m)' = Early(m) /\ Early(m) # Proc
    BY <1>7 DEF Issue
  <2>2. V1 = V + 1 /\ C1 = C - 1
    <3>1. V1 = V + 1
      BY <1>7, Counts, OneMore DEF Issue
    <3>2. C1 = C - 1
      BY <1>7, Counts, OneLess DEF Issue
    <3> QED
      BY <3>1, <3>2
  <2>3. C1 \in Nat
    BY <1>7, Counts, OneLess DEF Issue
  <2> QED
    BY <1>1, <1>2, <2>1, <2>2, <2>3
<1>8. ASSUME NEW s \in Session, Lock(m, s)
      PROVE  /\ L1 \in Nat /\ V1 \in Nat /\ E1 \in Nat /\ C1 \in Nat
             /\ V1 + C1 <= N
             /\ Early(m)' = Proc => L1 < LockThreshold
             /\ L1 + V1 + E1 + C1 < LockThreshold + 2 * N
             /\ Early(m)' # Proc => L1 + V1 + E1 + C1 < LockThreshold + 2 * N - 1
  <2>1. E1 = E /\ C1 = C /\ Early(m)' = Early(m) /\ Early(m) # Proc
    BY <1>8 DEF Lock
  <2>2. V1 = V - 1
    BY <1>8, Counts, FS_RemoveElement DEF Lock
  <2>3. V1 \in Nat
    BY <1>8, Counts, OneLess DEF Lock
  <2>4. L1 \in Nat /\ L1 <= L + 1
    <3>1. /\ IsFiniteSet(Locks(m) \cup {s}) /\ Cardinality(Locks(m) \cup {s}) <= L + 1
          /\ Cardinality(Locks(m) \cup {s}) \in Nat
      BY <1>1, Counts, OneMore
    <3>2. Locks(m)' \in SUBSET (Locks(m) \cup {s})
      BY <1>8 DEF Lock
    <3>3. L1 \in Nat /\ L1 <= Cardinality(Locks(m) \cup {s})
      BY <3>1, <3>2, FinitePart
    <3> QED
      BY <1>1, <3>1, <3>3
  <2> QED
    BY <1>1, <1>2, <2>1, <2>2, <2>3, <2>4
<1> QED
  BY <1>4, <1>5, <1>6, <1>7, <1>8, StepShapes

\* The hourly limits: what a step may do to the rows a limit counts (A) and to the
\* requests it has let through (B).
Within(A, B, A1, B1, Limit) ==
    \/ A1 \subseteq A /\ B1 \subseteq B
    \/ A1 \subseteq A /\ Cardinality(A) < Limit
    \/ \E p \in B, s \in Session : A1 \subseteq A \cup {s} /\ B1 \subseteq B \ {p}

LEMMA WithinLimit ==
  ASSUME NEW A \in SUBSET Session, NEW A1 \in SUBSET Session,
         NEW B \in SUBSET Proc, NEW B1 \in SUBSET Proc,
         NEW Limit \in Nat, Within(A, B, A1, B1, Limit),
         Cardinality(A) + Cardinality(B) < Limit + Cardinality(Proc)
  PROVE  Cardinality(A1) + Cardinality(B1) < Limit + Cardinality(Proc)
<1>1. /\ IsFiniteSet(A) /\ Cardinality(A) \in Nat /\ Cardinality(A1) \in Nat
      /\ IsFiniteSet(B) /\ Cardinality(B) \in Nat /\ Cardinality(B1) \in Nat
      /\ Cardinality(B1) <= Cardinality(Proc) /\ Cardinality(Proc) \in Nat
  BY FinitePart, FS_CardinalityType, OtpAssumption
<1>2. CASE A1 \subseteq A /\ B1 \subseteq B
  <2>1. Cardinality(A1) <= Cardinality(A) /\ Cardinality(B1) <= Cardinality(B)
    BY <1>1, <1>2, FinitePart
  <2> QED
    BY <1>1, <2>1
<1>3. CASE A1 \subseteq A /\ Cardinality(A) < Limit
  <2>1. Cardinality(A1) <= Cardinality(A)
    BY <1>1, <1>3, FinitePart
  <2> QED
    BY <1>1, <1>3, <2>1
<1>4. ASSUME NEW p \in B, NEW s \in Session, A1 \subseteq A \cup {s}, B1 \subseteq B \ {p}
      PROVE  Cardinality(A1) + Cardinality(B1) < Limit + Cardinality(Proc)
  <2>1. /\ IsFiniteSet(A \cup {s}) /\ Cardinality(A \cup {s}) \in Nat
        /\ Cardinality(A \cup {s}) <= Cardinality(A) + 1
    BY <1>1, OneMore
  <2>2. Cardinality(A1) <= Cardinality(A \cup {s})
    BY <1>4, <2>1, FinitePart
  <2>3. Cardinality(B \ {p}) \in Nat /\ Cardinality(B \ {p}) = Cardinality(B) - 1
    BY <1>1, OneLess
  <2>4. IsFiniteSet(B \ {p})
    BY <1>1, FS_RemoveElement
  <2>5. Cardinality(B1) <= Cardinality(B \ {p})
    BY <1>4, <2>4, FinitePart
  <2> QED
    BY <1>1, <2>1, <2>2, <2>3, <2>5
<1> QED
  BY <1>2, <1>3, <1>4 DEF Within

WithinMobile(m) == Within(ByMobile(m, clock), Counted(m),
                          ByMobile(m, clock)', Counted(m)', MaxPerMobile)
WithinIp(i)     == Within(ByIp(i, clock), CountedIp(i),
                          ByIp(i, clock)', CountedIp(i)', MaxPerIp)

LEMMA StepsWithinLimits ==
  ASSUME IInv, ClockInv, [Next]_vars, NEW m, NEW i
  PROVE  WithinMobile(m) /\ WithinIp(i)
<1> DEFINE Goal == WithinMobile(m) /\ WithinIp(i)
           Keep == /\ ByMobile(m, clock)' \subseteq ByMobile(m, clock)
                   /\ ByIp(i, clock)' \subseteq ByIp(i, clock)
                   /\ Counted(m)' \subseteq Counted(m) /\ CountedIp(i)' \subseteq CountedIp(i)
<1> USE DEF Counted, CountedIp, Requesting
<1>0. TypeOK /\ HolderInv
  BY DEF IInv
<1>1. Keep => Goal
  <2> HIDE DEF Counted, CountedIp
  <2> QED
    BY DEF Within, WithinMobile, WithinIp
\* Steps that make no row and do not bring their request past a limit.
<1>2. ASSUME NEW p \in Proc, UNCHANGED <<clock, mobile, ip, createdAt>>,
             \A s \in Session : status[s] = "absent" => status'[s] = "absent",
             \A q \in Proc \ {p} : pc'[q] = pc[q] /\ mob'[q] = mob[q] /\ net'[q] = net[q],
             pc'[p] \notin {"network", "expire", "create"}
      PROVE  Keep
  BY <1>2 DEF ByMobile, ByIp
<1>3. ASSUME NEW p \in Proc, Arrive(p)
      PROVE  Keep
  <2>1. ASSUME NEW n \in Mobile, NEW j \in Ip, SendRequest(p, n, j)
        PROVE  Keep
    BY <1>0, <1>2, <2>1 DEF SendRequest, Goto, TypeOK, PC, table
  <2>2. ASSUME NEW t \in Session, SendResend(p, t)
        PROVE  Keep
    BY <1>0, <1>2, <2>2 DEF SendResend, Goto, TypeOK, PC, table
  <2>3. ASSUME NEW t \in Session, NEW g \in Guess, SendVerify(p, t, g)
        PROVE  Keep
    BY <1>0, <1>2, <2>3 DEF SendVerify, Goto, TypeOK, PC, table
  <2> QED
    BY <1>3, <2>1, <2>2, <2>3 DEF Arrive
<1>4. ASSUME NEW p \in Proc, CheckLimit(p)
      PROVE  Goal
  <2>1. /\ ByMobile(m, clock)' = ByMobile(m, clock) /\ ByIp(i, clock)' = ByIp(i, clock)
        /\ mob' = mob /\ net' = net
    BY <1>4 DEF CheckLimit, table, local, ByMobile, ByIp
  <2>2. CASE pc[p] = "hourly" /\ pc' = [pc EXCEPT ![p] = "network"] /\ mob[p] = m
    <3>1. Cardinality(ByMobile(m, at[p])) < MaxPerMobile
      <4>1. ByMobile(m, at[p]) \in SUBSET Session
        BY DEF ByMobile
      <4>2. Cardinality(ByMobile(m, at[p])) \in Nat
        BY <4>1, FinitePart, OtpAssumption
      <4>3. pc' = [pc EXCEPT ![p] = IF Cardinality(ByMobile(m, at[p])) >= MaxPerMobile
                                    THEN "done" ELSE "network"]
        BY <1>4, <2>2 DEF CheckLimit, Goto
      <4>4. ~(Cardinality(ByMobile(m, at[p])) >= MaxPerMobile)
        BY <1>0, <2>2, <4>3 DEF TypeOK
      <4> QED
        BY <4>2, <4>4, OtpAssumption
    <3>2. ByMobile(m, clock) \subseteq ByMobile(m, at[p]) /\ ByMobile(m, at[p]) \in SUBSET Session
      BY <1>0, OtpAssumption DEF ClockInv, TypeOK, ByMobile
    <3>3. Cardinality(ByMobile(m, clock)) < MaxPerMobile
      <4>1. IsFiniteSet(ByMobile(m, at[p])) /\ Cardinality(ByMobile(m, at[p])) \in Nat
        BY <3>2, FinitePart, OtpAssumption
      <4>2. /\ Cardinality(ByMobile(m, clock)) \in Nat
            /\ Cardinality(ByMobile(m, clock)) <= Cardinality(ByMobile(m, at[p]))
        BY <3>2, <4>1, FinitePart
      <4> QED
        BY <3>1, <4>1, <4>2, OtpAssumption
    <3>4. CountedIp(i)' \subseteq CountedIp(i)
      BY <1>0, <2>1, <2>2 DEF TypeOK
    <3> HIDE DEF Counted, CountedIp
    <3> QED
      BY <2>1, <3>3, <3>4 DEF Within, WithinMobile, WithinIp
  <2>3. CASE pc[p] = "network" /\ pc' = [pc EXCEPT ![p] = "expire"] /\ net[p] = i
    <3>1. Cardinality(ByIp(i, at[p])) < MaxPerIp
      <4>1. ByIp(i, at[p]) \in SUBSET Session
        BY DEF ByIp
      <4>2. Cardinality(ByIp(i, at[p])) \in Nat
        BY <4>1, FinitePart, OtpAssumption
      <4>3. pc' = [pc EXCEPT ![p] = IF Cardinality(ByIp(i, at[p])) >= MaxPerIp
                                    THEN "done" ELSE "expire"]
        BY <1>4, <2>3 DEF CheckLimit, Goto
      <4>4. ~(Cardinality(ByIp(i, at[p])) >= MaxPerIp)
        BY <1>0, <2>3, <4>3 DEF TypeOK
      <4> QED
        BY <4>2, <4>4, OtpAssumption
    <3>2. ByIp(i, clock) \subseteq ByIp(i, at[p]) /\ ByIp(i, at[p]) \in SUBSET Session
      BY <1>0, OtpAssumption DEF ClockInv, TypeOK, ByIp
    <3>3. Cardinality(ByIp(i, clock)) < MaxPerIp
      <4>1. IsFiniteSet(ByIp(i, at[p])) /\ Cardinality(ByIp(i, at[p])) \in Nat
        BY <3>2, FinitePart, OtpAssumption
      <4>2. /\ Cardinality(ByIp(i, clock)) \in Nat
            /\ Cardinality(ByIp(i, clock)) <= Cardinality(ByIp(i, at[p]))
        BY <3>2, <4>1, FinitePart
      <4> QED
        BY <3>1, <4>1, <4>2, OtpAssumption
    <3>4. Counted(m)' \subseteq Counted(m)
      BY <1>0, <2>1, <2>3 DEF TypeOK
    <3> HIDE DEF Counted, CountedIp
    <3> QED
      BY <2>1, <3>3, <3>4 DEF Within, WithinMobile, WithinIp
  <2>4. CASE /\ ~(pc[p] = "hourly" /\ pc' = [pc EXCEPT ![p] = "network"] /\ mob[p] = m)
             /\ ~(pc[p] = "network" /\ pc' = [pc EXCEPT ![p] = "expire"] /\ net[p] = i)
    <3>1. \/ pc[p] = "locks" /\ pc' \in {[pc EXCEPT ![p] = l] : l \in {"done", "hourly"}}
          \/ pc[p] = "hourly" /\ pc' \in {[pc EXCEPT ![p] = l] : l \in {"done", "network"}}
          \/ pc[p] = "network" /\ pc' \in {[pc EXCEPT ![p] = l] : l \in {"done", "expire"}}
      BY <1>4 DEF CheckLimit, Goto
    <3>2. Counted(m)' \subseteq Counted(m)
      BY <1>0, <2>1, <2>4, <3>1 DEF TypeOK
    <3>3. CountedIp(i)' \subseteq CountedIp(i)
      BY <1>0, <2>1, <2>4, <3>1 DEF TypeOK
    <3> QED
      BY <1>1, <2>1, <3>2, <3>3
  <2> QED
    BY <2>2, <2>3, <2>4
<1>5. ASSUME NEW p \in Proc, ExpireOlder(p)
      PROVE  Keep
  <2>1. ByMobile(m, clock)' \subseteq ByMobile(m, clock) /\ ByIp(i, clock)' \subseteq ByIp(i, clock)
    BY <1>0, <1>5 DEF ExpireOlder, ByMobile, ByIp
  <2>2. Counted(m)' \subseteq Counted(m) /\ CountedIp(i)' \subseteq CountedIp(i)
    BY <1>0, <1>5 DEF ExpireOlder, Goto, TypeOK, local
  <2> QED
    BY <2>1, <2>2
<1>6. ASSUME NEW p \in Proc, NEW s \in Session, Create(p, s)
      PROVE  Goal
  <2>1. ASSUME mob[p] = m PROVE WithinMobile(m)
    <3>1. p \in Counted(m) /\ Counted(m)' \subseteq Counted(m) \ {p}
      BY <1>0, <1>6, <2>1 DEF Create, TypeOK, Goto
    <3>2. ByMobile(m, clock)' \subseteq ByMobile(m, clock) \cup {s}
      BY <1>0, <1>6 DEF Create, TypeOK, ByMobile
    <3> HIDE DEF Counted
    <3> QED
      BY <3>1, <3>2 DEF Within, WithinMobile
  <2>2. ASSUME mob[p] # m PROVE WithinMobile(m)
    <3>1. Counted(m)' \subseteq Counted(m)
      BY <1>0, <1>6, <2>2 DEF Create, TypeOK, Goto
    <3>2. ByMobile(m, clock)' \subseteq ByMobile(m, clock)
      BY <1>0, <1>6, <2>2 DEF Create, TypeOK, ByMobile
    <3> HIDE DEF Counted
    <3> QED
      BY <3>1, <3>2 DEF Within, WithinMobile
  <2>3. ASSUME net[p] = i PROVE WithinIp(i)
    <3>1. p \in CountedIp(i) /\ CountedIp(i)' \subseteq CountedIp(i) \ {p}
      BY <1>0, <1>6, <2>3 DEF Create, TypeOK, Goto
    <3>2. ByIp(i, clock)' \subseteq ByIp(i, clock) \cup {s}
      BY <1>0, <1>6 DEF Create, TypeOK, ByIp
    <3> HIDE DEF CountedIp
    <3> QED
      BY <3>1, <3>2 DEF Within, WithinIp
  <2>4. ASSUME net[p] # i PROVE WithinIp(i)
    <3>1. CountedIp(i)' \subseteq CountedIp(i)
      BY <1>0, <1>6, <2>4 DEF Create, TypeOK, Goto
    <3>2. ByIp(i, clock)' \subseteq ByIp(i, clock)
      BY <1>0, <1>6, <2>4 DEF Create, TypeOK, ByIp
    <3> HIDE DEF CountedIp
    <3> QED
      BY <3>1, <3>2 DEF Within, WithinIp
  <2> QED
    BY <2>1, <2>2, <2>3, <2>4
<1>7. ASSUME NEW p \in Proc, Deliver(p) \/ Lapse(p) \/ LockSession(p) \/ Consume(p)
      PROVE  Keep
  <2>1. CASE Deliver(p)
    BY <1>0, <1>2, <2>1 DEF Deliver, Goto, TypeOK, HolderInv, local
  <2>2. CASE Lapse(p)
    BY <1>0, <1>2, <2>2 DEF Lapse, CloseIfPending, Goto, TypeOK, local
  <2>3. CASE LockSession(p)
    BY <1>0, <1>2, <2>3 DEF LockSession, CloseIfPending, Goto, TypeOK, local
  <2>4. CASE Consume(p)
    BY <1>0, <1>2, <2>4 DEF Consume, CloseIfPending, Goto, TypeOK, local
  <2> QED
    BY <1>7, <2>1, <2>2, <2>3, <2>4
<1>8. ASSUME NEW p \in Proc,
             ReadForResend(p) \/ Resend(p) \/ ClaimAttempt(p) \/ Check(p)
      PROVE  Keep
  <2>1. CASE ReadForResend(p)
    BY <1>0, <1>2, <2>1 DEF ReadForResend, Goto, TypeOK, table
  <2>2. CASE Resend(p)
    BY <1>0, <1>2, <2>2 DEF Resend, Goto, TypeOK, local
  <2>3. CASE ClaimAttempt(p)
    BY <1>0, <1>2, <2>3 DEF ClaimAttempt, Goto, TypeOK
  <2>4. CASE Check(p)
    BY <1>0, <1>2, <2>4, SMTT(20) DEF Check, Goto, TypeOK, table, local
  <2> QED
    BY <1>8, <2>1, <2>2, <2>3, <2>4
<1>9. ASSUME NEW p \in Proc,
             LookupUser(p) \/ UpsertUser(p) \/ IssueTokens(p) \/ Return(p) \/ Crash(p)
      PROVE  Keep
  BY <1>0, <1>2, <1>9, SMTT(20) DEF LookupUser, UpsertUser, IssueTokens, Return, Crash, Reset, Goto,
     TypeOK, table, local
<1>10. CASE Tick
  <2>1. Counted(m)' = Counted(m) /\ CountedIp(i)' = CountedIp(i)
    BY <1>10 DEF Tick, local
  <2>2. clock' = clock + 1 /\ clock \in Int /\ UNCHANGED <<status, mobile, ip, createdAt>>
    BY <1>0, <1>10, OtpAssumption DEF Tick, TypeOK, table
  <2>3. ByMobile(m, clock)' \subseteq ByMobile(m, clock)
    BY <1>0, <2>2, OtpAssumption DEF TypeOK, ByMobile
  <2>4. ByIp(i, clock)' \subseteq ByIp(i, clock)
    BY <1>0, <2>2, OtpAssumption DEF TypeOK, ByIp
  <2> QED
    BY <1>1, <2>1, <2>3, <2>4
<1>11. CASE UNCHANGED vars
  <2> Keep
    BY <1>11 DEF vars, ByMobile, ByIp, table, local
  <2> QED
    BY <1>1
<1>12. CASE Keep
  BY <1>1, <1>12
<1> HIDE DEF Keep, Counted, CountedIp, WithinMobile, WithinIp
<1> QED
  BY <1>3, <1>4, <1>5, <1>6, <1>7, <1>8, <1>9, <1>10, <1>11, <1>12 DEF Next, Step

LEMMA NextQuotaInv == IInv /\ ClockInv /\ QuotaInv /\ [Next]_vars => QuotaInv'
<1> SUFFICES ASSUME IInv, ClockInv, QuotaInv, [Next]_vars
             PROVE  QuotaInv'
  OBVIOUS
<1>1. ASSUME NEW m \in Mobile
      PROVE  Cardinality(ByMobile(m, clock)') + Cardinality(Counted(m)')
                 < MaxPerMobile + Cardinality(Proc)
  <2>1. /\ ByMobile(m, clock) \in SUBSET Session /\ ByMobile(m, clock)' \in SUBSET Session
        /\ Counted(m) \in SUBSET Proc /\ Counted(m)' \in SUBSET Proc
        /\ MaxPerMobile \in Nat
    BY OtpAssumption DEF ByMobile, Counted, Requesting
  <2> QED
    BY <2>1, StepsWithinLimits, WithinLimit DEF QuotaInv, WithinMobile
<1>2. ASSUME NEW i \in Ip
      PROVE  Cardinality(ByIp(i, clock)') + Cardinality(CountedIp(i)')
                 < MaxPerIp + Cardinality(Proc)
  <2>1. /\ ByIp(i, clock) \in SUBSET Session /\ ByIp(i, clock)' \in SUBSET Session
        /\ CountedIp(i) \in SUBSET Proc /\ CountedIp(i)' \in SUBSET Proc
        /\ MaxPerIp \in Nat
    BY OtpAssumption DEF ByIp, CountedIp
  <2> QED
    BY <2>1, StepsWithinLimits, WithinLimit DEF QuotaInv, WithinIp
<1> QED
  BY <1>1, <1>2 DEF QuotaInv

\* The counts of the initial state: no rows, and no requests.
LEMMA InitCounts == Init => ClockInv /\ QuotaInv /\ LiveInv /\ LockoutInv
<1> SUFFICES ASSUME Init
             PROVE  ClockInv /\ QuotaInv /\ LiveInv /\ LockoutInv
  OBVIOUS
<1>1. ClockInv
  BY DEF Init, ClockInv
<1>2. Cardinality({}) = 0 /\ Cardinality(Proc) \in Nat \ {0}
  BY FS_EmptySet, Counts
<1>3. QuotaInv
  <2>1. \A m : ByMobile(m, clock) = {} /\ Counted(m) = {}
    BY DEF Init, ByMobile, Counted, Requesting
  <2>2. \A i : ByIp(i, clock) = {} /\ CountedIp(i) = {}
    BY DEF Init, ByIp, CountedIp
  <2>3. ASSUME NEW m \in Mobile
        PROVE  Cardinality(ByMobile(m, clock)) + Cardinality(Counted(m))
                   < MaxPerMobile + Cardinality(Proc)
    <3>1. Cardinality(ByMobile(m, clock)) = 0 /\ Cardinality(Counted(m)) = 0
      BY <1>2, <2>1
    <3> QED
      BY <1>2, <3>1, OtpAssumption
  <2>4. ASSUME NEW i \in Ip
        PROVE  Cardinality(ByIp(i, clock)) + Cardinality(CountedIp(i))
                   < MaxPerIp + Cardinality(Proc)
    <3>1. Cardinality(ByIp(i, clock)) = 0 /\ Cardinality(CountedIp(i)) = 0
      BY <1>2, <2>2
    <3> QED
      BY <1>2, <3>1, OtpAssumption
  <2> QED
    BY <2>3, <2>4 DEF QuotaInv
<1>4. \A m : Locks(m) = {} /\ LiveCodes(m) = {} /\ Early(m) = {} /\ Creating(m) = {}
  BY DEF Init, Locks, RecentLocks, LiveCodes, Early, Creating, Requesting
<1>5. LiveInv
  BY <1>2, <1>4 DEF LiveInv
<1>6. LockoutInv
  <2> SUFFICES ASSUME NEW m \in Mobile
               PROVE  /\ Early(m) # Proc
                      /\ Risk(m) < LockThreshold + 2 * Cardinality(Proc) - 1
                      /\ Risk(m) < LockThreshold + 2 * Cardinality(Proc)
    BY DEF LockoutInv
  <2>1. Early(m) # Proc
    BY <1>4, OtpAssumption
  <2>2. Risk(m) = 0
    BY <1>2, <1>4 DEF Risk
  <2> QED
    BY <1>2, <2>1, <2>2, OtpAssumption
<1> QED
  BY <1>1, <1>3, <1>5, <1>6

LEMMA CountsInvariance == Spec => [](ClockInv /\ QuotaInv /\ LiveInv /\ LockoutInv)
<1>1. Init => ClockInv /\ QuotaInv /\ LiveInv /\ LockoutInv
  BY InitCounts
<1>2. IInv /\ (ClockInv /\ QuotaInv /\ LiveInv /\ LockoutInv) /\ [Next]_vars
          => (ClockInv /\ QuotaInv /\ LiveInv /\ LockoutInv)'
  BY NextClockInv, NextQuotaInv, NextLiveInv
<1> QED
  BY <1>1, <1>2, Invariance, PTL DEF Spec

\* The hourly limits of a mobile and of a network are passed by less than one session
\* for each request served at a time, whatever the requests do in between.
THEOREM LimitsUpToConcurrency == Spec => []LimitsHoldUpToConcurrency
<1>1. QuotaInv => LimitsHoldUpToConcurrency
  <2> SUFFICES ASSUME QuotaInv
               PROVE  LimitsHoldUpToConcurrency
    OBVIOUS
  <2>1. ASSUME NEW m \in Mobile
        PROVE  Cardinality(ByMobile(m, clock)) < MaxPerMobile + Cardinality(Proc)
    <3>1. /\ ByMobile(m, clock) \in SUBSET Session /\ Counted(m) \in SUBSET Proc
      BY DEF ByMobile, Counted, Requesting
    <3>2. Cardinality(ByMobile(m, clock)) \in Nat /\ Cardinality(Counted(m)) \in Nat
      BY <3>1, FinitePart, OtpAssumption
    <3>3. Cardinality(Proc) \in Nat
      BY FS_CardinalityType, OtpAssumption
    <3> QED
      BY <3>2, <3>3, OtpAssumption DEF QuotaInv
  <2>2. ASSUME NEW i \in Ip
        PROVE  Cardinality(ByIp(i, clock)) < MaxPerIp + Cardinality(Proc)
    <3>1. /\ ByIp(i, clock) \in SUBSET Session /\ CountedIp(i) \in SUBSET Proc
      BY DEF ByIp, CountedIp
    <3>2. Cardinality(ByIp(i, clock)) \in Nat /\ Cardinality(CountedIp(i)) \in Nat
      BY <3>1, FinitePart, OtpAssumption
    <3>3. Cardinality(Proc) \in Nat
      BY FS_CardinalityType, OtpAssumption
    <3> QED
      BY <3>2, <3>3, OtpAssumption DEF QuotaInv
  <2> QED
    BY <2>1, <2>2 DEF LimitsHoldUpToConcurrency
<1> QED
  BY <1>1, CountsInvariance, PTL

\* At most one code of a mobile works per request served at a time: a request expires
\* the codes it finds before it inserts its own.
THEOREM LiveCodesBounded == Spec => []OneLiveCodePerRequest
<1>1. LiveInv => OneLiveCodePerRequest
  <2> SUFFICES ASSUME LiveInv, NEW m \in Mobile
               PROVE  Cardinality(LiveCodes(m)) <= Cardinality(Proc)
    BY DEF OneLiveCodePerRequest
  <2>1. /\ Cardinality(LiveCodes(m)) \in Nat /\ Cardinality(Creating(m)) \in Nat
        /\ Cardinality(Proc) \in Nat
    BY Counts
  <2> QED
    BY <2>1 DEF LiveInv
<1> QED
  BY <1>1, CountsInvariance, PTL

\* The lockout: the sessions of a mobile that are locked within the lockout period never
\* exceed the threshold by more than the codes and requests that were under way.
THEOREM LockoutBounded == Spec => []LockoutHolds
<1>1. LockoutInv => LockoutHolds
  <2> SUFFICES ASSUME LockoutInv, NEW m \in Mobile
               PROVE  Cardinality(RecentLocks(m, clock))
                          < LockThreshold + 2 * Cardinality(Proc) - 1
    BY DEF LockoutHolds
  <2> DEFINE L == Cardinality(Locks(m))   V == Cardinality(LiveCodes(m))
             E == Cardinality(Early(m))   C == Cardinality(Creating(m))
             N == Cardinality(Proc)
  <2>1. /\ L \in Nat /\ V \in Nat /\ E \in Nat /\ C \in Nat /\ N \in Nat \ {0}
        /\ LockThreshold \in Nat \ {0}
    BY Counts, OtpAssumption
  <2>2. Early(m) = Proc => L < LockThreshold
    BY DEF LockoutInv
  <2>3. Early(m) # Proc => L + V + E + C < LockThreshold + 2 * N - 1
    BY DEF LockoutInv, Risk
  <2>4. L = Cardinality(RecentLocks(m, clock))
    BY DEF Locks
  <2> HIDE DEF L, V, E, C, N
  <2>5. L < LockThreshold + 2 * N - 1
    BY <2>1, <2>2, <2>3
  <2> QED
    BY <2>4, <2>5 DEF N
<1> QED
  BY <1>1, CountsInvariance, PTL

=============================================================================
