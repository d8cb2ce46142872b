------------------------------ MODULE OtpService ------------------------------
(***************************************************************************)
(* One-time codes and sign-in: apps/api/src/modules/auth/otp.service.ts    *)
(* and auth.service.ts.                                                    *)
(*                                                                         *)
(* The columns of otp_sessions are functions of the session.  Nothing here *)
(* is in a transaction: every action is one autocommitted SQL statement,   *)
(* so requests interleave between any two of them, and what a request has  *)
(* read may be stale when it writes.  Every send, first or not, makes a    *)
(* new code and counts it in sendCount, so a code is identified by the     *)
(* send it went out with: guess k is right while sendCount is k, and guess *)
(* 0 is never right.                                                       *)
(***************************************************************************)
EXTENDS Integers, FiniteSets

CONSTANTS
    Session,       \* identities of otp_sessions rows
    Mobile, Ip,
    Proc,          \* request slots
    NoSession, NoMobile, NoIp,
    MaxAttempts,   \* OTP_MAX_VERIFY_ATTEMPTS
    MaxSends,      \* OTP_MAX_SENDS_PER_SESSION
    TTL,           \* OTP_TTL_SECONDS
    Cooldown,      \* OTP_RESEND_COOLDOWN_SECONDS
    Hour,          \* the window of the request limits
    Lockout,       \* OTP_LOCKOUT_MINUTES
    LockThreshold, \* OTP_LOCKOUT_THRESHOLD
    MaxPerMobile,  \* OTP_MAX_REQUESTS_PER_MOBILE_PER_HOUR
    MaxPerIp,      \* OTP_MAX_REQUESTS_PER_IP_PER_HOUR
    MaxTime,       \* bound of the clock
    MayCrash       \* whether a request can be abandoned midway

ASSUME OtpAssumption ==
    /\ NoSession \notin Session /\ NoMobile \notin Mobile /\ NoIp \notin Ip
    /\ IsFiniteSet(Session) /\ IsFiniteSet(Proc) /\ Proc # {}
    /\ MaxAttempts \in Nat \ {0} /\ MaxSends \in Nat \ {0}
    /\ TTL \in Nat /\ Cooldown \in Nat /\ Hour \in Nat /\ Lockout \in Nat
    /\ LockThreshold \in Nat \ {0}
    /\ MaxPerMobile \in Nat \ {0} /\ MaxPerIp \in Nat \ {0}
    /\ MaxTime \in Nat /\ MayCrash \in BOOLEAN

Status == {"absent", "PENDING", "VERIFIED", "EXPIRED", "LOCKED"}
Never  == -1
Guess  == 0..MaxSends
PC     == {"idle", "locks", "hourly", "network", "expire", "create", "deliver",
           "read", "resend", "claim", "check", "lapse", "lock", "consume",
           "lookup", "upsert", "issue", "done"}

VARIABLES
    clock,
    status, mobile, ip, attempts, sends, createdAt, sentAt, lockedAt,
                \* otp_sessions columns (sends is sendCount, sentAt lastSentAt)
    users,      \* mobiles with a users row
    signIns,    \* sign-ins, as pairs of a session and the ticket that won it
    pc,         \* where each request is
    sid, mob, net, at, guess, sent, isNew,
                \* its session, mobile, IP, `now', guess, sendCount and user read
    ticket,     \* history: the attempt count this request's claim produced
    compared    \* history: tickets whose guess was compared, per session

table == <<status, mobile, ip, attempts, sends, createdAt, sentAt, lockedAt>>
local == <<sid, mob, net, at, guess, sent, isNew, ticket>>
vars  == <<clock, table, users, signIns, pc, local, compared>>

TypeOK ==
    /\ clock \in 0..MaxTime
    /\ status \in [Session -> Status]
    /\ mobile \in [Session -> Mobile \cup {NoMobile}]
    /\ ip \in [Session -> Ip \cup {NoIp}]
    /\ attempts \in [Session -> 0..MaxAttempts]
    /\ sends \in [Session -> 0..MaxSends]
    /\ createdAt \in [Session -> 0..MaxTime]
    /\ sentAt \in [Session -> 0..MaxTime]
    /\ lockedAt \in [Session -> 0..MaxTime \cup {Never}]
    /\ users \in SUBSET Mobile
    /\ signIns \in SUBSET (Session \X (1..MaxAttempts))
    /\ pc \in [Proc -> PC]
    /\ sid \in [Proc -> Session \cup {NoSession}]
    /\ mob \in [Proc -> Mobile \cup {NoMobile}]
    /\ net \in [Proc -> Ip \cup {NoIp}]
    /\ at \in [Proc -> 0..MaxTime]
    /\ guess \in [Proc -> Guess]
    /\ sent \in [Proc -> 0..MaxSends]
    /\ isNew \in [Proc -> BOOLEAN]
    /\ ticket \in [Proc -> 0..MaxAttempts]
    /\ compared \in [Session -> SUBSET (1..MaxAttempts)]

Init ==
    /\ clock = 0
    /\ status = [s \in Session |-> "absent"]
    /\ mobile = [s \in Session |-> NoMobile]
    /\ ip = [s \in Session |-> NoIp]
    /\ attempts = [s \in Session |-> 0]
    /\ sends = [s \in Session |-> 0]
    /\ createdAt = [s \in Session |-> 0]
    /\ sentAt = [s \in Session |-> 0]
    /\ lockedAt = [s \in Session |-> Never]
    /\ users = {}
    /\ signIns = {}
    /\ pc = [p \in Proc |-> "idle"]
    /\ sid = [p \in Proc |-> NoSession]
    /\ mob = [p \in Proc |-> NoMobile]
    /\ net = [p \in Proc |-> NoIp]
    /\ at = [p \in Proc |-> 0]
    /\ guess = [p \in Proc |-> 0]
    /\ sent = [p \in Proc |-> 0]
    /\ isNew = [p \in Proc |-> FALSE]
    /\ ticket = [p \in Proc |-> 0]
    /\ compared = [s \in Session |-> {}]

Goto(p, l) == pc' = [pc EXCEPT ![p] = l]

\* UPDATE otp_sessions SET status = v WHERE id = s AND status = 'PENDING'.
CloseIfPending(s, v) ==
    status' = [status EXCEPT ![s] = IF @ = "PENDING" THEN v ELSE @]

-------------------------------------------------------------------------------
(* POST /api/auth/otp/request                                              *)

\* The bound on Session leaves a row for every request that may still insert one.
RoomForOne ==
    Cardinality({q \in Proc : pc[q] \in {"locks", "hourly", "network", "expire", "create"}})
        < Cardinality({s \in Session : status[s] = "absent"})

SendRequest(p, m, i) ==
    /\ pc[p] = "idle"
    /\ RoomForOne
    /\ Goto(p, "locks")
    /\ mob' = [mob EXCEPT ![p] = m]
    /\ net' = [net EXCEPT ![p] = i]
    /\ at' = [at EXCEPT ![p] = clock]
    /\ UNCHANGED <<clock, table, users, signIns, sid, guess, sent, isNew, ticket, compared>>

\* enforceRequestLimits: three counts, each a statement of its own.
RecentLocks(m, t) == {s \in Session : /\ mobile[s] = m /\ status[s] = "LOCKED"
                                      /\ lockedAt[s] >= t - Lockout}
ByMobile(m, t) == {s \in Session : status[s] # "absent" /\ mobile[s] = m /\ createdAt[s] >= t - Hour}
ByIp(i, t)     == {s \in Session : status[s] # "absent" /\ ip[s] = i /\ createdAt[s] >= t - Hour}

\* Fault: the lockout is not looked at.
CheckLimit_noLockout(p) ==
    /\ \/ pc[p] = "locks" /\ Goto(p, "hourly")
       \/ /\ pc[p] = "hourly"
          /\ Goto(p, IF Cardinality(ByMobile(mob[p], at[p])) >= MaxPerMobile
                     THEN "done" ELSE "network")
       \/ /\ pc[p] = "network"
          /\ Goto(p, IF Cardinality(ByIp(net[p], at[p])) >= MaxPerIp
                     THEN "done" ELSE "expire")
    /\ UNCHANGED <<clock, table, users, signIns, local, compared>>

\* Fault: the limit test is off by one.
CheckLimit_offByOne(p) ==
    /\ \/ /\ pc[p] = "locks"
          /\ Goto(p, IF Cardinality(RecentLocks(mob[p], at[p])) >= LockThreshold
                     THEN "done" ELSE "hourly")
       \/ /\ pc[p] = "hourly"
          /\ Goto(p, IF Cardinality(ByMobile(mob[p], at[p])) > MaxPerMobile
                     THEN "done" ELSE "network")
       \/ /\ pc[p] = "network"
          /\ Goto(p, IF Cardinality(ByIp(net[p], at[p])) > MaxPerIp
                     THEN "done" ELSE "expire")
    /\ UNCHANGED <<clock, table, users, signIns, local, compared>>

CheckLimit(p) ==
    /\ \/ /\ pc[p] = "locks"
          /\ Goto(p, IF Cardinality(RecentLocks(mob[p], at[p])) >= LockThreshold
                     THEN "done" ELSE "hourly")
       \/ /\ pc[p] = "hourly"
          /\ Goto(p, IF Cardinality(ByMobile(mob[p], at[p])) >= MaxPerMobile
                     THEN "done" ELSE "network")
       \/ /\ pc[p] = "network"
          /\ Goto(p, IF Cardinality(ByIp(net[p], at[p])) >= MaxPerIp
                     THEN "done" ELSE "expire")
    /\ UNCHANGED <<clock, table, users, signIns, local, compared>>

\* Fault: older pending codes are left alone.
ExpireOlder_none(p) ==
    /\ pc[p] = "expire"
    /\ Goto(p, "create")
    /\ UNCHANGED <<clock, table, users, signIns, local, compared>>

\* Older pending codes of the mobile stop working ...
ExpireOlder(p) ==
    /\ pc[p] = "expire"
    /\ status' = [s \in Session |-> IF mobile[s] = mob[p] /\ status[s] = "PENDING"
                                    THEN "EXPIRED" ELSE status[s]]
    /\ Goto(p, "create")
    /\ UNCHANGED <<clock, mobile, ip, attempts, sends, createdAt, sentAt, lockedAt,
                   users, signIns, local, compared>>

\* ... and a new session is inserted.
Create(p, s) ==
    /\ pc[p] = "create"
    /\ status[s] = "absent"
    /\ status' = [status EXCEPT ![s] = "PENDING"]
    /\ mobile' = [mobile EXCEPT ![s] = mob[p]]
    /\ ip' = [ip EXCEPT ![s] = net[p]]
    /\ sends' = [sends EXCEPT ![s] = 1]
    /\ createdAt' = [createdAt EXCEPT ![s] = at[p]]
    /\ sentAt' = [sentAt EXCEPT ![s] = at[p]]
    /\ sid' = [sid EXCEPT ![p] = s]
    /\ Goto(p, "deliver")
    /\ UNCHANGED <<clock, attempts, lockedAt, users, signIns, mob, net, at, guess, sent,
                   isNew, ticket, compared>>

\* The provider takes any time to accept the message or to reject it; after a
\* rejection the session is closed whatever has happened to it meanwhile.
Deliver(p) ==
    /\ pc[p] = "deliver"
    /\ \/ UNCHANGED status
       \/ status' = [status EXCEPT ![sid[p]] = "EXPIRED"]
    /\ Goto(p, "done")
    /\ UNCHANGED <<clock, mobile, ip, attempts, sends, createdAt, sentAt, lockedAt,
                   users, signIns, local, compared>>

-------------------------------------------------------------------------------
(* POST /api/auth/otp/resend                                               *)

SendResend(p, s) ==
    /\ pc[p] = "idle"
    /\ status[s] # "absent"
    /\ Goto(p, "read")
    /\ sid' = [sid EXCEPT ![p] = s]
    /\ at' = [at EXCEPT ![p] = clock]
    /\ UNCHANGED <<clock, table, users, signIns, mob, net, guess, sent, isNew, ticket, compared>>

ReadForResend(p) ==
    LET s == sid[p] IN
    /\ pc[p] = "read"
    /\ \/ /\ status[s] = "PENDING" /\ at[p] >= sentAt[s] + Cooldown /\ sends[s] < MaxSends
          /\ sent' = [sent EXCEPT ![p] = sends[s]]
          /\ Goto(p, "resend")
       \/ /\ ~(status[s] = "PENDING" /\ at[p] >= sentAt[s] + Cooldown /\ sends[s] < MaxSends)
          /\ UNCHANGED sent
          /\ Goto(p, "done")
    /\ UNCHANGED <<clock, table, users, signIns, sid, mob, net, at, guess, isNew, ticket, compared>>

\* Fault: not conditional on the sendCount read.
Resend_anyCount(p) ==
    LET s == sid[p] IN
    /\ pc[p] = "resend"
    /\ \/ /\ status[s] = "PENDING"
          /\ sends' = [sends EXCEPT ![s] = @ + 1]
          /\ sentAt' = [sentAt EXCEPT ![s] = at[p]]
          /\ Goto(p, "deliver")
       \/ /\ status[s] # "PENDING"
          /\ UNCHANGED <<sends, sentAt>>
          /\ Goto(p, "done")
    /\ UNCHANGED <<clock, status, mobile, ip, attempts, createdAt, lockedAt, users,
                   signIns, local, compared>>

\* Fault: a new code comes with new attempts.
Resend_newAttempts(p) ==
    LET s == sid[p] IN
    /\ pc[p] = "resend"
    /\ status[s] = "PENDING" /\ sends[s] = sent[p]
    /\ sends' = [sends EXCEPT ![s] = @ + 1]
    /\ attempts' = [attempts EXCEPT ![s] = 0]
    /\ sentAt' = [sentAt EXCEPT ![s] = at[p]]
    /\ Goto(p, "deliver")
    /\ UNCHANGED <<clock, status, mobile, ip, createdAt, lockedAt, users,
                   signIns, local, compared>>

\* Fault: a resend reopens the session.
Resend_reopen(p) ==
    LET s == sid[p] IN
    /\ pc[p] = "resend"
    /\ status' = [status EXCEPT ![s] = "PENDING"]
    /\ sends' = [sends EXCEPT ![s] = @ + 1]
    /\ sentAt' = [sentAt EXCEPT ![s] = at[p]]
    /\ Goto(p, "deliver")
    /\ UNCHANGED <<clock, mobile, ip, attempts, createdAt, lockedAt, users,
                   signIns, local, compared>>

\* UPDATE ... WHERE id AND status = 'PENDING' AND sendCount = the one read.
Resend(p) ==
    LET s == sid[p] IN
    /\ pc[p] = "resend"
    /\ \/ /\ status[s] = "PENDING" /\ sends[s] = sent[p]
          /\ sends' = [sends EXCEPT ![s] = @ + 1]
          /\ sentAt' = [sentAt EXCEPT ![s] = at[p]]
          /\ Goto(p, "deliver")
       \/ /\ ~(status[s] = "PENDING" /\ sends[s] = sent[p])
          /\ UNCHANGED <<sends, sentAt>>
          /\ Goto(p, "done")
    /\ UNCHANGED <<clock, status, mobile, ip, attempts, createdAt, lockedAt, users,
                   signIns, local, compared>>

-------------------------------------------------------------------------------
(* POST /api/auth/otp/verify                                               *)

SendVerify(p, s, g) ==
    /\ pc[p] = "idle"
    /\ status[s] # "absent"
    /\ Goto(p, "claim")
    /\ sid' = [sid EXCEPT ![p] = s]
    /\ guess' = [guess EXCEPT ![p] = g]
    /\ at' = [at EXCEPT ![p] = clock]
    /\ UNCHANGED <<clock, table, users, signIns, mob, net, sent, isNew, ticket, compared>>

\* One attempt is claimed; without one the request can only be refused.
ClaimAttempt(p) ==
    LET s == sid[p] IN
    /\ pc[p] = "claim"
    /\ \/ /\ status[s] = "PENDING" /\ attempts[s] < MaxAttempts
          /\ attempts' = [attempts EXCEPT ![s] = @ + 1]
          /\ ticket' = [ticket EXCEPT ![p] = attempts[s] + 1]
          /\ Goto(p, "check")
       \/ /\ ~(status[s] = "PENDING" /\ attempts[s] < MaxAttempts)
          /\ UNCHANGED <<attempts, ticket>>
          /\ Goto(p, "done")
    /\ UNCHANGED <<clock, status, mobile, ip, sends, createdAt, sentAt, lockedAt, users,
                   signIns, sid, mob, net, at, guess, sent, isNew, compared>>

\* Fault: the session locks one attempt too late.
Check_offByOne(p) ==
    LET s == sid[p] IN
    /\ pc[p] = "check"
    /\ \/ /\ sentAt[s] + TTL <= at[p]
          /\ UNCHANGED compared
          /\ Goto(p, "lapse")
       \/ /\ sentAt[s] + TTL > at[p]
          /\ compared' = [compared EXCEPT ![s] = @ \cup {ticket[p]}]
          /\ Goto(p, IF guess[p] = sends[s] THEN "consume"
                     ELSE IF attempts[s] > MaxAttempts THEN "lock" ELSE "done")
    /\ UNCHANGED <<clock, table, users, signIns, local>>

\* The session is read, status unseen, and the guess compared with it.
Check(p) ==
    LET s == sid[p] IN
    /\ pc[p] = "check"
    /\ \/ /\ sentAt[s] + TTL <= at[p]
          /\ UNCHANGED compared
          /\ Goto(p, "lapse")
       \/ /\ sentAt[s] + TTL > at[p]
          /\ compared' = [compared EXCEPT ![s] = @ \cup {ticket[p]}]
          /\ Goto(p, IF guess[p] = sends[s] THEN "consume"
                     ELSE IF attempts[s] >= MaxAttempts THEN "lock" ELSE "done")
    /\ UNCHANGED <<clock, table, users, signIns, local>>

Lapse(p) ==
    /\ pc[p] = "lapse"
    /\ CloseIfPending(sid[p], "EXPIRED")
    /\ Goto(p, "done")
    /\ UNCHANGED <<clock, mobile, ip, attempts, sends, createdAt, sentAt, lockedAt,
                   users, signIns, local, compared>>

LockSession(p) ==
    LET s == sid[p] IN
    /\ pc[p] = "lock"
    /\ CloseIfPending(s, "LOCKED")
    /\ lockedAt' = [lockedAt EXCEPT ![s] = IF status[s] = "PENDING" THEN at[p] ELSE @]
    /\ Goto(p, "done")
    /\ UNCHANGED <<clock, mobile, ip, attempts, sends, createdAt, sentAt, users,
                   signIns, local, compared>>

\* Fault: the session is consumed by id.
Consume_byId(p) ==
    /\ pc[p] = "consume"
    /\ status' = [status EXCEPT ![sid[p]] = "VERIFIED"]
    /\ Goto(p, "lookup")
    /\ UNCHANGED <<clock, mobile, ip, attempts, sends, createdAt, sentAt, lockedAt,
                   users, signIns, local, compared>>

\* Only one concurrent verifier can flip PENDING to VERIFIED.
Consume(p) ==
    LET s == sid[p] IN
    /\ pc[p] = "consume"
    /\ CloseIfPending(s, "VERIFIED")
    /\ Goto(p, IF status[s] = "PENDING" THEN "lookup" ELSE "done")
    /\ UNCHANGED <<clock, mobile, ip, attempts, sends, createdAt, sentAt, lockedAt,
                   users, signIns, local, compared>>

-------------------------------------------------------------------------------
(* AuthService.verifyAndSignIn, after otp.verify                           *)

LookupUser(p) ==
    /\ pc[p] = "lookup"
    /\ isNew' = [isNew EXCEPT ![p] = mobile[sid[p]] \notin users]
    /\ Goto(p, "upsert")
    /\ UNCHANGED <<clock, table, users, signIns, sid, mob, net, at, guess, sent, ticket, compared>>

\* users.mobile is unique: a create that lost a race to another one fails.
UpsertUser(p) ==
    LET m == mobile[sid[p]] IN
    /\ pc[p] = "upsert"
    /\ \/ /\ ~isNew[p] \/ m \notin users
          /\ users' = users \cup {m}
          /\ Goto(p, "issue")
       \/ /\ isNew[p] /\ m \in users
          /\ UNCHANGED users
          /\ Goto(p, "done")
    /\ UNCHANGED <<clock, table, signIns, local, compared>>

IssueTokens(p) ==
    /\ pc[p] = "issue"
    /\ signIns' = signIns \cup {<<sid[p], ticket[p]>>}
    /\ Goto(p, "done")
    /\ UNCHANGED <<clock, table, users, local, compared>>

-------------------------------------------------------------------------------
Reset(p) ==
    /\ Goto(p, "idle")
    /\ sid' = [sid EXCEPT ![p] = NoSession]
    /\ mob' = [mob EXCEPT ![p] = NoMobile]
    /\ net' = [net EXCEPT ![p] = NoIp]
    /\ at' = [at EXCEPT ![p] = 0]
    /\ guess' = [guess EXCEPT ![p] = 0]
    /\ sent' = [sent EXCEPT ![p] = 0]
    /\ isNew' = [isNew EXCEPT ![p] = FALSE]
    /\ ticket' = [ticket EXCEPT ![p] = 0]
    /\ UNCHANGED <<clock, table, users, signIns, compared>>

\* The response is sent.
Return(p) == pc[p] = "done" /\ Reset(p)

\* The process dies or the database becomes unreachable between statements.
Crash(p) == MayCrash /\ pc[p] \notin {"idle", "done"} /\ Reset(p)

Tick == /\ clock < MaxTime
        /\ clock' = clock + 1
        /\ UNCHANGED <<table, users, signIns, pc, local, compared>>

Step(p) ==
    \/ CheckLimit(p) \/ ExpireOlder(p) \/ Deliver(p)
    \/ \E s \in Session : Create(p, s)
    \/ ReadForResend(p) \/ Resend(p)
    \/ ClaimAttempt(p) \/ Check(p) \/ Lapse(p) \/ LockSession(p) \/ Consume(p)
    \/ LookupUser(p) \/ UpsertUser(p) \/ IssueTokens(p)
    \/ Return(p) \/ Crash(p)

Arrive(p) ==
    \/ \E m \in Mobile, i \in Ip : SendRequest(p, m, i)
    \/ \E s \in Session : SendResend(p, s) \/ \E g \in Guess : SendVerify(p, s, g)

Next == Tick \/ \E p \in Proc : Arrive(p) \/ Step(p)

Spec == Init /\ [][Next]_vars

-------------------------------------------------------------------------------
(* What the service promises.                                              *)

\* "Parallel guesses cannot exceed the attempt limit", "resending never grants
\* extra guesses" (lines 36-39): whoever is about to compare a guess holds one
\* of MaxAttempts tickets of the session, a ticket nobody holds or has used.
EveryGuessCostsAnAttempt ==
    \A p \in Proc : pc[p] = "check" =>
        /\ ticket[p] \in 1..MaxAttempts
        /\ ticket[p] \notin compared[sid[p]]
        /\ \A q \in Proc : (q # p /\ pc[q] = "check" /\ sid[q] = sid[p])
                               => ticket[q] # ticket[p]

\* "A code can be used once" (line 145): a session signs in once, however many
\* requests carry the right code.
SingleUse == \A x, y \in signIns : x[1] = y[1] => x = y

\* Between two sends of a session lies the cooldown, also when resends race
\* (line 119).
Spaced ==
    \A s \in Session :
        (status[s] # "absent" /\ sends'[s] # sends[s]) =>
            /\ sends'[s] = sends[s] + 1 /\ sends'[s] <= MaxSends
            /\ sentAt'[s] >= sentAt[s] + Cooldown

SendsAreSpaced == [][Spaced]_vars

\* A closed session never becomes usable again.
Final == \A s \in Session : status[s] \in {"VERIFIED", "EXPIRED", "LOCKED"} =>
                                status'[s] \notin {"absent", "PENDING"}

ClosedStaysClosed == [][Final]_vars

\* When no request crashes, a session whose attempts are used up does not stay
\* PENDING: the last guess locked it, expired it or signed in.
ExhaustedIsClosed ==
    \A s \in Session :
        (attempts[s] = MaxAttempts /\ \A p \in Proc : sid[p] = s => pc[p] \notin
                                          {"check", "lapse", "lock", "consume"})
        => status[s] # "PENDING"

\* The hourly limits are checked before the insert, not with it: concurrent
\* requests can pass them together, but no further than one session each.
LimitsHoldUpToConcurrency ==
    /\ \A m \in Mobile : Cardinality(ByMobile(m, clock)) < MaxPerMobile + Cardinality(Proc)
    /\ \A i \in Ip : Cardinality(ByIp(i, clock)) < MaxPerIp + Cardinality(Proc)

\* "Only one live code per mobile" (line 62): of the codes of a mobile no more
\* work than requests are served at a time.
LiveCodes(m) == {s \in Session : mobile[s] = m /\ status[s] = "PENDING"}

OneLiveCodePerRequest ==
    \A m \in Mobile : Cardinality(LiveCodes(m)) <= Cardinality(Proc)

\* "A mobile number is locked out after repeated failures" (README.md:74): once
\* LockThreshold sessions of a mobile are locked, only the codes that were live by
\* then and those of requests that were past the test can still be guessed at.
LockoutHolds ==
    \A m \in Mobile :
        Cardinality(RecentLocks(m, clock)) < LockThreshold + 2 * Cardinality(Proc) - 1

(* Why these hold: an invariant that every step preserves.                 *)

\* A request that has a session: the row exists.
HolderInv ==
    \A p \in Proc :
        /\ pc[p] \in {"read", "resend", "deliver", "claim", "check", "lapse", "lock",
                     "consume", "lookup", "upsert", "issue"} =>
              sid[p] \in Session /\ status[sid[p]] # "absent"
        /\ pc[p] \in {"locks", "hourly", "network", "expire", "create"} => mob[p] \in Mobile

\* Compared and held tickets were handed out, each to one request.
TicketInv ==
    /\ \A s \in Session : /\ compared[s] \subseteq 1..attempts[s]
                          /\ status[s] = "absent" => attempts[s] = 0
    /\ \A p \in Proc :
          /\ pc[p] \in {"check", "consume", "lookup", "upsert", "issue"} =>
                ticket[p] \in 1..attempts[sid[p]]
          /\ pc[p] = "check" => ticket[p] \notin compared[sid[p]]
    /\ \A p, q \in Proc :
          (p # q /\ pc[p] = "check" /\ pc[q] = "check" /\ sid[p] = sid[q])
              => ticket[p] # ticket[q]

\* A session is won once: by a request on its way to IssueTokens or by one that
\* has signed in.
Winning == {"lookup", "upsert", "issue"}
WinnerInv ==
    /\ \A s \in Session : status[s] # "absent" => mobile[s] \in Mobile
    /\ \A p \in Proc : pc[p] \in Winning =>
          /\ status[sid[p]] # "PENDING"
          /\ \A x \in signIns : x[1] # sid[p]
    /\ \A p, q \in Proc :
          (pc[p] \in Winning /\ pc[q] \in Winning /\ sid[p] = sid[q]) => p = q
    /\ \A x \in signIns : status[x[1]] \notin {"absent", "PENDING"}

\* What a resend has read is still true if sendCount is what it was.
ResendInv ==
    \A p \in Proc : pc[p] = "resend" =>
        /\ sends[sid[p]] >= sent[p] /\ sent[p] < MaxSends
        /\ sends[sid[p]] = sent[p] => at[p] >= sentAt[sid[p]] + Cooldown

IInv == TypeOK /\ HolderInv /\ TicketInv /\ WinnerInv /\ ResendInv /\ SingleUse

\* Without crashes, whoever used up the attempts of a PENDING session is still
\* there to close it.
CloserInv ==
    \A s \in Session : (status[s] = "PENDING" /\ attempts[s] = MaxAttempts) =>
        \E p \in Proc : sid[p] = s /\ pc[p] \in {"check", "lapse", "lock", "consume"}
=============================================================================
