----------------------------- MODULE TokenService -----------------------------
(***************************************************************************)
(* Refresh-token families of apps/api/src/modules/auth/token.service.ts.   *)
(*                                                                         *)
(* The columns of the auth_sessions table are functions of the row.  A     *)
(* row's revokedAt and revokedReason are written together, so they are one *)
(* column, status: "live" (revokedAt null), "rotated" (revoked by its own  *)
(* rotation) or the reason of a revocation; "absent" is no committed row.  *)
(*                                                                         *)
(* Each request in flight is a process.  One action is one SQL statement,  *)
(* and transactions have the semantics of PostgreSQL's READ COMMITTED (the *)
(* default, which the code does not change): a statement sees the rows     *)
(* committed when it begins, an UPDATE waits for the writer of a row it    *)
(* selected and then rechecks its WHERE clause on the new version, row     *)
(* locks are held to the end of the transaction, and no statement sees     *)
(* another transaction's uncommitted rows.  With SerialTx the database     *)
(* runs one transaction at a time, as PGlite does in development and in    *)
(* the tests (docs/pglite-postgres-compatibility.md).                      *)
(***************************************************************************)
EXTENDS Integers, FiniteSets

CONSTANTS
    Row,         \* identities of auth_sessions rows, i.e. refresh tokens
    Family,      \* family ids, one per sign-in
    User,
    Owner,       \* the user a family belongs to
    Device,      \* an (IP hash, user agent) pair
    Proc,        \* request slots: at most |Proc| requests in flight
    NoRow, NoFamily, NoDevice,
    RefreshTTL,  \* REFRESH_TOKEN_TTL_DAYS
    AccessTTL,   \* ACCESS_TOKEN_TTL_SECONDS
    Grace,       \* REFRESH_RACE_GRACE_SECONDS
    MaxTime,     \* bound of the clock
    SerialTx     \* TRUE for PGlite, FALSE for PostgreSQL

ASSUME TokenAssumption ==
    /\ Owner \in [Family -> User]
    /\ NoRow \notin Row
    /\ NoFamily \notin Family
    /\ NoDevice \notin Device
    /\ RefreshTTL \in Nat /\ AccessTTL \in Nat /\ Grace \in Nat
    /\ MaxTime \in Nat
    /\ SerialTx \in BOOLEAN

Never  == -1
Reason == {"logout", "logout_all", "refresh_reuse"}
Status == {"absent", "live", "rotated"} \cup Reason
PC     == {"idle", "lookup", "race", "claim", "insert", "commit", "lost",
           "scan", "revoke", "relabel", "done"}
Answer == {"none", "200", "204", "401", "409", "500"}

VARIABLES
    clock,      \* the service clock
    status, family, createdAt, rotatedAt, device,   \* auth_sessions columns
    parent,     \* history: the row a row was exchanged for
    pc,         \* where each request is
    tok, dev,   \* the token (row) and device of the request
    at,         \* the `now' the request captured on entry
    fresh,      \* the successor row of an open rotation
    scope,      \* the families an open revocation matches
    reason,     \* its revokedReason
    todo,       \* rows its current UPDATE selected and has not reached
    written,    \* rows the open transaction has updated, and locks
    seen,       \* history: rows committed when the revocation began
    answer      \* status code of the response

table == <<status, family, createdAt, rotatedAt, device, parent>>
local == <<tok, dev, at, fresh, scope, reason, todo, written, seen>>
vars  == <<clock, table, pc, local, answer>>

TypeOK ==
    /\ clock \in 0..MaxTime
    /\ status \in [Row -> Status]
    /\ family \in [Row -> Family \cup {NoFamily}]
    /\ createdAt \in [Row -> 0..MaxTime]
    /\ rotatedAt \in [Row -> 0..MaxTime \cup {Never}]
    /\ device \in [Row -> Device \cup {NoDevice}]
    /\ parent \in [Row -> Row \cup {NoRow}]
    /\ pc \in [Proc -> PC]
    /\ tok \in [Proc -> Row \cup {NoRow}]
    /\ dev \in [Proc -> Device \cup {NoDevice}]
    /\ at \in [Proc -> 0..MaxTime]
    /\ fresh \in [Proc -> Row \cup {NoRow}]
    /\ scope \in [Proc -> SUBSET Family]
    /\ reason \in [Proc -> Reason \cup {"none"}]
    /\ todo \in [Proc -> SUBSET Row]
    /\ written \in [Proc -> SUBSET Row]
    /\ seen \in [Proc -> SUBSET Row]
    /\ answer \in [Proc -> Answer]

Init ==
    /\ clock = 0
    /\ status = [s \in Row |-> "absent"]
    /\ family = [s \in Row |-> NoFamily]
    /\ createdAt = [s \in Row |-> 0]
    /\ rotatedAt = [s \in Row |-> Never]
    /\ device = [s \in Row |-> NoDevice]
    /\ parent = [s \in Row |-> NoRow]
    /\ pc = [p \in Proc |-> "idle"]
    /\ tok = [p \in Proc |-> NoRow]
    /\ dev = [p \in Proc |-> NoDevice]
    /\ at = [p \in Proc |-> 0]
    /\ fresh = [p \in Proc |-> NoRow]
    /\ scope = [p \in Proc |-> {}]
    /\ reason = [p \in Proc |-> "none"]
    /\ todo = [p \in Proc |-> {}]
    /\ written = [p \in Proc |-> {}]
    /\ seen = [p \in Proc |-> {}]
    /\ answer = [p \in Proc |-> "none"]

-------------------------------------------------------------------------------
(* Reading the table.                                                      *)

Committed(s)  == status[s] # "absent"
RowsOf(S)     == {s \in Row : Committed(s) /\ family[s] \in S}
Expired(s, t) == createdAt[s] + RefreshTTL <= t

\* A row no insert, committed or open, has used.
Unused(n) == ~Committed(n) /\ \A p \in Proc : fresh[p] # n

\* verifyAccess: does the API accept the access token minted with row s?
Accepts(s) ==
    /\ clock < createdAt[s] + AccessTTL
    /\ status[s] \in {"live", "rotated"}
    /\ ~Expired(s, clock)

\* isBenignRace: the newest live row of the family created since the rotation
\* of s was issued to the same device, within the grace period.
Successors(s) == {n \in Row : /\ status[n] = "live"
                              /\ family[n] = family[s]
                              /\ createdAt[n] >= rotatedAt[s]}
Newest(S)     == {n \in S : \A m \in S : createdAt[m] <= createdAt[n]}
\* Fault: the successor's createdAt must be later than the rotation.
BenignRace_later(s, d, t) ==
    /\ Grace # 0
    /\ rotatedAt[s] # Never
    /\ t - rotatedAt[s] <= Grace
    /\ \E n \in Newest({m \in Successors(s) : createdAt[m] > rotatedAt[s]}) : device[n] = d

BenignRace(s, d, t) ==
    /\ Grace # 0
    /\ rotatedAt[s] # Never
    /\ t - rotatedAt[s] <= Grace
    /\ \E n \in Newest(Successors(s)) : device[n] = d

(* Transactions and row locks.                                             *)

InTx(p) == pc[p] \in {"insert", "commit", "revoke", "relabel"}

\* The database can run a statement of p now.
MayRun(p) == SerialTx => \A q \in Proc \ {p} : ~InTx(q)

\* No other open transaction has updated row s.
Unlocked(p, s) == \A q \in Proc \ {p} : s \notin written[q]

Reply(p, code) == /\ pc' = [pc EXCEPT ![p] = "done"]
                  /\ answer' = [answer EXCEPT ![p] = code]

-------------------------------------------------------------------------------
(* Requests.  Return ends any of them.                                     *)

\* AuthService.verifyAndSignIn ends with issue(user.id, ctx): one INSERT with
\* a new family id.
SignIn(n, f, d) ==
    /\ Unused(n)
    /\ \A s \in Row : family[s] # f
    /\ SerialTx => \A q \in Proc : ~InTx(q)
    /\ status' = [status EXCEPT ![n] = "live"]
    /\ family' = [family EXCEPT ![n] = f]
    /\ createdAt' = [createdAt EXCEPT ![n] = clock]
    /\ device' = [device EXCEPT ![n] = d]
    /\ UNCHANGED <<clock, rotatedAt, parent, pc, local, answer>>

\* POST /api/auth/refresh presents a token that was issued at some time, from
\* any device: a tab, a retry after a lost response, a replay.
SendRefresh(p, s, d) ==
    /\ pc[p] = "idle"
    /\ Committed(s)
    /\ pc' = [pc EXCEPT ![p] = "lookup"]
    /\ tok' = [tok EXCEPT ![p] = s]
    /\ dev' = [dev EXCEPT ![p] = d]
    /\ at' = [at EXCEPT ![p] = clock]
    /\ UNCHANGED <<clock, table, fresh, scope, reason, todo, written, seen, answer>>

\* rotate's findUnique and the branches on what it read.
Lookup(p) ==
    LET s == tok[p] IN
    /\ pc[p] = "lookup"
    /\ MayRun(p)
    /\ \/ /\ status[s] = "rotated"
          /\ pc' = [pc EXCEPT ![p] = "race"]
          /\ UNCHANGED answer
       \/ /\ status[s] = "live" /\ ~Expired(s, at[p])
          /\ pc' = [pc EXCEPT ![p] = "claim"]
          /\ UNCHANGED answer
       \/ /\ status[s] \in Reason \/ (status[s] = "live" /\ Expired(s, at[p]))
          /\ Reply(p, "401")
    /\ UNCHANGED <<clock, table, local>>

\* The token was already exchanged: a race of two tabs is answered with 409,
\* anything else starts revokeFamily(familyId, "refresh_reuse").
Race(p) ==
    /\ pc[p] = "race"
    /\ MayRun(p)
    /\ \/ /\ BenignRace(tok[p], dev[p], at[p])
          /\ Reply(p, "409")
          /\ UNCHANGED <<scope, reason>>
       \/ /\ ~BenignRace(tok[p], dev[p], at[p])
          /\ pc' = [pc EXCEPT ![p] = "scan"]
          /\ scope' = [scope EXCEPT ![p] = {family[tok[p]]}]
          /\ reason' = [reason EXCEPT ![p] = "refresh_reuse"]
          /\ UNCHANGED answer
    /\ UNCHANGED <<clock, table, tok, dev, at, fresh, todo, written, seen>>

\* Fault: the claim tests neither rotatedAt nor revokedAt.
Claim_byId(p) ==
    /\ pc[p] = "claim"
    /\ MayRun(p)
    /\ Unlocked(p, tok[p])
    /\ written' = [written EXCEPT ![p] = {tok[p]}]
    /\ pc' = [pc EXCEPT ![p] = "insert"]
    /\ UNCHANGED <<clock, table, tok, dev, at, fresh, scope, reason, todo, seen, answer>>

\* The rotation claims the row: UPDATE ... WHERE id AND rotatedAt IS NULL AND
\* revokedAt IS NULL.  A claim that matches nothing ends the transaction.
Claim(p) ==
    LET s == tok[p] IN
    /\ pc[p] = "claim"
    /\ MayRun(p)
    /\ Unlocked(p, s)
    /\ \/ /\ rotatedAt[s] = Never /\ status[s] = "live"
          /\ written' = [written EXCEPT ![p] = {s}]
          /\ pc' = [pc EXCEPT ![p] = "insert"]
       \/ /\ ~(rotatedAt[s] = Never /\ status[s] = "live")
          /\ pc' = [pc EXCEPT ![p] = "lost"]
          /\ UNCHANGED written
    /\ UNCHANGED <<clock, table, tok, dev, at, fresh, scope, reason, todo, seen, answer>>

\* issue(userId, ctx, familyId, tx): the successor's INSERT, seen by nobody
\* before the transaction commits.
Insert(p, n) ==
    /\ pc[p] = "insert"
    /\ Unused(n)
    /\ fresh' = [fresh EXCEPT ![p] = n]
    /\ family' = [family EXCEPT ![n] = family[tok[p]]]
    /\ createdAt' = [createdAt EXCEPT ![n] = clock]
    /\ device' = [device EXCEPT ![n] = dev[p]]
    /\ parent' = [parent EXCEPT ![n] = tok[p]]
    /\ pc' = [pc EXCEPT ![p] = "commit"]
    /\ UNCHANGED <<clock, status, rotatedAt, tok, dev, at, scope, reason, todo,
                   written, seen, answer>>

\* Fault: the transaction answers and is left open.
CommitRotation_open(p) ==
    /\ pc[p] = "commit"
    /\ status' = [status EXCEPT ![tok[p]] = "rotated", ![fresh[p]] = "live"]
    /\ rotatedAt' = [rotatedAt EXCEPT ![tok[p]] = at[p]]
    /\ Reply(p, "200")
    /\ UNCHANGED <<clock, family, createdAt, device, parent, tok, dev, at, fresh,
                   scope, reason, todo, written, seen>>

\* Both writes of the rotation become visible at once.
CommitRotation(p) ==
    /\ pc[p] = "commit"
    /\ status' = [status EXCEPT ![tok[p]] = "rotated", ![fresh[p]] = "live"]
    /\ rotatedAt' = [rotatedAt EXCEPT ![tok[p]] = at[p]]
    /\ written' = [written EXCEPT ![p] = {}]
    /\ Reply(p, "200")
    /\ UNCHANGED <<clock, family, createdAt, device, parent, tok, dev, at, fresh,
                   scope, reason, todo, seen>>

\* The claim failed: reread the row and answer 409 to a same-device race, 401
\* to anything else.
Lost(p) ==
    /\ pc[p] = "lost"
    /\ MayRun(p)
    /\ Reply(p, IF BenignRace(tok[p], dev[p], clock) THEN "409" ELSE "401")
    /\ UNCHANGED <<clock, table, local>>

\* POST /api/auth/logout: revokeByRefreshToken finds the row of the cookie.
SendLogout(p, s) ==
    /\ pc[p] = "idle"
    /\ MayRun(p)
    /\ Committed(s)
    /\ pc' = [pc EXCEPT ![p] = "scan"]
    /\ scope' = [scope EXCEPT ![p] = {family[s]}]
    /\ reason' = [reason EXCEPT ![p] = "logout"]
    /\ UNCHANGED <<clock, table, tok, dev, at, fresh, todo, written, seen, answer>>

\* POST /api/auth/logout-all with an access token verifyAccess accepts.
SendLogoutAll(p, s) ==
    /\ pc[p] = "idle"
    /\ MayRun(p)
    /\ Accepts(s)
    /\ pc' = [pc EXCEPT ![p] = "scan"]
    /\ scope' = [scope EXCEPT ![p] = {f \in Family : Owner[f] = Owner[family[s]]}]
    /\ reason' = [reason EXCEPT ![p] = "logout_all"]
    /\ UNCHANGED <<clock, table, tok, dev, at, fresh, todo, written, seen, answer>>

\* revokeWhere's first statement selects the live rows its snapshot holds ...
Scan(p) ==
    /\ pc[p] = "scan"
    /\ MayRun(p)
    /\ todo' = [todo EXCEPT ![p] = {s \in RowsOf(scope[p]) : status[s] = "live"}]
    /\ seen' = [seen EXCEPT ![p] = RowsOf(scope[p])]
    /\ pc' = [pc EXCEPT ![p] = "revoke"]
    /\ UNCHANGED <<clock, table, tok, dev, at, fresh, scope, reason, written, answer>>

\* ... and updates them one by one, unless they stopped matching meanwhile.
Revoke(p, s) ==
    /\ pc[p] \in {"revoke", "relabel"}
    /\ s \in todo[p]
    /\ Unlocked(p, s)
    /\ todo' = [todo EXCEPT ![p] = @ \ {s}]
    /\ written' = [written EXCEPT ![p] =
           IF status[s] = (IF pc[p] = "revoke" THEN "live" ELSE "rotated")
           THEN @ \cup {s} ELSE @]
    /\ UNCHANGED <<clock, table, pc, tok, dev, at, fresh, scope, reason, seen, answer>>

\* Fault: rotated rows are not re-labelled.
Rescan_none(p) ==
    /\ pc[p] = "revoke" /\ todo[p] = {}
    /\ pc' = [pc EXCEPT ![p] = "relabel"]
    /\ UNCHANGED <<clock, table, tok, dev, at, fresh, scope, reason, todo, written, seen, answer>>

\* The second statement, with a snapshot of its own, re-labels rotated rows.
Rescan(p) ==
    /\ pc[p] = "revoke" /\ todo[p] = {}
    /\ todo' = [todo EXCEPT ![p] = {s \in RowsOf(scope[p]) : status[s] = "rotated"}]
    /\ pc' = [pc EXCEPT ![p] = "relabel"]
    /\ UNCHANGED <<clock, table, tok, dev, at, fresh, scope, reason, written, seen, answer>>

\* The revocation commits.  A detected replay is still answered 401.
CommitRevoke(p) ==
    /\ pc[p] = "relabel" /\ todo[p] = {}
    /\ status' = [s \in Row |-> IF s \in written[p] THEN reason[p] ELSE status[s]]
    /\ written' = [written EXCEPT ![p] = {}]
    /\ Reply(p, IF reason[p] = "refresh_reuse" THEN "401" ELSE "204")
    /\ UNCHANGED <<clock, family, createdAt, rotatedAt, device, parent, tok, dev,
                   at, fresh, scope, reason, todo, seen>>

\* A transaction fails (lost connection, process crash, deadlock victim) and
\* is rolled back: the request ends with 500 or with no response at all.
Abort(p) ==
    /\ InTx(p)
    /\ family' = [s \in Row |-> IF s = fresh[p] THEN NoFamily ELSE family[s]]
    /\ createdAt' = [s \in Row |-> IF s = fresh[p] THEN 0 ELSE createdAt[s]]
    /\ device' = [s \in Row |-> IF s = fresh[p] THEN NoDevice ELSE device[s]]
    /\ parent' = [s \in Row |-> IF s = fresh[p] THEN NoRow ELSE parent[s]]
    /\ fresh' = [fresh EXCEPT ![p] = NoRow]
    /\ todo' = [todo EXCEPT ![p] = {}]
    /\ written' = [written EXCEPT ![p] = {}]
    /\ seen' = [seen EXCEPT ![p] = {}]
    /\ Reply(p, "500")
    /\ UNCHANGED <<clock, status, rotatedAt, tok, dev, at, scope, reason>>

\* The slot is free for another request; whether the response arrived or was
\* lost, the tokens it issued stay valid.
Return(p) ==
    /\ pc[p] = "done"
    /\ pc' = [pc EXCEPT ![p] = "idle"]
    /\ tok' = [tok EXCEPT ![p] = NoRow]
    /\ dev' = [dev EXCEPT ![p] = NoDevice]
    /\ at' = [at EXCEPT ![p] = 0]
    /\ fresh' = [fresh EXCEPT ![p] = NoRow]
    /\ scope' = [scope EXCEPT ![p] = {}]
    /\ reason' = [reason EXCEPT ![p] = "none"]
    /\ seen' = [seen EXCEPT ![p] = {}]
    /\ answer' = [answer EXCEPT ![p] = "none"]
    /\ UNCHANGED <<clock, table, todo, written>>

Tick == /\ clock < MaxTime
        /\ clock' = clock + 1
        /\ UNCHANGED <<table, pc, local, answer>>

-------------------------------------------------------------------------------
(* Requests that wait for each other: PostgreSQL aborts one of a cycle.    *)

\* The rows p waits for, and the transactions that hold them.
Wanted(p)   == IF pc[p] = "claim" THEN {tok[p]}
               ELSE IF pc[p] \in {"revoke", "relabel"} THEN todo[p] ELSE {}
Blockers(p) == {q \in Proc \ {p} : Wanted(p) \cap written[q] # {}}
Blocked(p)  == Wanted(p) # {} /\ \A s \in Wanted(p) : ~Unlocked(p, s)

\* Every member of a set that holds p waits for members of that set only.
Deadlocked(p) ==
    \E S \in SUBSET Proc : p \in S /\ \A q \in S : Blocked(q) /\ Blockers(q) \subseteq S

\* The bound on Row leaves a rotation no row to insert.
NoRowLeft(p) == pc[p] = "insert" /\ \A n \in Row : ~Unused(n)

\* What the server does for a request once it has arrived.
Serve(p) ==
    \/ Lookup(p) \/ Race(p) \/ Claim(p) \/ CommitRotation(p) \/ Lost(p)
    \/ \E n \in Row : Insert(p, n)
    \/ Scan(p) \/ Rescan(p) \/ CommitRevoke(p)
    \/ \E s \in Row : Revoke(p, s)
    \/ Return(p)

Next ==
    \/ \E n \in Row, f \in Family, d \in Device : SignIn(n, f, d)
    \/ \E p \in Proc, s \in Row :
          \/ SendLogout(p, s) \/ SendLogoutAll(p, s)
          \/ \E d \in Device : SendRefresh(p, s, d)
    \/ \E p \in Proc : Serve(p) \/ Abort(p)
    \/ Tick

Spec == Init /\ [][Next]_vars

\* The server keeps running every request it has accepted, PostgreSQL grants
\* row locks in the order they were asked for (so a lock that keeps becoming
\* free is eventually granted), and its deadlock detector aborts a victim.
\* NoRowLeft ends a rotation that the bound on Row leaves no row.
Fairness ==
    \A p \in Proc :
        /\ WF_vars(Lookup(p) \/ Race(p) \/ CommitRotation(p) \/ Lost(p)
                   \/ Scan(p) \/ Rescan(p) \/ CommitRevoke(p) \/ Return(p)
                   \/ (\E n \in Row : Insert(p, n))
                   \/ ((Deadlocked(p) \/ NoRowLeft(p)) /\ Abort(p)))
        /\ SF_vars(Claim(p) \/ \E s \in Row : Revoke(p, s))

FairSpec == Spec /\ Fairness

-------------------------------------------------------------------------------
(* What the service promises.                                              *)

\* A family never has two live refresh tokens, whatever races: the rotation's
\* claim and the successor's insert are one transaction (lines 165-174).
AtMostOneLive ==
    \A s, t \in Row : /\ status[s] = "live" /\ status[t] = "live"
                      /\ family[s] = family[t]
                      => s = t

\* A refresh token is exchanged at most once, so a family is a chain.
ExchangedOnce ==
    \A m, n \in Row : /\ Committed(m) /\ Committed(n)
                      /\ parent[m] = parent[n] /\ parent[m] # NoRow
                      => m = n

\* "A concurrent loser only ever observes rotated + successor exists": a row
\* that says it was rotated has a committed successor that the createdAt >=
\* rotatedAt test of isBenignRace can find (lines 165-166, 209).
RotatedHasSuccessor ==
    \A s \in Row : rotatedAt[s] # Never =>
        \E n \in Row : /\ Committed(n) /\ parent[n] = s
                       /\ family[n] = family[s]
                       /\ createdAt[n] >= rotatedAt[s]

\* A 409, which makes the browser keep its cookie and retry, is only given for
\* a token some other request has already exchanged.
ConflictHasWinner ==
    \A p \in Proc : answer[p] = "409" =>
        \E n \in Row : Committed(n) /\ parent[n] = tok[p]

\* Once a logout or a theft revocation has committed, no row that was visible
\* when it began is live or backs an access token, whichever rotations and
\* revocations it interleaved with (lines 241-248).
RevocationCoversWhatItSaw ==
    \A p \in Proc : (pc[p] = "done" /\ seen[p] # {}) =>
        \A s \in seen[p] : status[s] \in Reason /\ ~Accepts(s)

\* With a single device, no logout and every rotation still within the grace
\* period, no interleaving of tabs and retries is taken for theft (195-199).
SameBrowserRaceIsNotTheft ==
    (/\ \A d, e \in Device : d = e
     /\ Grace # 0
     /\ \A s \in Row : rotatedAt[s] # Never => clock - rotatedAt[s] <= Grace)
    => \A s \in Row : status[s] # "refresh_reuse"

\* A family without a live row stays without one: nothing but the rotation of
\* a live row adds to a family.
NoRevival ==
    \A f \in Family :
        (/\ \E s \in Row : Committed(s) /\ family[s] = f
         /\ \A s \in Row : family[s] = f => status[s] # "live")
        => \A s \in Row : family'[s] = f => status'[s] # "live"

DeadFamilyStaysDead == [][NoRevival]_vars

\* Why a row was revoked, and when it was rotated, is never rewritten: the
\* re-labelling touches rotated rows only, the claim unrevoked ones only.
NoRewrite ==
    \A s \in Row : /\ status[s] \in Reason => status'[s] = status[s]
                   /\ status[s] = "rotated" => status'[s] # "live"
                   /\ rotatedAt[s] # Never => rotatedAt'[s] = rotatedAt[s]

RevocationIsFinal == [][NoRewrite]_vars

\* "Logout: revoke the whole family the current session belongs to" (line 217).
LogoutRevokesFamily ==
    \A p \in Proc :
        (pc[p] = "done" /\ answer[p] = "204" /\ reason[p] = "logout") =>
            \A s \in RowsOf(scope[p]) : status[s] \notin {"live", "rotated"}

\* Every request is answered, also when transactions wait for each other.
Answered == \A p \in Proc : pc[p] # "idle" ~> pc[p] = "idle"

(* Why these hold: an invariant that every step preserves.                 *)

\* The table, whatever the requests do.
TableInv ==
    \A s \in Row :
        /\ Committed(s) => family[s] \in Family
        /\ status[s] \in {"absent", "live"} => rotatedAt[s] = Never
        /\ (Committed(s) /\ parent[s] # NoRow) => rotatedAt[parent[s]] # Never
        /\ Unused(s) => parent[s] = NoRow

\* A request that holds a token, and a rotation that has claimed it.
RotationInv ==
    \A p \in Proc :
        /\ pc[p] \in {"lookup", "race", "claim", "insert", "commit", "lost"} =>
              tok[p] \in Row /\ Committed(tok[p])
        /\ pc[p] \in {"insert", "commit"} =>
              written[p] = {tok[p]} /\ status[tok[p]] = "live"
        /\ pc[p] = "commit" =>
              /\ fresh[p] \in Row /\ ~Committed(fresh[p])
              /\ family[fresh[p]] = family[tok[p]]
              /\ parent[fresh[p]] = tok[p]
              /\ createdAt[fresh[p]] >= at[p]
        /\ pc[p] = "done" /\ fresh[p] # NoRow => Committed(fresh[p])
        /\ pc[p] \notin {"commit", "done"} => fresh[p] = NoRow
        /\ at[p] <= clock
        /\ answer[p] = "409" => /\ pc[p] = "done" /\ tok[p] \in Row
                                /\ rotatedAt[tok[p]] # Never

\* Open transactions: what they have written is theirs alone and still revocable.
LockInv ==
    /\ \A p \in Proc :
          /\ ~InTx(p) => written[p] = {}
          /\ \A s \in written[p] : status[s] \in {"live", "rotated"}
          /\ pc[p] \in {"scan", "revoke", "relabel"} => reason[p] \in Reason
    /\ \A p, q \in Proc : p # q =>
          /\ written[p] \cap written[q] = {}
          /\ (pc[p] = "commit" /\ pc[q] = "commit") => fresh[p] # fresh[q]

\* A revocation under way: the rows it saw are dead, or rows it still has to
\* reach, or rows it has locked.
SeenInv ==
    \A p \in Proc :
        /\ seen[p] \subseteq RowsOf(scope[p])
        /\ pc[p] \notin {"revoke", "relabel", "done"} => seen[p] = {}
        /\ \A s \in seen[p] :
              /\ status[s] = "live" =>
                    \/ pc[p] = "revoke" /\ s \in todo[p] \cup written[p]
                    \/ pc[p] = "relabel" /\ s \in written[p]
              /\ status[s] = "rotated" =>
                    \/ pc[p] = "revoke"
                    \/ pc[p] = "relabel" /\ s \in todo[p] \cup written[p]

IInv == /\ TypeOK /\ TableInv /\ RotationInv /\ LockInv /\ SeenInv
        /\ AtMostOneLive /\ ExchangedOnce /\ RotatedHasSuccessor

\* Statements and transactions implement SessionFamilies: only a commit moves a
\* token, and a row's family is known once the row is committed.
Families == INSTANCE SessionFamilies WITH
                family <- [s \in Row |-> IF Committed(s) THEN family[s] ELSE NoFamily]

ImplementsFamilies == Families!Spec
=============================================================================
