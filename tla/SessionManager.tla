---------------------------- MODULE SessionManager ----------------------------
(***************************************************************************)
(* The tabs of one browser: packages/shared/src/client/session-manager.ts  *)
(* with the query cache of apps/web/src/lib/session-cache.ts, the refresh  *)
(* cookie and the server behind it.                                        *)
(*                                                                         *)
(* Tabs share the cookie jar, a Web Lock (HasLocks; without it each tab    *)
(* has a lock of its own) and a BroadcastChannel (HasChannel), whose       *)
(* messages arrive later.  A tab handles one event at a time; an action is *)
(* one event with everything that runs before the next await: a message, a *)
(* granted lock, a response, a timer, a call of the page.  A response that *)
(* sets or clears the cookie does so when it arrives.  The server handles  *)
(* a request in one step: TokenService is about the steps inside.          *)
(*                                                                         *)
(* A refresh token, and the access token issued with it, is a row.  Rows   *)
(* are numbered in the order of issue, so that one of a higher number      *)
(* expires later, or in the same second if both are of one tick; a tab's   *)
(* expiresAt is derived from the row it holds.                             *)
(***************************************************************************)
EXTENDS Integers, FiniteSets, SequencesExt

CONSTANTS
    Tab, Call,    \* tabs, and the callers of their session managers
    Home,         \* the tab of a caller
    User, NoUser,
    Skew,         \* how long before the end of an access token to refresh
    TTL,          \* access token life
    MaxRows,      \* bound on the tokens issued
    Setting       \* the circumstances and bounds to look at, records as follows

VARIABLES env     \* the setting of a behaviour; it never changes

HasLocks    == env.locks     \* whether the browser has Web Locks
HasChannel  == env.channel   \* ... and BroadcastChannel
Prompt      == env.prompt    \* whether messages arrive before anything else happens
MayLogout   == env.logout    \* whether anybody signs out
MayFail     == env.fail      \* whether requests can fail or get lost
MayUpdate   == env.update    \* whether users change their profile
Lag         == env.lag       \* how far the device clock is behind the server's
Grace       == env.grace     \* REFRESH_RACE_GRACE_SECONDS
MaxTime     == env.time      \* bound of the clock
MaxFamilies == env.families  \* bound on the sessions, an earlier visit's included
Returning   == env.returning \* users whose cookie an earlier visit may have left

ASSUME SessionAssumption ==
    /\ Home \in [Call -> Tab] /\ Tab \cap Call = {}
    /\ NoUser \notin User
    /\ TTL \in Nat /\ Skew \in Nat /\ MaxRows \in Nat \ {0}
    /\ Setting \subseteq
         [locks : BOOLEAN, channel : BOOLEAN, prompt : BOOLEAN, logout : BOOLEAN,
          fail : BOOLEAN, update : BOOLEAN, lag : Nat, grace : Nat, time : Nat,
          rows : 1..MaxRows, families : Nat, returning : SUBSET User,
          users : SUBSET User, calls : SUBSET Call]

Never == -1
Row   == 1..MaxRows
NoRow == 0
MaybeRow == 0..MaxRows
MaybeUser == User \cup {NoUser}
Attempt == 0..2

VARIABLES
    clock,
    status, owner, root, born, rotatedAt,  \* the server's rows
    jar,        \* the refresh cookie
    line,       \* tabs (for their refresh) and callers (for a logout) that hold
                \* or wait for the lock, in the order they asked for it
    acc,        \* accessToken of each tab
    view, shown,        \* state.status and state.user of each tab
    inbox,      \* messages on their way to a tab
    cache,      \* private data in a tab's query cache: whose, and what wrote it
    held,       \* history: whose tokens a tab has held since it changed its user
    flight,     \* where the tab's in-flight refresh is
    stale,      \* its staleToken; NoRow is undefined
    attempt, carried, reply,  \* of refreshNow: attempt, cookie sent, response
    pc,         \* where each caller is
    token,      \* the access token, or for a logout the cookie, it sent
    code,       \* the response on its way to it
    kind,       \* a query, an update of the profile, or which half of a bootstrap
    dropped     \* whether its query was cancelled by a purge

server == <<status, owner, root, born, rotatedAt>>
tabs   == <<acc, view, shown, cache, held>>
net    == <<flight, stale, attempt, carried, reply>>
calls  == <<pc, token, code, kind, dropped>>
vars   == <<env, clock, server, jar, line, tabs, inbox, net, calls>>

Waits   == {"join", "rejoin"}
Message == [row : MaybeRow, user : MaybeUser]     \* NoRow: a logout message
Kind    == {"query", "update", "restore", "profile"}
Answer  == {"none", "200", "401", "409", "500"}

TypeOK ==
    /\ env \in Setting
    /\ clock \in 0..MaxTime
    /\ status \in [Row -> {"absent", "live", "rotated", "revoked"}]
    /\ owner \in [Row -> MaybeUser] /\ root \in [Row -> MaybeRow]
    /\ born \in [Row -> 0..MaxTime] /\ rotatedAt \in [Row -> 0..MaxTime \cup {Never}]
    /\ jar \in MaybeRow
    /\ line \in Seq(Tab \cup Call)
    /\ acc \in [Tab -> MaybeRow]
    /\ view \in [Tab -> {"unknown", "authenticated", "anonymous"}]
    /\ shown \in [Tab -> MaybeUser]
    /\ cache \in [Tab -> SUBSET (User \X Kind)] /\ held \in [Tab -> SUBSET MaybeUser]
    /\ inbox \in [Tab -> Seq(Message)]
    /\ flight \in [Tab -> {"none", "lock", "wire", "reply", "sleep"}]
    /\ stale \in [Tab -> MaybeRow] /\ carried \in [Tab -> MaybeRow]
    /\ attempt \in [Tab -> Attempt]
    /\ reply \in [Tab -> [code : Answer, row : MaybeRow]]
    /\ pc \in [Call -> {"idle", "send", "answer", "resend", "reanswer",
                        "signed", "lock", "logout", "bye"} \cup Waits]
    /\ token \in [Call -> MaybeRow]
    /\ code \in [Call -> Answer]
    /\ kind \in [Call -> Kind] /\ dropped \in [Call -> BOOLEAN]

NoReply == [code |-> "none", row |-> NoRow]

\* A browser that has just been opened, with or without the cookie of an
\* earlier visit.
Init ==
    /\ env \in Setting
    /\ clock = 0
    /\ \/ /\ jar = NoRow
          /\ status = [r \in Row |-> "absent"]
          /\ owner = [r \in Row |-> NoUser] /\ root = [r \in Row |-> NoRow]
       \/ \E u \in Returning :
             /\ jar = 1
             /\ status = [r \in Row |-> IF r = 1 THEN "live" ELSE "absent"]
             /\ owner = [r \in Row |-> IF r = 1 THEN u ELSE NoUser]
             /\ root = [r \in Row |-> IF r = 1 THEN 1 ELSE NoRow]
    /\ born = [r \in Row |-> 0] /\ rotatedAt = [r \in Row |-> Never]
    /\ line = <<>>
    /\ acc = [t \in Tab |-> NoRow]
    /\ view = [t \in Tab |-> "unknown"] /\ shown = [t \in Tab |-> NoUser]
    /\ inbox = [t \in Tab |-> <<>>] /\ cache = [t \in Tab |-> {}]
    /\ held = [t \in Tab |-> {}]
    /\ flight = [t \in Tab |-> "none"] /\ stale = [t \in Tab |-> NoRow]
    /\ carried = [t \in Tab |-> NoRow] /\ attempt = [t \in Tab |-> 0]
    /\ reply = [t \in Tab |-> NoReply]
    /\ pc = [c \in Call |-> "idle"] /\ token = [c \in Call |-> NoRow]
    /\ code = [c \in Call |-> "none"]
    /\ kind = [c \in Call |-> "query"] /\ dropped = [c \in Call |-> FALSE]

-------------------------------------------------------------------------------
(* The state of a tab.                                                     *)

Fresh(r) == r # NoRow /\ born[r] + TTL - Skew > clock - Lag     \* hasFreshToken

Identity(v, u) == IF v = "authenticated" THEN u ELSE NoUser

\* The owner of a token.
Owners(r) == IF r = NoRow THEN {} ELSE {owner[r]}

\* Fault: the queries in flight are not cancelled.
SetState_noCancel(t, v, u) ==
    LET purge == Identity(v, u) # Identity(view[t], shown[t]) IN
    /\ view' = [view EXCEPT ![t] = v]
    /\ shown' = [shown EXCEPT ![t] = u]
    /\ cache' = [cache EXCEPT ![t] = IF purge THEN {} ELSE @]
    /\ held' = [held EXCEPT ![t] = (IF purge THEN {} ELSE @) \cup Owners(acc'[t])]
    /\ UNCHANGED dropped

\* setState with the listener of bindQueryCacheToSession: when the identity
\* changes, private data is dropped and what is in flight marked: the answer of a
\* query so cancelled will be ignored, that of an update will not.
SetState(t, v, u) ==
    LET purge == Identity(v, u) # Identity(view[t], shown[t]) IN
    /\ view' = [view EXCEPT ![t] = v]
    /\ shown' = [shown EXCEPT ![t] = u]
    /\ cache' = [cache EXCEPT ![t] = IF purge THEN {} ELSE @]
    /\ held' = [held EXCEPT ![t] = (IF purge THEN {} ELSE @) \cup Owners(acc'[t])]
    /\ dropped' = [c \in Call |-> dropped[c] \/ (purge /\ Home[c] = t /\ pc[c] # "idle")]

SetToken(t, r, u) == acc' = [acc EXCEPT ![t] = r] /\ SetState(t, "authenticated", u)
ClearLocal(t)     == acc' = [acc EXCEPT ![t] = NoRow] /\ SetState(t, "anonymous", NoUser)

\* Fault: the other tabs are not told.
Post_nobody(t, r, u) == UNCHANGED inbox

\* channel.postMessage reaches the other tabs.
Post(t, r, u) ==
    inbox' = IF ~HasChannel THEN inbox
             ELSE [o \in Tab |-> IF o = t THEN inbox[o]
                                 ELSE Append(inbox[o], [row |-> r, user |-> u])]

(* The lock.                                                               *)

TabOf(a)     == IF a \in Tab THEN a ELSE Home[a]
Rivals(a, b) == HasLocks \/ TabOf(a) = TabOf(b)

\* Fault: the lock does not exclude.
Granted_always(a) == \E i \in DOMAIN line : line[i] = a

Granted(a)   == \E i \in DOMAIN line :
                   line[i] = a /\ \A j \in 1..(i - 1) : ~Rivals(line[j], a)
Queue(a)     == line' = Append(line, a)

\* Fault: the lock of a logout is never released.
Release_never(a) == UNCHANGED line

Release(a)   == \E i \in DOMAIN line : line[i] = a /\ line' = RemoveAt(line, i)

(* The server.                                                             *)

StatusOf(r) == IF r = NoRow THEN "absent" ELSE status[r]

Accepts(r) == r # NoRow /\ status[r] \in {"live", "rotated"} /\ clock < born[r] + TTL

\* isBenignRace, for requests that all come from one device.
Benign(r) == /\ clock - rotatedAt[r] <= Grace
             /\ \E n \in Row : /\ status[n] = "live" /\ root[n] = root[r]
                               /\ born[n] >= rotatedAt[r]

\* The next token, live from now on.
Unissued(n) == n <= env.rows /\ status[n] = "absent" /\ \A r \in Row : r < n => status[r] # "absent"

RevokeFamily(r) ==
    status' = [s \in Row |-> IF root[s] = root[r] /\ status[s] \in {"live", "rotated"}
                             THEN "revoked" ELSE status[s]]

-------------------------------------------------------------------------------
(* Signing in and out.                                                     *)

\* The code typed on a signed-out tab, which submits one at a time, is right: the
\* server starts a session ...
SignIn(c, u, n) ==
    /\ pc[c] = "idle" /\ view[Home[c]] = "anonymous"
    /\ \A d \in Call : Home[d] = Home[c] => pc[d] # "signed"
    /\ Unissued(n)
    /\ Cardinality({r \in Row : root[r] = r}) < MaxFamilies
    /\ status' = [status EXCEPT ![n] = "live"]
    /\ owner' = [owner EXCEPT ![n] = u]
    /\ root' = [root EXCEPT ![n] = n]
    /\ born' = [born EXCEPT ![n] = clock]
    /\ pc' = [pc EXCEPT ![c] = "signed"]
    /\ token' = [token EXCEPT ![c] = n]
    /\ UNCHANGED <<clock, rotatedAt, jar, line, tabs, inbox, net, code, kind, dropped>>

\* ... and the response sets the cookie; acceptSignIn takes the token and tells
\* the other tabs, without the lock and whatever the tab has become meanwhile.
AcceptSignIn(c) ==
    /\ pc[c] = "signed"
    /\ pc' = [pc EXCEPT ![c] = "idle"]
    /\ token' = [token EXCEPT ![c] = NoRow]
    /\ \/ /\ jar' = token[c]
          /\ SetToken(Home[c], token[c], owner[token[c]])
          /\ Post(Home[c], token[c], owner[token[c]])
       \/ MayFail /\ UNCHANGED <<jar, tabs, inbox, dropped>>
    /\ UNCHANGED <<clock, server, line, net, code, kind>>

\* onMessage: a token is taken if it expires in a later second than the one held.
SameTick(r, s) == r # NoRow /\ s # NoRow /\ born[r] = born[s]

Receive(t) ==
    /\ inbox[t] # <<>>
    /\ inbox' = [inbox EXCEPT ![t] = Tail(@)]
    /\ LET m == Head(inbox[t]) IN
       \/ /\ m.row > acc[t]
          /\ SetToken(t, m.row, IF m.user = NoUser THEN shown[t] ELSE m.user)
       \/ /\ m.row # NoRow /\ (m.row <= acc[t] \/ SameTick(m.row, acc[t]))
          /\ UNCHANGED <<tabs, dropped>>
       \/ m.row = NoRow /\ ClearLocal(t)
    /\ UNCHANGED <<clock, server, jar, line, net, pc, token, code, kind>>

\* logout() waits for the lock ...
StartLogout(c) ==
    /\ MayLogout
    /\ pc[c] = "idle" /\ view[Home[c]] = "authenticated"
    /\ pc' = [pc EXCEPT ![c] = "lock"]
    /\ Queue(c)
    /\ UNCHANGED <<clock, server, jar, tabs, inbox, net, token, code, kind, dropped>>

\* Fault: a logout does not wait for the lock.
SendLogout_noLock(c) ==
    /\ pc[c] = "lock"
    /\ pc' = [pc EXCEPT ![c] = "logout"]
    /\ token' = [token EXCEPT ![c] = jar]
    /\ UNCHANGED <<clock, server, jar, line, tabs, inbox, net, code, kind, dropped>>

\* ... sends the cookie ...
SendLogout(c) ==
    /\ pc[c] = "lock" /\ Granted(c)
    /\ pc' = [pc EXCEPT ![c] = "logout"]
    /\ token' = [token EXCEPT ![c] = jar]
    /\ UNCHANGED <<clock, server, jar, line, tabs, inbox, net, code, kind, dropped>>

\* ... the server revokes its family, if it gets that far ...
ServeLogout(c) ==
    /\ pc[c] = "logout"
    /\ pc' = [pc EXCEPT ![c] = "bye"]
    /\ \/ /\ code' = [code EXCEPT ![c] = "200"]
          /\ IF token[c] = NoRow THEN UNCHANGED status ELSE RevokeFamily(token[c])
       \/ MayFail /\ code' = [code EXCEPT ![c] = "500"] /\ UNCHANGED status
    /\ UNCHANGED <<clock, owner, root, born, rotatedAt, jar, line, tabs, inbox, net,
                   token, kind, dropped>>

\* ... and whatever the response was, or if none came, the tabs are signed out.
FinishLogout(c) ==
    /\ pc[c] = "bye"
    /\ \/ jar' = IF code[c] = "200" THEN NoRow ELSE jar
       \/ MayFail /\ UNCHANGED jar
    /\ ClearLocal(Home[c])
    /\ Post(Home[c], NoRow, NoUser)
    /\ pc' = [pc EXCEPT ![c] = "idle"]
    /\ token' = [token EXCEPT ![c] = NoRow]
    /\ code' = [code EXCEPT ![c] = "none"]
    /\ Release(c)
    /\ UNCHANGED <<clock, server, net, kind>>

-------------------------------------------------------------------------------
(* The refresh of a tab.                                                   *)

\* refresh(): at most one at a time in a tab; later callers join it.
StartRefresh(t, s) ==
    IF flight[t] = "none"
    THEN /\ flight' = [flight EXCEPT ![t] = "lock"]
         /\ stale' = [stale EXCEPT ![t] = s]
         /\ Queue(t)
         /\ UNCHANGED <<attempt, carried, reply>>
    ELSE UNCHANGED <<line, net>>

Joined(t)    == {c \in Call : Home[c] = t /\ pc[c] \in Waits}
Restoring(t) == {c \in Joined(t) : kind[c] = "restore"}

\* The refresh of a tab ends and releases the lock: everyone who joined it goes
\* on with the token r, or gives up.  A bootstrap that has its token asks for
\* the user, which takes a refresh of its own if the token is about to expire.
Finish(t, r) ==
    LET again == IF r = NoRow \/ Fresh(r) THEN {} ELSE Restoring(t)
        go    == Joined(t) \ again
    IN /\ pc' = [c \in Call |->
              IF c \notin go THEN pc[c] ELSE IF r = NoRow THEN "idle"
              ELSE IF pc[c] = "join" THEN "send" ELSE "resend"]
       /\ token' = [c \in Call |-> IF c \in go THEN r ELSE token[c]]
       /\ kind' = [c \in Call |->
              IF c \in Joined(t) /\ r = NoRow THEN "query"
              ELSE IF c \in Restoring(t) THEN "profile" ELSE kind[c]]
       /\ flight' = [flight EXCEPT ![t] = IF again = {} THEN "none" ELSE "lock"]
       /\ \E i \in DOMAIN line :
             /\ line[i] = t
             /\ line' = RemoveAt(line, i) \o (IF again = {} THEN <<>> ELSE <<t>>)
       /\ stale' = [stale EXCEPT ![t] = NoRow]
       /\ attempt' = [attempt EXCEPT ![t] = 0]
       /\ carried' = [carried EXCEPT ![t] = NoRow]
       /\ reply' = [reply EXCEPT ![t] = NoReply]
       /\ UNCHANGED code

\* With the lock, a tab that has been given another token meanwhile takes it ...
Replaced(t) == IF stale[t] = NoRow THEN Fresh(acc[t])
               ELSE acc[t] # NoRow /\ acc[t] # stale[t]

TakeFresh(t) ==
    /\ flight[t] = "lock" /\ Granted(t) /\ Replaced(t)
    /\ Finish(t, acc[t])
    /\ UNCHANGED <<clock, server, jar, tabs, inbox, dropped>>

\* ... and any other sends the cookie the browser has now.
SendRefresh(t) ==
    /\ flight[t] = "lock" /\ Granted(t) /\ ~Replaced(t)
    /\ flight' = [flight EXCEPT ![t] = "wire"]
    /\ carried' = [carried EXCEPT ![t] = jar]
    /\ UNCHANGED <<clock, server, jar, line, tabs, inbox, stale, attempt, reply, calls>>

\* The server exchanges the token ...
ServeRefresh(t, n) ==
    /\ flight[t] = "wire"
    /\ LET r == carried[t] IN
       /\ StatusOf(r) = "live"
       /\ Unissued(n)
       /\ status' = [status EXCEPT ![r] = "rotated", ![n] = "live"]
       /\ rotatedAt' = [rotatedAt EXCEPT ![r] = clock]
       /\ owner' = [owner EXCEPT ![n] = owner[r]]
       /\ root' = [root EXCEPT ![n] = root[r]]
       /\ born' = [born EXCEPT ![n] = clock]
    /\ \/ reply' = [reply EXCEPT ![t] = [code |-> "200", row |-> n]]
       \/ MayFail /\ reply' = [reply EXCEPT ![t].code = "500"]     \* the audit fails
    /\ flight' = [flight EXCEPT ![t] = "reply"]
    /\ UNCHANGED <<clock, jar, line, tabs, inbox, stale, attempt, carried, calls>>

\* ... or refuses it, revoking its family if it looks stolen, or fails.
Refusal(r) ==
    IF StatusOf(r) = "rotated" /\ Benign(r) THEN "409" ELSE "401"

RefuseRefresh(t) ==
    /\ flight[t] = "wire"
    /\ LET r == carried[t] IN
       \/ /\ StatusOf(r) # "live"
          /\ \E answer \in {Refusal(r)} \cup (IF MayFail THEN {"500"} ELSE {}) :
                reply' = [reply EXCEPT ![t].code = answer]
          /\ IF StatusOf(r) = "rotated" /\ Refusal(r) = "401"
             THEN RevokeFamily(r) ELSE UNCHANGED status
       \/ /\ MayFail
          /\ reply' = [reply EXCEPT ![t].code = "500"]
          /\ UNCHANGED status
    /\ flight' = [flight EXCEPT ![t] = "reply"]
    /\ UNCHANGED <<clock, owner, root, born, rotatedAt, jar, line, tabs, inbox,
                   stale, attempt, carried, calls>>

\* The response arrives.  A 200 sets the cookie; the user shown stays the same.
Renewed(t) ==
    /\ flight[t] = "reply" /\ reply[t].code = "200"
    /\ jar' = reply[t].row
    /\ SetToken(t, reply[t].row, shown[t])
    /\ Post(t, reply[t].row, shown[t])
    /\ Finish(t, reply[t].row)
    /\ UNCHANGED <<clock, server>>

\* Fault: a 409 clears the cookie as other errors do.
Sleep_clearsCookie(t) ==
    /\ flight[t] = "reply" /\ reply[t].code = "409" /\ attempt[t] < 2
    /\ flight' = [flight EXCEPT ![t] = "sleep"]
    /\ reply' = [reply EXCEPT ![t] = NoReply]
    /\ jar' = NoRow
    /\ UNCHANGED <<clock, server, line, tabs, inbox, stale, attempt, carried, calls>>

\* A 409: sleep, and try again if no token has come meanwhile.
Sleep(t) ==
    /\ flight[t] = "reply" /\ reply[t].code = "409" /\ attempt[t] < 2
    /\ flight' = [flight EXCEPT ![t] = "sleep"]
    /\ reply' = [reply EXCEPT ![t] = NoReply]
    /\ UNCHANGED <<clock, server, jar, line, tabs, inbox, stale, attempt, carried, calls>>

Wake(t) ==
    /\ flight[t] = "sleep"
    /\ \/ /\ Fresh(acc[t])
          /\ Finish(t, acc[t])
       \/ /\ ~Fresh(acc[t])
          /\ flight' = [flight EXCEPT ![t] = "wire"]
          /\ attempt' = [attempt EXCEPT ![t] = @ + 1]
          /\ carried' = [carried EXCEPT ![t] = jar]
          /\ UNCHANGED <<line, stale, reply, pc, token, code, kind>>
    /\ UNCHANGED <<clock, server, jar, tabs, inbox, dropped>>

\* The error responses that clear the cookie: all but 409, if one was sent.
JarAfter(t) == IF carried[t] # NoRow /\ reply[t].code \in {"401", "500"} THEN NoRow ELSE jar

\* A 401: every tab is signed out.
Refused(t) ==
    /\ flight[t] = "reply" /\ reply[t].code = "401"
    /\ jar' = JarAfter(t)
    /\ ClearLocal(t)
    /\ Post(t, NoRow, NoUser)
    /\ Finish(t, NoRow)
    /\ UNCHANGED <<clock, server>>

\* Any other error, the third 409 or a lost response: the callers get an error,
\* which makes a bootstrap sign this tab out.
Failed(t) ==
    /\ flight[t] = "reply"
    /\ \/ reply[t].code = "500" /\ jar' = JarAfter(t)
       \/ reply[t].code = "409" /\ attempt[t] = 2 /\ UNCHANGED jar
       \/ MayFail /\ UNCHANGED jar
    /\ IF Restoring(t) # {} THEN ClearLocal(t) ELSE UNCHANGED <<tabs, dropped>>
    /\ Finish(t, NoRow)
    /\ UNCHANGED <<clock, server, inbox>>

-------------------------------------------------------------------------------
(* The requests of a page.                                                 *)

\* A page of a signed-in user makes a request; the first thing a new page does
\* is a bootstrap, once.
Start(c) ==
    LET t == Home[c] IN
    /\ pc[c] = "idle"
    /\ \/ /\ view[t] = "authenticated"
          /\ \E k \in {"query"} \cup (IF MayUpdate THEN {"update"} ELSE {}) :
                kind' = [kind EXCEPT ![c] = k]
       \/ /\ view[t] = "unknown" /\ \A d \in Call : Home[d] = t => kind[d] = "query"
          /\ kind' = [kind EXCEPT ![c] = "restore"]
    /\ IF Fresh(acc[t])
       THEN /\ pc' = [pc EXCEPT ![c] = "send"]
            /\ token' = [token EXCEPT ![c] = acc[t]]
            /\ UNCHANGED <<line, net>>
       ELSE /\ pc' = [pc EXCEPT ![c] = "join"]
            /\ StartRefresh(t, NoRow)
            /\ UNCHANGED token
    /\ dropped' = [dropped EXCEPT ![c] = FALSE]
    /\ UNCHANGED <<clock, server, jar, tabs, inbox, code>>

Serve(c) ==
    /\ pc[c] \in {"send", "resend"}
    /\ pc' = [pc EXCEPT ![c] = IF @ = "send" THEN "answer" ELSE "reanswer"]
    /\ \/ code' = [code EXCEPT ![c] = IF Accepts(token[c]) THEN "200" ELSE "401"]
       \/ MayFail /\ code' = [code EXCEPT ![c] = "500"]
    /\ UNCHANGED <<clock, server, jar, line, tabs, inbox, net, token, kind, dropped>>

\* The end of a request.
EndCall(c) ==
    /\ pc' = [pc EXCEPT ![c] = "idle"]
    /\ token' = [token EXCEPT ![c] = NoRow]
    /\ code' = [code EXCEPT ![c] = "none"]
    /\ kind' = [kind EXCEPT ![c] = "query"]

\* The user's data arrives: a bootstrap shows the user, a query caches it unless it
\* has been cancelled, and useUpdateMe whatever has happened (onSuccess).
Answered(c) ==
    LET t == Home[c]
        u == owner[token[c]]
    IN /\ pc[c] \in {"answer", "reanswer"} /\ code[c] = "200"
       /\ IF kind[c] = "profile"
          THEN UNCHANGED acc /\ SetState(t, "authenticated", u)
          ELSE /\ cache' = [cache EXCEPT ![t] = IF kind[c] # "update" /\ dropped[c] THEN @
                                               ELSE @ \cup {<<u, kind[c]>>}]
               /\ UNCHANGED <<acc, view, shown, held, dropped>>
       /\ EndCall(c)
       /\ UNCHANGED <<clock, server, jar, line, inbox, net>>

\* The first 401: refresh, unless the token has been replaced.
Rejected(c) ==
    /\ pc[c] = "answer" /\ code[c] = "401"
    /\ pc' = [pc EXCEPT ![c] = "rejoin"]
    /\ code' = [code EXCEPT ![c] = "none"]
    /\ StartRefresh(Home[c], token[c])
    /\ UNCHANGED <<clock, server, jar, tabs, inbox, token, kind, dropped>>

\* The second 401 signs this tab out; any other error only ends the request.
GaveUp(c) ==
    /\ \/ pc[c] = "reanswer" /\ code[c] = "401" /\ ClearLocal(Home[c])
       \/ /\ pc[c] \in {"answer", "reanswer"} /\ code[c] = "500"
          /\ UNCHANGED <<tabs, dropped>>
    /\ EndCall(c)
    /\ UNCHANGED <<clock, server, jar, line, inbox, net>>

Tick ==
    /\ clock < MaxTime
    /\ clock' = clock + 1
    /\ UNCHANGED <<server, jar, line, tabs, inbox, net, calls>>

Settled == Prompt => \A t \in Tab : inbox[t] = <<>>

RefreshStep(t) ==
    /\ Settled
    /\ \/ TakeFresh(t) \/ SendRefresh(t) \/ RefuseRefresh(t)
       \/ Renewed(t) \/ Sleep(t) \/ Wake(t) \/ Refused(t) \/ Failed(t)
       \/ \E n \in Row : ServeRefresh(t, n)

CallStep(c) ==
    /\ Settled
    /\ \/ AcceptSignIn(c) \/ SendLogout(c) \/ ServeLogout(c) \/ FinishLogout(c)
       \/ Serve(c) \/ Answered(c) \/ Rejected(c) \/ GaveUp(c)

Next ==
    /\ UNCHANGED env
    /\ \/ \E t \in Tab : RefreshStep(t) \/ Receive(t)
       \/ \E c \in Call : CallStep(c)
       \/ /\ Settled
          /\ \/ \E c \in env.calls : \/ Start(c) \/ StartLogout(c)
                                   \/ \E u \in env.users, n \in Row : SignIn(c, u, n)
             \/ Tick

Spec == Init /\ [][Next]_vars

\* Locks are granted, the server answers, messages arrive and timers fire; nobody
\* has to sign in or out or to use a page.
FairSpec ==
    /\ Spec
    /\ \A t \in Tab : /\ WF_vars(RefreshStep(t) /\ UNCHANGED env)
                     /\ WF_vars(Receive(t) /\ UNCHANGED env)
    /\ \A c \in Call : WF_vars(CallStep(c) /\ UNCHANGED env)

-------------------------------------------------------------------------------
(* Properties.                                                             *)

\* With locks, and as long as no response is lost, the tabs never send a token
\* that has been exchanged: nothing the server could take for theft.
NothingReplayed == (HasLocks /\ ~MayFail) =>
    \A t \in Tab : flight[t] = "wire" => StatusOf(carried[t]) # "rotated"

\* With locks, a cookie that is gone comes back with a sign-in only, however late
\* a refresh is answered.
CookieComesBackBySignIn ==
    [][HasLocks /\ jar = NoRow /\ jar' # NoRow => root'[jar'] = jar']_vars

\* Without locks, and however the tabs race, refreshes alone never revoke the
\* session of a browser that is quicker than the grace period, nor lose its cookie.
RacesKeepTheSession ==
    [][(~MayLogout /\ ~MayFail /\ MaxTime <= Grace) =>
          /\ jar # NoRow => jar' # NoRow
          /\ \A r \in Row : status'[r] # "revoked"]_vars

Quiet == /\ \A t \in Tab : inbox[t] = <<>> /\ flight[t] = "none"
         /\ \A c \in Call : pc[c] = "idle"

\* With locks and prompt messages to the other tabs, and a user who does not sign in
\* twice, once nothing is on its way a tab that holds a token holds one of the session
\* of the cookie, not revoked.
QuietTokensAgree ==
    (HasLocks /\ HasChannel /\ Prompt /\ ~MayFail /\ MaxFamilies = 1 /\ Quiet) =>
        \A t \in Tab : acc[t] # NoRow =>
            status[acc[t]] # "revoked" /\ jar # NoRow /\ root[jar] = root[acc[t]]

\* However late answers come and whoever signs in where, what queries have cached in a
\* tab is data of the users whose tokens it has held since it last changed the user it
\* shows: of hers alone, if the tokens were all hers.
QueriesOfItsTokens ==
    \A t \in Tab : \A u \in User : <<u, "query">> \in cache[t] => u \in held[t]

\* session-cache.ts: one user's data can never be shown to the next.
OneUsersData ==
    \A t \in Tab : shown[t] # NoUser => \A x \in cache[t] : x[1] = shown[t]

\* Every request, bootstrap and logout ends.
CallsEnd == \A c \in Call : pc[c] # "idle" ~> pc[c] = "idle"
=============================================================================
