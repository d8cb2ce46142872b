-------------------------- MODULE SessionManagerProofs --------------------------
(***************************************************************************)
(* Proofs about the tabs of a browser.                                     *)
(*                                                                         *)
(* With Web Locks at most one refresh or logout is between its grant and   *)
(* its end (LockInv), and everything else that is known of the cookie      *)
(* rests on it: that it is an exchanged token only while the response of   *)
(* the exchange is on its way (ExchangeInv), that it is not gone while it  *)
(* is being exchanged (CookieInv), and what has become of a session that   *)
(* is not there yet (Before), alive, or over (AgreeInv).                   *)
(*                                                                         *)
(* What the queries of a tab have cached (HeldInv) is of users whose       *)
(* tokens it has held since it changed its user.                           *)
(***************************************************************************)
EXTENDS SessionManager, FiniteSetTheorems, SequenceTheorems, TLAPS

Issued(r) == r \in Row /\ status[r] # "absent"

\* What the server keeps of the tokens it has issued.
RowInv ==
    \A r \in Row :
        /\ born[r] <= clock /\ rotatedAt[r] <= clock
        /\ status[r] = "absent" => root[r] = NoRow
        /\ status[r] # "absent" => owner[r] \in User /\ Issued(root[r]) /\ root[root[r]] = root[r]
        /\ status[r] = "rotated" => rotatedAt[r] # Never

\* A token that is in the cookie jar, in a tab, in a message or in a response.
Holds(r) ==
    \/ jar = r
    \/ \E t \in Tab :
          \/ acc[t] = r \/ carried[t] = r \/ reply[t].row = r
          \/ \E i \in DOMAIN inbox[t] : inbox[t][i].row = r

\* Nobody holds a token that was not issued.
RefInv == \A r \in Row : Holds(r) \/ (\E c \in Call : token[c] = r) => Issued(r)

\* Refreshes and requests one by one.
FlightInv ==
    /\ \A t \in Tab :
          /\ carried[t] # NoRow => flight[t] \in {"wire", "reply", "sleep"}
          /\ flight[t] # "reply" => reply[t] = NoReply
          /\ flight[t] = "reply" => reply[t].code # "none"
          /\ flight[t] = "sleep" => attempt[t] < 2
          /\ reply[t].code = "200" => carried[t] # NoRow /\ reply[t].row # NoRow
          /\ ~MayFail => reply[t].code # "500"
    /\ \A c \in Call :
          /\ pc[c] \in {"answer", "reanswer"} /\ code[c] = "200" => token[c] # NoRow
          /\ ~MayFail /\ pc[c] = "bye" => code[c] = "200"

\* The token of a sign-in whose response is on its way is known to nobody else, and
\* alone in its family.
Private(r) ==
    /\ Issued(r) /\ status[r] = "live" /\ root[r] = r /\ ~Holds(r)
    /\ \A s \in Row : root[s] = r => s = r

SignedInv ==
    \A c \in Call : pc[c] = "signed" =>
        Private(token[c]) /\ \A d \in Call \ {c} : token[d] # token[c]

\* Who has been granted the lock and has not released it.
Holding ==
    {t \in Tab : flight[t] \in {"wire", "reply", "sleep"}}
    \cup {c \in Call : pc[c] \in {"logout", "bye"}}

LockInv == HasLocks => \A a \in Holding : line # <<>> /\ Head(line) = a

\* A cookie is not gone while it is being exchanged.
CookieInv ==
    HasLocks => \A t \in Tab : flight[t] \in {"wire", "reply"} /\ carried[t] # NoRow => jar # NoRow

\* A cookie is exchanged only while the response is on its way, and no other is sent.
ExchangeInv ==
    (HasLocks /\ ~MayFail) =>
        /\ \A t \in Tab : flight[t] = "wire" => StatusOf(carried[t]) # "rotated"
        /\ StatusOf(jar) = "rotated" => \E t \in Tab : reply[t].code = "200"
        /\ \A t \in Tab : reply[t].code = "200" => status[reply[t].row] # "rotated"

\* Tabs that nobody signs out, quicker than the grace period.
Quick == ~MayLogout /\ ~MayFail /\ MaxTime <= Grace

QuickInv ==
    Quick =>
        /\ \A c \in Call : pc[c] \notin {"lock", "logout", "bye"}
        /\ \A r \in Row : status[r] # "revoked"
        /\ \A r \in Row : status[r] = "rotated" =>
              \E n \in Row : status[n] = "live" /\ root[n] = root[r] /\ born[n] >= rotatedAt[r]
        /\ \A t \in Tab : reply[t].code = "401" => carried[t] = NoRow

\* No session has been heard of: each is on its way to the tab that signed in.
Before == \A r \in Row : Issued(r) => \E c \in Call : pc[c] = "signed" /\ token[c] = r

BeforeInv ==
    Before =>
        /\ jar = NoRow
        /\ \A t \in Tab :
              /\ acc[t] = NoRow /\ view[t] # "authenticated" /\ carried[t] = NoRow
              /\ \A i \in DOMAIN inbox[t] : inbox[t][i].row = NoRow
        /\ \A c \in Call : pc[c] \in {"idle", "join", "signed"}

\* One session, and tabs that hear of each other before anything else happens.
Orderly == HasLocks /\ HasChannel /\ Prompt /\ ~MayFail /\ MaxFamilies = 1

\* A session that is over is over for every tab that has read its messages; one that has
\* the cookie is revoked by a logout that is going to remove it.
AgreeInv ==
    Orderly =>
        /\ \A r, s \in Row : Issued(r) /\ Issued(s) => root[r] = root[s]
        /\ ~Before /\ jar = NoRow =>
              \A t \in Tab :
                  /\ acc[t] = NoRow \/ inbox[t] # <<>>
                  /\ \A i \in DOMAIN inbox[t] : inbox[t][i].row = NoRow
        /\ (jar # NoRow /\ \E r \in Row : status[r] = "revoked") =>
              \E c \in Call : pc[c] = "bye"
        /\ \A t \in Tab : reply[t].code = "401" => carried[t] = NoRow

IInv == RowInv /\ RefInv /\ FlightInv /\ SignedInv /\ LockInv /\ CookieInv /\ ExchangeInv
        /\ QuickInv /\ BeforeInv /\ AgreeInv

-------------------------------------------------------------------------------
(* What the parts of a step do.                                            *)

\* What a caller can be at once.
CallPc == {"idle", "send", "answer", "resend", "reanswer", "signed", "lock", "logout", "bye"} \cup Waits

LEMMA SettingType ==
    ASSUME TypeOK
    PROVE  /\ env.locks \in BOOLEAN /\ env.channel \in BOOLEAN /\ env.prompt \in BOOLEAN
           /\ env.logout \in BOOLEAN /\ env.fail \in BOOLEAN
           /\ env.lag \in Nat /\ env.grace \in Nat /\ env.time \in Nat /\ env.rows \in 1..MaxRows
           /\ env.families \in Nat /\ env.returning \subseteq User /\ env.users \subseteq User
           /\ env.calls \subseteq Call
           /\ MaxRows \in Nat \ {0} /\ TTL \in Nat /\ Skew \in Nat
           /\ Home \in [Call -> Tab] /\ Tab \cap Call = {} /\ NoUser \notin User
  BY SessionAssumption DEF TypeOK

LEMMA SetStateType ==
    ASSUME TypeOK, NEW t \in Tab, NEW v \in {"unknown", "authenticated", "anonymous"},
           NEW u \in MaybeUser, SetState(t, v, u), acc' \in [Tab -> MaybeRow]
    PROVE  /\ view' \in [Tab -> {"unknown", "authenticated", "anonymous"}]
           /\ shown' \in [Tab -> MaybeUser] /\ cache' \in [Tab -> SUBSET (User \X Kind)]
           /\ held' \in [Tab -> SUBSET MaybeUser] /\ dropped' \in [Call -> BOOLEAN]
           /\ view' = [view EXCEPT ![t] = v]
<1>1. cache' \in [Tab -> SUBSET (User \X Kind)]
  BY DEF TypeOK, SetState
<1>2. dropped' \in [Call -> BOOLEAN]
  BY DEF TypeOK, SetState
<1>3. held' \in [Tab -> SUBSET MaybeUser]
  <2> DEFINE purge == Identity(v, u) # Identity(view[t], shown[t])
  <2>1. Owners(acc'[t]) \in SUBSET MaybeUser
    BY SettingType DEF TypeOK, Owners, MaybeRow, NoRow, Row
  <2>2. held' = [held EXCEPT ![t] = (IF purge THEN {} ELSE @) \cup Owners(acc'[t])]
    BY DEF SetState
  <2> HIDE DEF purge
  <2> QED
    BY <2>1, <2>2 DEF TypeOK
<1> QED
  BY <1>1, <1>2, <1>3 DEF TypeOK, SetState

LEMMA PostType ==
    ASSUME TypeOK, NEW t \in Tab, NEW r \in MaybeRow, NEW u \in MaybeUser, Post(t, r, u)
    PROVE  /\ inbox' \in [Tab -> Seq(Message)]
           /\ \A o \in Tab : \/ inbox'[o] = inbox[o]
                             \/ HasChannel /\ o # t /\ inbox'[o] = Append(inbox[o], [row |-> r, user |-> u])
           /\ HasChannel => \A o \in Tab \ {t} : inbox'[o] = Append(inbox[o], [row |-> r, user |-> u])
           /\ inbox'[t] = inbox[t]
<1> DEFINE m == [row |-> r, user |-> u]
<1>1. m \in Message
  BY DEF Message
<1>2. inbox \in [Tab -> Seq(Message)]
  BY DEF TypeOK
<1> HIDE DEF m
<1>3. \A o \in Tab : Append(inbox[o], m) \in Seq(Message)
  BY <1>1, <1>2
<1>4. inbox' = IF ~HasChannel THEN inbox
               ELSE [o \in Tab |-> IF o = t THEN inbox[o] ELSE Append(inbox[o], m)]
  BY DEF Post, m
<1>5. inbox' \in [Tab -> Seq(Message)]
  BY <1>2, <1>3, <1>4
<1>6. /\ \A o \in Tab : inbox'[o] = inbox[o] \/ (HasChannel /\ o # t /\ inbox'[o] = Append(inbox[o], m))
      /\ HasChannel => \A o \in Tab \ {t} : inbox'[o] = Append(inbox[o], m)
      /\ inbox'[t] = inbox[t]
  BY <1>2, <1>4
<1> QED
  BY <1>5, <1>6 DEF m

LEMMA RemoveType ==
    ASSUME NEW S, NEW s \in Seq(S), NEW i \in DOMAIN s
    PROVE  RemoveAt(s, i) \in Seq(S)
<1>1. SubSeq(s, 1, i - 1) \in Seq(S) /\ SubSeq(s, i + 1, Len(s)) \in Seq(S)
  OBVIOUS
<1> QED
  BY <1>1 DEF RemoveAt

LEMMA ReleaseType ==
    ASSUME TypeOK, NEW a, Release(a)
    PROVE  line' \in Seq(Tab \cup Call)
  BY RemoveType DEF TypeOK, Release

LEMMA AppendType ==
    ASSUME NEW S, NEW s \in Seq(S), NEW e \in S
    PROVE  /\ Append(s, e) \in Seq(S) /\ Append(s, e) # <<>>
           /\ s # <<>> => Head(Append(s, e)) = Head(s)
           /\ \A i \in DOMAIN Append(s, e) : (i \in DOMAIN s /\ Append(s, e)[i] = s[i]) \/ Append(s, e)[i] = e
<1>1. /\ Append(s, e) \in Seq(S) /\ Append(s, e) # <<>>
      /\ Head(Append(s, e)) = IF s = <<>> THEN e ELSE Head(s)
  BY AppendProperties
<1>2. /\ Len(Append(s, e)) = Len(s) + 1 /\ Append(s, e)[Len(s) + 1] = e
      /\ \A i \in 1..Len(s) : Append(s, e)[i] = s[i]
  BY AppendProperties
<1>3. /\ DOMAIN s = 1..Len(s) /\ DOMAIN Append(s, e) = 1..(Len(s) + 1) /\ Len(s) \in Nat
  BY <1>1, <1>2, LenProperties
<1>4. \A i \in 1..(Len(s) + 1) : i \in 1..Len(s) \/ i = Len(s) + 1
  BY <1>3
<1> QED
  BY <1>1, <1>2, <1>3, <1>4

LEMMA QueueType ==
    ASSUME TypeOK, NEW a \in Tab \cup Call, Queue(a)
    PROVE  line' \in Seq(Tab \cup Call) /\ line' # <<>> /\ (line # <<>> => Head(line') = Head(line))
<1>1. line \in Seq(Tab \cup Call)
  BY DEF TypeOK
<1> QED
  BY <1>1, AppendType DEF Queue

LEMMA FreshIsToken == \A r : Fresh(r) => r # NoRow
  BY DEF Fresh

\* The refresh of tab t ends with the token r.
FinishEffect(t, r) ==
    /\ flight' = [flight EXCEPT ![t] = flight'[t]] /\ flight'[t] \in {"none", "lock"}
    /\ stale' = [stale EXCEPT ![t] = NoRow] /\ attempt' = [attempt EXCEPT ![t] = 0]
    /\ carried' = [carried EXCEPT ![t] = NoRow] /\ reply' = [reply EXCEPT ![t] = NoReply]
    /\ line' \in Seq(Tab \cup Call) /\ code' = code
    /\ pc' \in [Call -> CallPc] /\ token' \in [Call -> MaybeRow]
    /\ kind' \in [Call -> Kind]
    /\ \A c \in Call :
          \/ pc'[c] = pc[c] /\ token'[c] = token[c]
          \/ /\ pc[c] \in Waits /\ token'[c] = r
             /\ \/ r = NoRow /\ pc'[c] = "idle"
                \/ r # NoRow /\ pc'[c] \in {"send", "resend"}

LEMMA FinishShape ==
    ASSUME TypeOK, NEW t \in Tab, NEW r \in MaybeRow, Finish(t, r)
    PROVE  FinishEffect(t, r)
<1> DEFINE again == IF r = NoRow \/ Fresh(r) THEN {} ELSE Restoring(t)
           go == Joined(t) \ again
<1>1. \A c \in Joined(t) : pc[c] \in Waits
  BY DEF Joined
<1>2. /\ pc \in [Call -> CallPc] /\ token \in [Call -> MaybeRow]
      /\ kind \in [Call -> Kind] /\ line \in Seq(Tab \cup Call)
      /\ flight \in [Tab -> {"none", "lock", "wire", "reply", "sleep"}]
  BY DEF TypeOK, CallPc
<1>3. /\ pc' = [c \in Call |->
              IF c \notin go THEN pc[c] ELSE IF r = NoRow THEN "idle"
              ELSE IF pc[c] = "join" THEN "send" ELSE "resend"]
      /\ token' = [c \in Call |-> IF c \in go THEN r ELSE token[c]]
      /\ kind' = [c \in Call |->
              IF c \in Joined(t) /\ r = NoRow THEN "query"
              ELSE IF c \in Restoring(t) THEN "profile" ELSE kind[c]]
      /\ flight' = [flight EXCEPT ![t] = IF again = {} THEN "none" ELSE "lock"]
      /\ \E i \in DOMAIN line :
             line[i] = t /\ line' = RemoveAt(line, i) \o (IF again = {} THEN <<>> ELSE <<t>>)
  BY DEF Finish
<1> HIDE DEF again
<1>4. pc' \in [Call -> CallPc] /\ token' \in [Call -> MaybeRow]
  BY <1>2, <1>3 DEF CallPc
<1>5. kind' \in [Call -> Kind]
  BY <1>2, <1>3 DEF Kind
<1>6. line' \in Seq(Tab \cup Call)
  <2>1. PICK i \in DOMAIN line :
             line[i] = t /\ line' = RemoveAt(line, i) \o (IF again = {} THEN <<>> ELSE <<t>>)
    BY <1>3
  <2>2. RemoveAt(line, i) \in Seq(Tab \cup Call)
    BY <1>2, RemoveType
  <2>3. <<t>> \in Seq(Tab \cup Call) /\ <<>> \in Seq(Tab \cup Call)
    OBVIOUS
  <2> QED
    BY <2>1, <2>2, <2>3, ConcatProperties
<1>7. \A c \in Call :
          \/ pc'[c] = pc[c] /\ token'[c] = token[c]
          \/ /\ pc[c] \in Waits /\ token'[c] = r
             /\ \/ r = NoRow /\ pc'[c] = "idle"
                \/ r # NoRow /\ pc'[c] \in {"send", "resend"}
  BY <1>1, <1>3
<1>8. flight' = [flight EXCEPT ![t] = flight'[t]] /\ flight'[t] \in {"none", "lock"}
  BY <1>2, <1>3
<1> QED
  BY <1>4, <1>5, <1>6, <1>7, <1>8 DEF Finish, FinishEffect

-------------------------------------------------------------------------------
(* Types.                                                                  *)

LEMMA InitTypeOK == Init => TypeOK
<1> SUFFICES ASSUME Init PROVE TypeOK
  OBVIOUS
<1>1. MaxRows \in Nat \ {0} /\ env \in Setting /\ Setting \subseteq
         [locks : BOOLEAN, channel : BOOLEAN, prompt : BOOLEAN, logout : BOOLEAN,
          fail : BOOLEAN, update : BOOLEAN, lag : Nat, grace : Nat, time : Nat,
          rows : 1..MaxRows, families : Nat, returning : SUBSET User,
          users : SUBSET User, calls : SUBSET Call]
  BY SessionAssumption DEF Init
<1>2. env.time \in Nat /\ env.returning \subseteq User
  BY <1>1
<1>3. /\ status \in [Row -> {"absent", "live", "rotated", "revoked"}]
      /\ owner \in [Row -> MaybeUser] /\ root \in [Row -> MaybeRow] /\ jar \in MaybeRow
  <2>1. 1 \in MaybeRow /\ 0 \in MaybeRow
    BY <1>1 DEF MaybeRow
  <2>2. CASE /\ jar = NoRow
             /\ status = [r \in Row |-> "absent"]
             /\ owner = [r \in Row |-> NoUser] /\ root = [r \in Row |-> NoRow]
    BY <2>1, <2>2 DEF MaybeUser, NoRow
  <2>3. CASE \E u \in Returning :
             /\ jar = 1
             /\ status = [r \in Row |-> IF r = 1 THEN "live" ELSE "absent"]
             /\ owner = [r \in Row |-> IF r = 1 THEN u ELSE NoUser]
             /\ root = [r \in Row |-> IF r = 1 THEN 1 ELSE NoRow]
    BY <1>2, <2>1, <2>3 DEF MaybeUser, NoRow, Returning
  <2> QED
    BY <2>2, <2>3 DEF Init
<1>4. /\ born \in [Row -> 0..MaxTime] /\ rotatedAt \in [Row -> 0..MaxTime \cup {Never}]
      /\ clock \in 0..MaxTime
  <2>1. clock = 0 /\ born = [r \in Row |-> 0] /\ rotatedAt = [r \in Row |-> Never]
    BY DEF Init
  <2>2. 0 \in 0..MaxTime
    BY <1>2 DEF MaxTime
  <2> QED
    BY <2>1, <2>2
<1>5. /\ line \in Seq(Tab \cup Call) /\ inbox \in [Tab -> Seq(Message)]
  BY EmptySeq DEF Init
<1>6. /\ acc \in [Tab -> MaybeRow] /\ carried \in [Tab -> MaybeRow] /\ stale \in [Tab -> MaybeRow]
      /\ token \in [Call -> MaybeRow] /\ reply \in [Tab -> [code : Answer, row : MaybeRow]]
  BY <1>1 DEF Init, MaybeRow, NoRow, NoReply, Answer
<1>7. /\ view \in [Tab -> {"unknown", "authenticated", "anonymous"}]
      /\ shown \in [Tab -> MaybeUser] /\ cache \in [Tab -> SUBSET (User \X Kind)]
      /\ held \in [Tab -> SUBSET MaybeUser]
      /\ flight \in [Tab -> {"none", "lock", "wire", "reply", "sleep"}]
      /\ attempt \in [Tab -> Attempt]
  BY DEF Init, MaybeUser, Attempt
<1>8. /\ pc \in [Call -> CallPc] /\ code \in [Call -> Answer]
      /\ kind \in [Call -> Kind] /\ dropped \in [Call -> BOOLEAN]
  BY DEF Init, CallPc, Answer, Kind
<1> QED
  BY <1>1, <1>3, <1>4, <1>5, <1>6, <1>7, <1>8 DEF TypeOK, CallPc

\* The server's rows, the tabs, the refreshes and the callers.
ServerType ==
    /\ status \in [Row -> {"absent", "live", "rotated", "revoked"}]
    /\ owner \in [Row -> MaybeUser] /\ root \in [Row -> MaybeRow]
    /\ born \in [Row -> 0..MaxTime] /\ rotatedAt \in [Row -> 0..MaxTime \cup {Never}]
TabsType ==
    /\ acc \in [Tab -> MaybeRow]
    /\ view \in [Tab -> {"unknown", "authenticated", "anonymous"}]
    /\ shown \in [Tab -> MaybeUser] /\ cache \in [Tab -> SUBSET (User \X Kind)]
    /\ held \in [Tab -> SUBSET MaybeUser]
NetType ==
    /\ flight \in [Tab -> {"none", "lock", "wire", "reply", "sleep"}]
    /\ stale \in [Tab -> MaybeRow] /\ carried \in [Tab -> MaybeRow]
    /\ attempt \in [Tab -> Attempt] /\ reply \in [Tab -> [code : Answer, row : MaybeRow]]
CallsType ==
    /\ pc \in [Call -> CallPc] /\ token \in [Call -> MaybeRow] /\ code \in [Call -> Answer]
    /\ kind \in [Call -> Kind] /\ dropped \in [Call -> BOOLEAN]
RestType ==
    /\ env \in Setting /\ clock \in 0..MaxTime /\ jar \in MaybeRow
    /\ line \in Seq(Tab \cup Call) /\ inbox \in [Tab -> Seq(Message)]

LEMMA TypeParts ==
    /\ TypeOK <=> (ServerType /\ TabsType /\ NetType /\ CallsType /\ RestType)
    /\ TypeOK' <=> (ServerType' /\ TabsType' /\ NetType' /\ CallsType' /\ RestType')
  BY DEF TypeOK, ServerType, TabsType, NetType, CallsType, RestType, CallPc

LEMMA FinishTypes ==
    ASSUME TypeOK, NEW t \in Tab, NEW r, FinishEffect(t, r), UNCHANGED dropped \/ dropped' \in [Call -> BOOLEAN]
    PROVE  NetType' /\ CallsType' /\ line' \in Seq(Tab \cup Call)
<1>1. NoRow \in MaybeRow /\ NoReply \in [code : Answer, row : MaybeRow] /\ 0 \in Attempt
  BY SettingType DEF MaybeRow, NoRow, NoReply, Answer, Attempt
<1>2. NetType'
  <2>1. flight' \in [Tab -> {"none", "lock", "wire", "reply", "sleep"}]
    BY DEF FinishEffect, TypeOK
  <2>2. stale' \in [Tab -> MaybeRow] /\ carried' \in [Tab -> MaybeRow]
    BY <1>1 DEF FinishEffect, TypeOK
  <2>3. attempt' \in [Tab -> Attempt]
    BY <1>1 DEF FinishEffect, TypeOK
  <2>4. reply' \in [Tab -> [code : Answer, row : MaybeRow]]
    BY <1>1 DEF FinishEffect, TypeOK
  <2> QED
    BY <2>1, <2>2, <2>3, <2>4 DEF NetType
<1>3. CallsType'
  BY DEF FinishEffect, CallsType, TypeOK
<1> QED
  BY <1>2, <1>3 DEF FinishEffect

LEMMA SetTokenType ==
    ASSUME TypeOK, NEW t \in Tab, NEW r \in MaybeRow, NEW u \in MaybeUser, SetToken(t, r, u)
    PROVE  TabsType' /\ dropped' \in [Call -> BOOLEAN] /\ acc' = [acc EXCEPT ![t] = r]
           /\ view' = [view EXCEPT ![t] = "authenticated"]
<1>1. SetState(t, "authenticated", u) /\ acc' = [acc EXCEPT ![t] = r]
  BY DEF SetToken
<1>2. acc' \in [Tab -> MaybeRow]
  BY <1>1 DEF TypeOK
<1> QED
  BY <1>1, <1>2, SetStateType DEF TabsType

LEMMA ClearLocalType ==
    ASSUME TypeOK, NEW t \in Tab, ClearLocal(t)
    PROVE  TabsType' /\ dropped' \in [Call -> BOOLEAN] /\ acc' = [acc EXCEPT ![t] = NoRow]
           /\ view' = [view EXCEPT ![t] = "anonymous"]
<1>1. SetState(t, "anonymous", NoUser) /\ acc' = [acc EXCEPT ![t] = NoRow]
  BY DEF ClearLocal
<1>2. acc' \in [Tab -> MaybeRow] /\ NoUser \in MaybeUser
  BY <1>1, SettingType DEF TypeOK, MaybeRow, NoRow, MaybeUser
<1> QED
  BY <1>1, <1>2, SetStateType DEF TabsType

\* The first message in the inbox of a tab.
LEMMA HeadIsMessage ==
    ASSUME TypeOK, NEW t \in Tab, inbox[t] # <<>>
    PROVE  /\ Head(inbox[t]) \in Message /\ Tail(inbox[t]) \in Seq(Message)
           /\ 1 \in DOMAIN inbox[t] /\ Head(inbox[t]) = inbox[t][1]
           /\ \A i \in DOMAIN Tail(inbox[t]) : i + 1 \in DOMAIN inbox[t] /\ Tail(inbox[t])[i] = inbox[t][i + 1]
<1>1. inbox[t] \in Seq(Message)
  BY DEF TypeOK
<1> DEFINE s == inbox[t]
<1>2. s \in Seq(Message) /\ s # <<>>
  BY <1>1
<1> HIDE DEF s
<1>3. /\ Head(s) \in Message /\ Tail(s) \in Seq(Message)
      /\ 1 \in DOMAIN s /\ Head(s) = s[1]
      /\ \A i \in DOMAIN Tail(s) : i + 1 \in DOMAIN s /\ Tail(s)[i] = s[i + 1]
  BY <1>2
<1> QED
  BY <1>3 DEF s

LEMMA StartRefreshType ==
    ASSUME TypeOK, NEW t \in Tab, NEW s \in MaybeRow, StartRefresh(t, s)
    PROVE  /\ NetType' /\ line' \in Seq(Tab \cup Call)
           /\ carried' = carried /\ reply' = reply /\ attempt' = attempt
           /\ \/ flight' = flight /\ line' = line
              \/ /\ flight[t] = "none" /\ flight' = [flight EXCEPT ![t] = "lock"]
                 /\ line' # <<>> /\ (line # <<>> => Head(line') = Head(line))
<1>1. CASE flight[t] = "none"
  <2>1. /\ flight' = [flight EXCEPT ![t] = "lock"] /\ stale' = [stale EXCEPT ![t] = s] /\ Queue(t)
        /\ UNCHANGED <<attempt, carried, reply>>
    BY <1>1 DEF StartRefresh
  <2>2. line' \in Seq(Tab \cup Call) /\ line' # <<>> /\ (line # <<>> => Head(line') = Head(line))
    BY <2>1, QueueType
  <2>3. flight' \in [Tab -> {"none", "lock", "wire", "reply", "sleep"}] /\ stale' \in [Tab -> MaybeRow]
    BY <2>1 DEF TypeOK
  <2> QED
    BY <1>1, <2>1, <2>2, <2>3 DEF NetType, TypeOK
<1>2. CASE flight[t] # "none"
  BY <1>2 DEF StartRefresh, TypeOK, NetType, net
<1> QED
  BY <1>1, <1>2

LEMMA EndCallType ==
    ASSUME TypeOK, NEW c \in Call, EndCall(c), dropped' \in [Call -> BOOLEAN]
    PROVE  CallsType'
<1>1. NoRow \in MaybeRow
  BY SettingType DEF MaybeRow, NoRow
<1> QED
  BY <1>1 DEF EndCall, CallsType, TypeOK, CallPc, Answer, Kind

LEMMA TypeFrame ==
    ASSUME TypeOK, UNCHANGED env
    PROVE  /\ UNCHANGED server => ServerType'
           /\ UNCHANGED tabs => TabsType'
           /\ UNCHANGED net => NetType'
           /\ UNCHANGED calls => CallsType'
           /\ (/\ status' \in [Row -> {"absent", "live", "rotated", "revoked"}]
               /\ UNCHANGED <<owner, root, born, rotatedAt>>) => ServerType'
           /\ (/\ pc' \in [Call -> CallPc] /\ token' \in [Call -> MaybeRow]
               /\ code' \in [Call -> Answer] /\ kind' \in [Call -> Kind]
               /\ dropped' \in [Call -> BOOLEAN]) => CallsType'
           /\ pc \in [Call -> CallPc] /\ token \in [Call -> MaybeRow]
           /\ code \in [Call -> Answer] /\ kind \in [Call -> Kind]
           /\ dropped \in [Call -> BOOLEAN]
           /\ (/\ clock' \in 0..MaxTime /\ jar' \in MaybeRow
               /\ line' \in Seq(Tab \cup Call) /\ inbox' \in [Tab -> Seq(Message)]) => RestType'
           /\ clock \in 0..MaxTime /\ jar \in MaybeRow
           /\ line \in Seq(Tab \cup Call) /\ inbox \in [Tab -> Seq(Message)]
<1>1. MaxTime' = MaxTime
  BY DEF MaxTime
<1>2. UNCHANGED server => ServerType'
  BY <1>1, TypeParts DEF ServerType, server
<1>3. UNCHANGED tabs => TabsType'
  BY TypeParts DEF TabsType, tabs
<1>4. UNCHANGED net => NetType'
  BY TypeParts DEF NetType, net
<1>5. UNCHANGED calls => CallsType'
  BY TypeParts DEF CallsType, calls
<1>6. /\ clock \in 0..MaxTime /\ jar \in MaybeRow
      /\ line \in Seq(Tab \cup Call) /\ inbox \in [Tab -> Seq(Message)] /\ env \in Setting
  BY DEF TypeOK
<1>7. ASSUME clock' \in 0..MaxTime, jar' \in MaybeRow,
             line' \in Seq(Tab \cup Call), inbox' \in [Tab -> Seq(Message)]
      PROVE  RestType'
  BY <1>1, <1>6, <1>7 DEF RestType
<1>8. ASSUME status' \in [Row -> {"absent", "live", "rotated", "revoked"}],
             UNCHANGED <<owner, root, born, rotatedAt>>
      PROVE  ServerType'
  BY <1>1, <1>8, TypeParts DEF ServerType
<1>9. (/\ pc' \in [Call -> CallPc] /\ token' \in [Call -> MaybeRow]
       /\ code' \in [Call -> Answer] /\ kind' \in [Call -> Kind]
       /\ dropped' \in [Call -> BOOLEAN]) => CallsType'
  BY DEF CallsType
<1>10. /\ pc \in [Call -> CallPc] /\ token \in [Call -> MaybeRow]
       /\ code \in [Call -> Answer] /\ kind \in [Call -> Kind]
       /\ dropped \in [Call -> BOOLEAN]
  BY TypeParts DEF CallsType
<1> QED
  BY <1>2, <1>3, <1>4, <1>5, <1>6, <1>7, <1>8, <1>9, <1>10

LEMMA NextTypeOK ==
    ASSUME TypeOK, RowInv, RefInv, FlightInv, SignedInv, [Next]_vars
    PROVE  TypeOK'
<1>0. /\ ServerType /\ TabsType /\ NetType /\ CallsType /\ RestType
      /\ NoRow \in MaybeRow /\ Row \subseteq MaybeRow /\ NoUser \in MaybeUser
      /\ \A r \in MaybeRow : r # NoRow => r \in Row
      /\ env.users \subseteq User /\ env.calls \subseteq Call /\ Home \in [Call -> Tab]
  <2>1. MaxRows \in Nat \ {0}
    BY SettingType
  <2>2. NoRow \in MaybeRow /\ Row \subseteq MaybeRow /\ \A r \in MaybeRow : r # NoRow => r \in Row
    BY <2>1 DEF NoRow, MaybeRow, Row
  <2> QED
    BY <2>2, TypeParts, SettingType DEF MaybeUser
<1>1. ASSUME UNCHANGED env, NEW c \in Call, NEW u \in User, NEW n \in Row, SignIn(c, u, n) PROVE TypeOK'
  <2>1. ServerType'
    <3>1. MaxTime' = MaxTime
      BY <1>1 DEF MaxTime
    <3>2. /\ status' \in [Row -> {"absent", "live", "rotated", "revoked"}]
          /\ owner' \in [Row -> MaybeUser] /\ root' \in [Row -> MaybeRow]
      BY <1>0, <1>1 DEF SignIn, ServerType, MaybeUser
    <3>3. born' \in [Row -> 0..MaxTime] /\ rotatedAt' \in [Row -> 0..MaxTime \cup {Never}]
      BY <1>0, <1>1 DEF SignIn, ServerType, RestType
    <3> QED
      BY <3>1, <3>2, <3>3 DEF ServerType
  <2>2. CallsType'
    BY <1>0, <1>1 DEF SignIn, CallsType, CallPc
  <2> QED
    BY <1>1, <2>1, <2>2, TypeFrame, TypeParts DEF SignIn, tabs, net
<1>2. ASSUME UNCHANGED env, NEW c \in Call, AcceptSignIn(c) PROVE TypeOK'
  <2>1. token[c] \in Row /\ owner[token[c]] \in MaybeUser /\ Home[c] \in Tab
    BY <1>0, <1>2 DEF AcceptSignIn, SignedInv, Private, Issued, ServerType
  <2>2. TabsType' /\ dropped' \in [Call -> BOOLEAN] /\ jar' \in MaybeRow
    <3>1. CASE SetToken(Home[c], token[c], owner[token[c]]) /\ jar' = token[c]
      BY <1>0, <2>1, <3>1, SetTokenType
    <3>2. CASE UNCHANGED <<jar, tabs, inbox, dropped>>
      BY <1>0, <3>2 DEF tabs, TabsType, CallsType, RestType
    <3> QED
      BY <1>2, <3>1, <3>2 DEF AcceptSignIn
  <2>3. inbox' \in [Tab -> Seq(Message)]
    <3>1. CASE Post(Home[c], token[c], owner[token[c]])
      BY <1>0, <2>1, <3>1, PostType
    <3>2. CASE UNCHANGED inbox
      BY <1>0, <3>2 DEF RestType
    <3> QED
      BY <1>2, <3>1, <3>2 DEF AcceptSignIn
  <2>4. CallsType'
    BY <1>0, <1>2, <2>2 DEF AcceptSignIn, CallsType, CallPc
  <2> QED
    BY <1>2, <2>2, <2>3, <2>4, TypeFrame, TypeParts DEF AcceptSignIn, server, net
<1>3. ASSUME UNCHANGED env, NEW t \in Tab, Receive(t) PROVE TypeOK'
  <2> DEFINE m == Head(inbox[t])
  <2>1. m \in Message /\ Tail(inbox[t]) \in Seq(Message)
    BY <1>3, HeadIsMessage DEF Receive
  <2>2. inbox' \in [Tab -> Seq(Message)]
    BY <1>0, <1>3, <2>1 DEF Receive, RestType
  <2>3. TabsType' /\ dropped' \in [Call -> BOOLEAN]
    <3>1. m.row \in MaybeRow /\ m.user \in MaybeUser /\ shown[t] \in MaybeUser
      BY <1>0, <2>1 DEF Message, TabsType
    <3> HIDE DEF m
    <3>2. CASE SetToken(t, m.row, IF m.user = NoUser THEN shown[t] ELSE m.user)
      BY <3>1, <3>2, SetTokenType
    <3>3. CASE UNCHANGED <<tabs, dropped>>
      BY <1>0, <3>3 DEF tabs, TabsType, CallsType
    <3>4. CASE ClearLocal(t)
      BY <3>4, ClearLocalType
    <3> QED
      BY <1>3, <3>2, <3>3, <3>4 DEF Receive, m
  <2> QED
    BY <1>3, <2>2, <2>3, TypeFrame, TypeParts DEF Receive, server, net, calls
<1>4. ASSUME UNCHANGED env, NEW c \in Call, StartLogout(c) PROVE TypeOK'
  <2>1. line' \in Seq(Tab \cup Call)
    BY <1>4, QueueType DEF StartLogout
  <2>2. pc' \in [Call -> CallPc]
    BY <1>0, <1>4 DEF StartLogout, CallsType, CallPc
  <2> QED
    BY <1>4, <2>1, <2>2, TypeFrame, TypeParts DEF StartLogout, server, tabs, net, calls
<1>5. ASSUME UNCHANGED env, NEW c \in Call, SendLogout(c) PROVE TypeOK'
  <2>1. pc' \in [Call -> CallPc] /\ token' \in [Call -> MaybeRow]
    BY <1>0, <1>5 DEF SendLogout, CallsType, RestType, CallPc
  <2> QED
    BY <1>5, <2>1, TypeFrame, TypeParts DEF SendLogout, server, tabs, net, calls
<1>6. ASSUME UNCHANGED env, NEW c \in Call, ServeLogout(c) PROVE TypeOK'
  <2>1. pc' \in [Call -> CallPc] /\ code' \in [Call -> Answer]
    BY <1>0, <1>6 DEF ServeLogout, CallsType, CallPc, Answer
  <2>2. status' \in [Row -> {"absent", "live", "rotated", "revoked"}]
    BY <1>0, <1>6 DEF ServeLogout, ServerType, RevokeFamily
  <2> QED
    BY <1>6, <2>1, <2>2, TypeFrame, TypeParts DEF ServeLogout, tabs, net, calls
<1>7. ASSUME UNCHANGED env, NEW c \in Call, FinishLogout(c) PROVE TypeOK'
  <2>1. Home[c] \in Tab /\ jar' \in MaybeRow
    BY <1>0, <1>7 DEF FinishLogout, RestType
  <2>2. TabsType' /\ dropped' \in [Call -> BOOLEAN] /\ line' \in Seq(Tab \cup Call)
        /\ inbox' \in [Tab -> Seq(Message)]
    BY <1>0, <1>7, <2>1, ClearLocalType, PostType, ReleaseType DEF FinishLogout
  <2>3. CallsType'
    BY <1>0, <1>7, <2>2 DEF FinishLogout, CallsType, CallPc, Answer
  <2> QED
    BY <1>7, <2>1, <2>2, <2>3, TypeFrame, TypeParts DEF FinishLogout, server, net
<1>8. ASSUME UNCHANGED env, NEW t \in Tab, TakeFresh(t) PROVE TypeOK'
  <2>1. FinishEffect(t, acc[t]) /\ UNCHANGED dropped
    BY <1>0, <1>8, FinishShape DEF TakeFresh, TabsType
  <2>2. NetType' /\ CallsType' /\ line' \in Seq(Tab \cup Call)
    BY <1>0, <2>1, FinishTypes DEF TabsType
  <2> QED
    BY <1>8, <2>2, TypeFrame, TypeParts DEF TakeFresh, server, tabs
<1>9. ASSUME UNCHANGED env, NEW t \in Tab, SendRefresh(t) PROVE TypeOK'
  <2>1. NetType'
    BY <1>0, <1>9 DEF SendRefresh, NetType, RestType
  <2> QED
    BY <1>9, <2>1, TypeFrame, TypeParts DEF SendRefresh, server, tabs, calls
<1>10. ASSUME UNCHANGED env, NEW t \in Tab, NEW n \in Row, ServeRefresh(t, n) PROVE TypeOK'
  <2>1. carried[t] \in Row
    BY <1>0, <1>10 DEF ServeRefresh, StatusOf, NetType
  <2>2. ServerType'
    <3>1. status' \in [Row -> {"absent", "live", "rotated", "revoked"}]
      BY <1>0, <1>10, <2>1 DEF ServeRefresh, ServerType
    <3>2. owner' \in [Row -> MaybeUser] /\ root' \in [Row -> MaybeRow]
      BY <1>0, <1>10, <2>1 DEF ServeRefresh, ServerType
    <3>3. born' \in [Row -> 0..MaxTime] /\ rotatedAt' \in [Row -> 0..MaxTime \cup {Never}]
      BY <1>0, <1>10, <2>1 DEF ServeRefresh, ServerType, RestType
    <3>4. MaxTime' = MaxTime
      BY <1>10 DEF MaxTime
    <3> QED
      BY <3>1, <3>2, <3>3, <3>4 DEF ServerType
  <2>3. NetType'
    <3>1. flight' \in [Tab -> {"none", "lock", "wire", "reply", "sleep"}]
      BY <1>0, <1>10 DEF ServeRefresh, NetType
    <3>2. reply' \in [Tab -> [code : Answer, row : MaybeRow]]
      <4>1. CASE reply' = [reply EXCEPT ![t] = [code |-> "200", row |-> n]]
        BY <1>0, <4>1 DEF NetType, Answer
      <4>2. CASE reply' = [reply EXCEPT ![t].code = "500"]
        BY <1>0, <4>2 DEF NetType, Answer
      <4> QED
        BY <1>10, <4>1, <4>2 DEF ServeRefresh
    <3> QED
      BY <1>0, <1>10, <3>1, <3>2 DEF ServeRefresh, NetType
  <2> QED
    BY <1>10, <2>2, <2>3, TypeFrame, TypeParts DEF ServeRefresh, tabs, calls
<1>11. ASSUME UNCHANGED env, NEW t \in Tab, RefuseRefresh(t) PROVE TypeOK'
  <2>1. status' \in [Row -> {"absent", "live", "rotated", "revoked"}]
    BY <1>0, <1>11 DEF RefuseRefresh, ServerType, RevokeFamily
  <2>2. \E a \in Answer : reply' = [reply EXCEPT ![t].code = a]
    <3>1. \A r : Refusal(r) \in Answer
      BY DEF Refusal, Answer
    <3>2. "500" \in Answer
      BY DEF Answer
    <3> QED
      BY <1>11, <3>1, <3>2 DEF RefuseRefresh
  <2>3. NetType'
    <3>1. flight' \in [Tab -> {"none", "lock", "wire", "reply", "sleep"}]
      BY <1>0, <1>11 DEF RefuseRefresh, NetType
    <3>2. reply' \in [Tab -> [code : Answer, row : MaybeRow]]
      BY <1>0, <2>2 DEF NetType
    <3> QED
      BY <1>0, <1>11, <3>1, <3>2 DEF RefuseRefresh, NetType
  <2> QED
    BY <1>11, <2>1, <2>3, TypeFrame, TypeParts DEF RefuseRefresh, tabs, calls
<1>12. ASSUME UNCHANGED env, NEW t \in Tab, Renewed(t) PROVE TypeOK'
  <2>1. reply[t].row \in MaybeRow /\ shown[t] \in MaybeUser /\ jar' \in MaybeRow
    BY <1>0, <1>12 DEF Renewed, NetType, TabsType
  <2>2. TabsType' /\ dropped' \in [Call -> BOOLEAN] /\ inbox' \in [Tab -> Seq(Message)]
    BY <1>0, <1>12, <2>1, SetTokenType, PostType DEF Renewed
  <2>3. FinishEffect(t, reply[t].row)
    BY <1>0, <1>12, <2>1, FinishShape DEF Renewed
  <2>4. NetType' /\ CallsType' /\ line' \in Seq(Tab \cup Call)
    BY <2>2, <2>3, FinishTypes
  <2> QED
    BY <1>12, <2>1, <2>2, <2>4, TypeFrame, TypeParts DEF Renewed, server
<1>13. ASSUME UNCHANGED env, NEW t \in Tab, Sleep(t) PROVE TypeOK'
  <2>1. NetType'
    BY <1>0, <1>13 DEF Sleep, NetType, NoReply, Answer
  <2> QED
    BY <1>13, <2>1, TypeFrame, TypeParts DEF Sleep, server, tabs, calls
<1>14. ASSUME UNCHANGED env, NEW t \in Tab, Wake(t) PROVE TypeOK'
  <2>1. CASE Finish(t, acc[t])
    <3>1. FinishEffect(t, acc[t]) /\ UNCHANGED dropped
      BY <1>0, <1>14, <2>1, FinishShape DEF Wake, TabsType
    <3>2. NetType' /\ CallsType' /\ line' \in Seq(Tab \cup Call)
      BY <1>0, <3>1, FinishTypes DEF TabsType
    <3> QED
      BY <1>14, <3>2, TypeFrame, TypeParts DEF Wake, server, tabs
  <2>2. CASE /\ flight' = [flight EXCEPT ![t] = "wire"]
             /\ attempt' = [attempt EXCEPT ![t] = @ + 1]
             /\ carried' = [carried EXCEPT ![t] = jar]
             /\ UNCHANGED <<line, stale, reply, pc, token, code, kind>>
    <3>1. attempt[t] < 2
      BY <1>14 DEF Wake, FlightInv
    <3>2. attempt' \in [Tab -> Attempt]
      BY <1>0, <2>2, <3>1 DEF NetType, Attempt
    <3>3. NetType'
      BY <1>0, <2>2, <3>2 DEF NetType, RestType
    <3> QED
      BY <1>14, <2>2, <3>3, TypeFrame, TypeParts DEF Wake, server, tabs, calls
  <2> QED
    BY <1>14, <2>1, <2>2 DEF Wake
<1>15. ASSUME UNCHANGED env, NEW t \in Tab, Refused(t) PROVE TypeOK'
  <2>1. jar' \in MaybeRow
    BY <1>0, <1>15 DEF Refused, JarAfter, RestType
  <2>2. TabsType' /\ dropped' \in [Call -> BOOLEAN] /\ inbox' \in [Tab -> Seq(Message)]
    BY <1>0, <1>15, ClearLocalType, PostType DEF Refused
  <2>3. FinishEffect(t, NoRow)
    BY <1>0, <1>15, FinishShape DEF Refused
  <2>4. NetType' /\ CallsType' /\ line' \in Seq(Tab \cup Call)
    BY <2>2, <2>3, FinishTypes
  <2> QED
    BY <1>15, <2>1, <2>2, <2>4, TypeFrame, TypeParts DEF Refused, server
<1>16. ASSUME UNCHANGED env, NEW t \in Tab, Failed(t) PROVE TypeOK'
  <2>1. jar' \in MaybeRow
    BY <1>0, <1>16 DEF Failed, JarAfter, RestType
  <2>2. TabsType' /\ dropped' \in [Call -> BOOLEAN]
    <3>1. CASE ClearLocal(t)
      BY <3>1, ClearLocalType
    <3>2. CASE UNCHANGED <<tabs, dropped>>
      BY <1>0, <3>2 DEF tabs, TabsType, CallsType
    <3> QED
      BY <1>16, <3>1, <3>2 DEF Failed
  <2>3. FinishEffect(t, NoRow)
    BY <1>0, <1>16, FinishShape DEF Failed
  <2>4. NetType' /\ CallsType' /\ line' \in Seq(Tab \cup Call)
    BY <2>2, <2>3, FinishTypes
  <2> QED
    BY <1>16, <2>1, <2>2, <2>4, TypeFrame, TypeParts DEF Failed, server
<1>17. ASSUME UNCHANGED env, NEW c \in Call, Start(c) PROVE TypeOK'
  <2>1. /\ kind' \in [Call -> Kind] /\ dropped' \in [Call -> BOOLEAN]
        /\ Home[c] \in Tab
    BY <1>0, <1>17 DEF Start, CallsType, Kind
  <2>2. CASE Fresh(acc[Home[c]])
    <3>1. CallsType'
      BY <1>0, <1>17, <2>1, <2>2 DEF Start, CallsType, TabsType, CallPc
    <3> QED
      BY <1>17, <2>2, <3>1, TypeFrame, TypeParts DEF Start, server, tabs, net
  <2>3. CASE ~Fresh(acc[Home[c]])
    <3>1. StartRefresh(Home[c], NoRow) /\ pc' = [pc EXCEPT ![c] = "join"] /\ UNCHANGED token
      BY <1>17, <2>3 DEF Start
    <3>2. NetType' /\ line' \in Seq(Tab \cup Call)
      BY <1>0, <2>1, <3>1, StartRefreshType
    <3>3. CallsType'
      BY <1>0, <1>17, <2>1, <3>1 DEF Start, CallsType, CallPc, Waits
    <3> QED
      BY <1>17, <3>2, <3>3, TypeFrame, TypeParts DEF Start, server, tabs
  <2> QED
    BY <2>2, <2>3
<1>18. ASSUME UNCHANGED env, NEW c \in Call, Serve(c) PROVE TypeOK'
  <2>1. pc' \in [Call -> CallPc] /\ code' \in [Call -> Answer]
    BY <1>0, <1>18 DEF Serve, CallsType, CallPc, Answer
  <2> QED
    BY <1>18, <2>1, TypeFrame, TypeParts DEF Serve, server, tabs, net, calls
<1>19. ASSUME UNCHANGED env, NEW c \in Call, Answered(c) PROVE TypeOK'
  <2> DEFINE u == owner[token[c]]
  <2>1. token[c] \in Row /\ u \in MaybeUser /\ Home[c] \in Tab
    BY <1>0, <1>19 DEF Answered, FlightInv, CallsType, ServerType
  <2>2. TabsType' /\ dropped' \in [Call -> BOOLEAN]
    <3>1. CASE kind[c] = "profile"
      BY <1>0, <1>19, <2>1, <3>1, SetStateType DEF Answered, TabsType
    <3>2. CASE kind[c] # "profile"
      <4>1. u \in User
        BY <1>0, <1>19, <2>1 DEF Answered, CallsType, RowInv, FlightInv, RefInv, Issued
      <4>2. <<u, kind[c]>> \in User \X Kind
        BY <1>0, <4>1 DEF CallsType
      <4>3. cache' = [cache EXCEPT ![Home[c]] = IF kind[c] # "update" /\ dropped[c] THEN @
                                               ELSE @ \cup {<<u, kind[c]>>}]
        BY <1>19, <3>2 DEF Answered
      <4> HIDE DEF u
      <4>4. cache' \in [Tab -> SUBSET (User \X Kind)]
        BY <1>0, <2>1, <4>2, <4>3 DEF TabsType
      <4> QED
        BY <1>0, <1>19, <3>2, <4>4 DEF Answered, TabsType, CallsType
    <3> QED
      BY <3>1, <3>2
  <2>3. CallsType'
    BY <1>19, <2>2, EndCallType DEF Answered
  <2> QED
    BY <1>19, <2>2, <2>3, TypeFrame, TypeParts DEF Answered, server, net
<1>20. ASSUME UNCHANGED env, NEW c \in Call, Rejected(c) PROVE TypeOK'
  <2>1. Home[c] \in Tab /\ token[c] \in MaybeRow
    BY <1>0 DEF CallsType
  <2>2. NetType' /\ line' \in Seq(Tab \cup Call)
    BY <1>20, <2>1, StartRefreshType DEF Rejected
  <2>3. CallsType'
    BY <1>0, <1>20 DEF Rejected, CallsType, CallPc, Waits, Answer
  <2> QED
    BY <1>20, <2>2, <2>3, TypeFrame, TypeParts DEF Rejected, server, tabs
<1>21. ASSUME UNCHANGED env, NEW c \in Call, GaveUp(c) PROVE TypeOK'
  <2>1. TabsType' /\ dropped' \in [Call -> BOOLEAN]
    <3>1. CASE ClearLocal(Home[c])
      BY <1>0, <3>1, ClearLocalType
    <3>2. CASE UNCHANGED <<tabs, dropped>>
      BY <1>0, <3>2 DEF tabs, TabsType, CallsType
    <3> QED
      BY <1>21, <3>1, <3>2 DEF GaveUp
  <2>2. CallsType'
    BY <1>21, <2>1, EndCallType DEF GaveUp
  <2> QED
    BY <1>21, <2>1, <2>2, TypeFrame, TypeParts DEF GaveUp, server, net
<1>22. ASSUME UNCHANGED env, Tick PROVE TypeOK'
  <2>1. clock' \in 0..MaxTime /\ MaxTime' = MaxTime
    BY <1>0, <1>22, SettingType DEF Tick, RestType, MaxTime
  <2> QED
    BY <1>22, <2>1, TypeFrame, TypeParts DEF Tick, server, tabs, net, calls
<1>23. CASE UNCHANGED vars
  BY <1>23, TypeFrame, TypeParts DEF vars, calls
<1> QED
  BY <1>0, <1>1, <1>2, <1>3, <1>4, <1>5, <1>6, <1>7, <1>8, <1>9, <1>10, <1>11, <1>12, <1>13, <1>14,
     <1>15, <1>16, <1>17, <1>18, <1>19, <1>20, <1>21, <1>22, <1>23 DEF Next, RefreshStep, CallStep

-------------------------------------------------------------------------------
(* The server.                                                             *)

\* The steps that change the server's rows.
LEMMA ServerSteps ==
    ASSUME TypeOK, [Next]_vars
    PROVE  /\ UNCHANGED env
           /\ \/ UNCHANGED server /\ (clock' = clock \/ clock' = clock + 1)
              \/ \E c \in Call, u \in User, n \in Row : SignIn(c, u, n)
              \/ \E c \in Call : ServeLogout(c)
              \/ \E t \in Tab, n \in Row : ServeRefresh(t, n)
              \/ \E t \in Tab : RefuseRefresh(t)
<1> DEFINE Same == UNCHANGED server /\ (clock' = clock \/ clock' = clock + 1)
<1>0. env.users \subseteq User /\ env.calls \subseteq Call
  BY SettingType
<1>1. CASE UNCHANGED vars
  BY <1>1 DEF vars
<1>2. ASSUME Next PROVE UNCHANGED env
  BY <1>2 DEF Next
<1>3. ASSUME NEW t \in Tab, RefreshStep(t) PROVE Same \/ (\E n \in Row : ServeRefresh(t, n)) \/ RefuseRefresh(t)
  BY <1>3 DEF RefreshStep, TakeFresh, SendRefresh, Renewed, Sleep, Wake, Refused, Failed
<1>4. ASSUME NEW t \in Tab, Receive(t) PROVE Same
  BY <1>4 DEF Receive
<1>5. ASSUME NEW c \in Call, CallStep(c) PROVE Same \/ ServeLogout(c)
  BY <1>5 DEF CallStep, AcceptSignIn, SendLogout, FinishLogout, Serve, Answered, Rejected, GaveUp
<1>6. ASSUME NEW c \in Call, Start(c) \/ StartLogout(c) PROVE Same
  BY <1>6 DEF Start, StartLogout
<1>7. ASSUME Tick PROVE Same
  BY <1>7 DEF Tick
<1> QED
  BY <1>0, <1>1, <1>2, <1>3, <1>4, <1>5, <1>6, <1>7 DEF Next

\* A token that has been issued stays so, with what was recorded of it; a revoked one
\* stays revoked; a live one is exchanged by a refresh only.
LEMMA RowStep ==
    ASSUME TypeOK, RowInv, [Next]_vars
    PROVE  /\ RowInv'
           /\ \A r : Issued(r) =>
                 /\ Issued(r)' /\ root'[r] = root[r] /\ owner'[r] = owner[r] /\ born'[r] = born[r]
                 /\ status[r] = "revoked" => status'[r] = "revoked"
                 /\ status'[r] = "live" => status[r] = "live"
<1>0. /\ status \in [Row -> {"absent", "live", "rotated", "revoked"}]
      /\ owner \in [Row -> MaybeUser] /\ root \in [Row -> MaybeRow]
      /\ born \in [Row -> 0..MaxTime] /\ rotatedAt \in [Row -> 0..MaxTime \cup {Never}]
      /\ clock \in 0..MaxTime /\ MaxTime \in Nat /\ NoRow \notin Row /\ Never \notin 0..MaxTime
      /\ clock \in Int /\ Never <= clock /\ carried \in [Tab -> MaybeRow]
      /\ \A r \in MaybeRow : r # NoRow => r \in Row
  <2>1. MaxRows \in Nat \ {0} /\ MaxTime \in Nat
    BY SettingType DEF MaxTime
  <2>2. NoRow \notin Row /\ (\A r \in MaybeRow : r # NoRow => r \in Row) /\ Never \notin 0..MaxTime
    BY <2>1 DEF NoRow, MaybeRow, Row, Never
  <2>3. clock \in 0..MaxTime
    BY DEF TypeOK
  <2>4. clock \in Int /\ Never <= clock
    BY <2>1, <2>3 DEF Never
  <2> QED
    BY <2>1, <2>2, <2>3, <2>4 DEF TypeOK
<1>1. CASE UNCHANGED server /\ (clock' = clock \/ clock' = clock + 1)
  <2>1. \A r \in Row : born[r] \in Int /\ rotatedAt[r] \in Int
    BY <1>0 DEF Never
  <2>2. \A r \in Row : born'[r] <= clock' /\ rotatedAt'[r] <= clock'
    BY <1>0, <1>1, <2>1 DEF RowInv, server
  <2> QED
    BY <1>1, <2>2 DEF RowInv, Issued, server
<1>2. ASSUME NEW c \in Call, NEW u \in User, NEW n \in Row, SignIn(c, u, n)
      PROVE  /\ RowInv'
             /\ \A r : Issued(r) =>
                   /\ Issued(r)' /\ root'[r] = root[r] /\ owner'[r] = owner[r] /\ born'[r] = born[r]
                   /\ status[r] = "revoked" => status'[r] = "revoked"
                   /\ status'[r] = "live" => status[r] = "live"
  <2>1. /\ status[n] = "absent" /\ status' = [status EXCEPT ![n] = "live"]
        /\ owner' = [owner EXCEPT ![n] = u] /\ root' = [root EXCEPT ![n] = n]
        /\ born' = [born EXCEPT ![n] = clock] /\ rotatedAt' = rotatedAt /\ clock' = clock
    BY <1>2 DEF SignIn, Unissued
  <2>2. \A r : Issued(r) => r # n /\ root[r] # n /\ Issued(root[r]) /\ root[root[r]] = root[r]
    BY <2>1 DEF Issued, RowInv
  <2>3. \A r : Issued(r) =>
                   /\ Issued(r)' /\ root'[r] = root[r] /\ owner'[r] = owner[r] /\ born'[r] = born[r]
                   /\ status'[r] = status[r]
    BY <1>0, <2>1, <2>2 DEF Issued
  <2>4. \A r \in Row : born'[r] <= clock' /\ rotatedAt'[r] <= clock'
    BY <1>0, <2>1 DEF RowInv
  <2>5. ASSUME NEW r \in Row
        PROVE  /\ status'[r] = "absent" => root'[r] = NoRow
               /\ status'[r] # "absent"
                     => owner'[r] \in User /\ root'[r] \in Row /\ status'[root'[r]] # "absent" /\ root'[root'[r]] = root'[r]
               /\ status'[r] = "rotated" => rotatedAt'[r] # Never
    <3>1. CASE r = n
      <4>1. status'[n] = "live" /\ root'[n] = n /\ owner'[n] = u
        BY <1>0, <2>1
      <4> QED
        BY <3>1, <4>1
    <3>2. CASE r # n
      <4>1. status'[r] = status[r] /\ root'[r] = root[r] /\ owner'[r] = owner[r]
        BY <1>0, <2>1, <3>2
      <4>2. Issued(r) => root[r] \in Row /\ status'[root[r]] # "absent" /\ root'[root[r]] = root[root[r]]
        <5> DEFINE o == root[r]
        <5>1. Issued(o) => o \in Row /\ status'[o] # "absent" /\ root'[o] = root[o]
          BY <2>3 DEF Issued
        <5> QED
          BY <2>2, <5>1
      <4> QED
        BY <2>1, <2>2, <4>1, <4>2 DEF RowInv, Issued
    <3> QED
      BY <3>1, <3>2
  <2> QED
    BY <2>3, <2>4, <2>5 DEF RowInv, Issued
<1>3. ASSUME NEW q, RevokeFamily(q), UNCHANGED <<clock, owner, root, born, rotatedAt>>
      PROVE  /\ RowInv'
             /\ \A r : Issued(r) =>
                   /\ Issued(r)' /\ root'[r] = root[r] /\ owner'[r] = owner[r] /\ born'[r] = born[r]
                   /\ status[r] = "revoked" => status'[r] = "revoked"
                   /\ status'[r] = "live" => status[r] = "live"
  <2>1. \A r \in Row : /\ status'[r] = "absent" <=> status[r] = "absent"
                       /\ status[r] = "revoked" => status'[r] = "revoked"
                       /\ status'[r] \in {"live", "rotated"} => status[r] = status'[r]
    BY <1>0, <1>3 DEF RevokeFamily
  <2>2. \A r : Issued(r)' <=> Issued(r)
    BY <2>1 DEF Issued
  <2> QED
    BY <1>0, <1>3, <2>1, <2>2 DEF RowInv, Issued
<1>4. ASSUME UNCHANGED status, UNCHANGED <<clock, owner, root, born, rotatedAt>>
      PROVE  /\ RowInv'
             /\ \A r : Issued(r) =>
                   /\ Issued(r)' /\ root'[r] = root[r] /\ owner'[r] = owner[r] /\ born'[r] = born[r]
                   /\ status[r] = "revoked" => status'[r] = "revoked"
                   /\ status'[r] = "live" => status[r] = "live"
  BY <1>4 DEF RowInv, Issued
<1>5. ASSUME NEW t \in Tab, NEW n \in Row, ServeRefresh(t, n)
      PROVE  /\ RowInv'
             /\ \A r : Issued(r) =>
                   /\ Issued(r)' /\ root'[r] = root[r] /\ owner'[r] = owner[r] /\ born'[r] = born[r]
                   /\ status[r] = "revoked" => status'[r] = "revoked"
                   /\ status'[r] = "live" => status[r] = "live"
  <2> DEFINE q == carried[t]
  <2>1. /\ status[n] = "absent" /\ q \in Row /\ status[q] = "live"
        /\ status' = [status EXCEPT ![q] = "rotated", ![n] = "live"]
        /\ owner' = [owner EXCEPT ![n] = owner[q]] /\ root' = [root EXCEPT ![n] = root[q]]
        /\ born' = [born EXCEPT ![n] = clock] /\ rotatedAt' = [rotatedAt EXCEPT ![q] = clock] /\ clock' = clock
    BY <1>0, <1>5 DEF ServeRefresh, Unissued, StatusOf
  <2> HIDE DEF q
  <2>2. \A r : Issued(r) => r # n /\ root[r] # n /\ Issued(root[r]) /\ root[root[r]] = root[r]
    BY <2>1 DEF Issued, RowInv
  <2>3. \A r : Issued(r) =>
                   /\ Issued(r)' /\ root'[r] = root[r] /\ owner'[r] = owner[r] /\ born'[r] = born[r]
                   /\ status[r] = "revoked" => status'[r] = "revoked"
                   /\ status'[r] = "live" => status[r] = "live"
    BY <1>0, <2>1, <2>2 DEF Issued
  <2>4. \A r \in Row : born'[r] <= clock' /\ rotatedAt'[r] <= clock'
    BY <1>0, <2>1 DEF RowInv
  <2>5. ASSUME NEW r \in Row
        PROVE  /\ status'[r] = "absent" => root'[r] = NoRow
               /\ status'[r] # "absent"
                     => owner'[r] \in User /\ root'[r] \in Row /\ status'[root'[r]] # "absent" /\ root'[root'[r]] = root'[r]
               /\ status'[r] = "rotated" => rotatedAt'[r] # Never
    <3>0. Issued(q) /\ owner[q] \in User
      BY <2>1 DEF Issued, RowInv
    <3>1. CASE r = n
      <4>1. status'[n] = "live" /\ root'[n] = root[q] /\ owner'[n] = owner[q]
        BY <1>0, <2>1
      <4>2. root[q] \in Row /\ status'[root[q]] # "absent" /\ root'[root[q]] = root[q]
        <5> DEFINE o == root[q]
        <5>1. Issued(o) => o \in Row /\ status'[o] # "absent" /\ root'[o] = root[o]
          BY <2>3 DEF Issued
        <5> QED
          BY <2>2, <3>0, <5>1
      <4> QED
        BY <3>0, <3>1, <4>1, <4>2
    <3>2. CASE r # n
      <4>1. /\ status'[r] = IF r = q THEN "rotated" ELSE status[r]
            /\ root'[r] = root[r] /\ owner'[r] = owner[r]
            /\ rotatedAt'[r] = IF r = q THEN clock ELSE rotatedAt[r]
        BY <1>0, <2>1, <3>2
      <4>2. Issued(r) => root[r] \in Row /\ status'[root[r]] # "absent" /\ root'[root[r]] = root[root[r]]
        <5> DEFINE o == root[r]
        <5>1. Issued(o) => o \in Row /\ status'[o] # "absent" /\ root'[o] = root[o]
          BY <2>3 DEF Issued
        <5> QED
          BY <2>2, <5>1
      <4>3. clock # Never
        BY <1>0
      <4> QED
        BY <2>1, <2>2, <3>0, <4>1, <4>2, <4>3 DEF RowInv, Issued
    <3> QED
      BY <3>1, <3>2
  <2> QED
    BY <2>3, <2>4, <2>5 DEF RowInv, Issued
<1>6. ASSUME NEW c \in Call, ServeLogout(c)
      PROVE  UNCHANGED <<clock, owner, root, born, rotatedAt>> /\ (UNCHANGED status \/ RevokeFamily(token[c]))
  BY <1>6 DEF ServeLogout
<1>7. ASSUME NEW t \in Tab, RefuseRefresh(t)
      PROVE  UNCHANGED <<clock, owner, root, born, rotatedAt>> /\ (UNCHANGED status \/ RevokeFamily(carried[t]))
  BY <1>7 DEF RefuseRefresh
<1> QED
  BY <1>1, <1>2, <1>3, <1>4, <1>5, <1>6, <1>7, ServerSteps

-------------------------------------------------------------------------------
(* Who holds which token.                                                  *)

LEMMA PostRows ==
    ASSUME TypeOK, NEW t \in Tab, NEW r \in MaybeRow, NEW u \in MaybeUser, Post(t, r, u),
           NEW o \in Tab, NEW i \in DOMAIN inbox'[o]
    PROVE  inbox'[o][i].row = r \/ \E j \in DOMAIN inbox[o] : inbox'[o][i] = inbox[o][j]
<1>1. inbox'[o] = inbox[o] \/ inbox'[o] = Append(inbox[o], [row |-> r, user |-> u])
  BY PostType
<1>2. inbox[o] \in Seq(Message) /\ [row |-> r, user |-> u] \in Message
  BY DEF TypeOK, Message
<1> DEFINE m == [row |-> r, user |-> u]
<1>3. m.row = r
  OBVIOUS
<1>4. CASE inbox'[o] = inbox[o]
  BY <1>4
<1>5. CASE inbox'[o] = Append(inbox[o], m)
  <2> HIDE DEF m
  <2>1. \A k \in DOMAIN Append(inbox[o], m) :
           (k \in DOMAIN inbox[o] /\ Append(inbox[o], m)[k] = inbox[o][k]) \/ Append(inbox[o], m)[k] = m
    BY <1>2, AppendType DEF m
  <2> QED
    BY <1>3, <1>5, <2>1
<1> QED
  BY <1>1, <1>4, <1>5

\* A token comes to be held by a sign-in or an exchange only.
LEMMA HoldsStep ==
    ASSUME TypeOK, SignedInv, [Next]_vars, NEW r \in Row, Holds(r)'
    PROVE  \/ Holds(r)
           \/ \E c \in Call : AcceptSignIn(c) /\ token[c] = r
           \/ \E t \in Tab : ServeRefresh(t, r)
<1>0. /\ NoRow \notin Row /\ NoRow \in MaybeRow /\ NoUser \in MaybeUser /\ NoReply.row = NoRow
      /\ Home \in [Call -> Tab]
      /\ acc \in [Tab -> MaybeRow] /\ carried \in [Tab -> MaybeRow] /\ shown \in [Tab -> MaybeUser]
      /\ reply \in [Tab -> [code : Answer, row : MaybeRow]] /\ env.calls \subseteq Call /\ env.users \subseteq User
  <2>1. /\ NoRow \notin Row /\ NoRow \in MaybeRow /\ NoUser \in MaybeUser /\ Home \in [Call -> Tab]
        /\ env.calls \subseteq Call /\ env.users \subseteq User
    BY SettingType DEF NoRow, Row, MaybeRow, MaybeUser
  <2>2. NoReply.row = NoRow
    BY DEF NoReply
  <2> QED
    BY <2>1, <2>2 DEF TypeOK
<1>1. ASSUME UNCHANGED <<jar, acc, carried, reply, inbox>> PROVE Holds(r)
  BY <1>1 DEF Holds
<1> DEFINE Among(q) ==
               /\ jar' \in {jar, NoRow, q}
               /\ \A o \in Tab :
                     /\ acc'[o] \in {acc[o], NoRow, q} /\ carried'[o] \in {carried[o], NoRow, q}
                     /\ reply'[o].row \in {reply[o].row, NoRow, q}
                     /\ \A i \in DOMAIN inbox'[o] :
                           inbox'[o][i].row = q \/ \E j \in DOMAIN inbox[o] : inbox'[o][i] = inbox[o][j]
<1>1a. ASSUME NEW q, q # r, Among(q) PROVE Holds(r)
  BY <1>0, <1>1a DEF Holds
<1> HIDE DEF Among
<1>2. ASSUME NEW c \in Call, AcceptSignIn(c), token[c] # r PROVE Holds(r)
  <2>1. CASE UNCHANGED <<jar, tabs, inbox, dropped>>
    <3>1. UNCHANGED <<jar, acc, carried, reply, inbox>>
      BY <1>2, <2>1 DEF AcceptSignIn, tabs, net
    <3> QED
      BY <1>1, <3>1
  <2>2. CASE /\ jar' = token[c]
             /\ SetToken(Home[c], token[c], owner[token[c]])
             /\ Post(Home[c], token[c], owner[token[c]])
    <3>1. token[c] \in Row /\ owner[token[c]] \in MaybeUser /\ Home[c] \in Tab /\ token[c] \in MaybeRow
      BY <1>0, <1>2 DEF AcceptSignIn, SignedInv, Private, Issued, TypeOK
    <3>2. acc' = [acc EXCEPT ![Home[c]] = token[c]] /\ UNCHANGED <<carried, reply>>
      BY <1>2, <2>2 DEF SetToken, AcceptSignIn, net
    <3>3. \A o \in Tab : \A i \in DOMAIN inbox'[o] :
             inbox'[o][i].row = token[c] \/ \E j \in DOMAIN inbox[o] : inbox'[o][i] = inbox[o][j]
      BY <2>2, <3>1, PostRows
    <3>4. Among(token[c])
      BY <1>0, <2>2, <3>1, <3>2, <3>3 DEF Among
    <3> QED
      BY <1>1a, <1>2, <3>4
  <2> QED
    BY <1>2, <2>1, <2>2 DEF AcceptSignIn
<1>3. ASSUME NEW t \in Tab, Receive(t) PROVE Holds(r)
  <2>0. inbox \in [Tab -> Seq(Message)]
    BY DEF TypeOK
  <2>1. /\ Head(inbox[t]) = inbox[t][1] /\ 1 \in DOMAIN inbox[t] /\ Head(inbox[t]) \in Message
        /\ \A i \in DOMAIN Tail(inbox[t]) : i + 1 \in DOMAIN inbox[t] /\ Tail(inbox[t])[i] = inbox[t][i + 1]
    BY <1>3, HeadIsMessage DEF Receive
  <2>2. /\ acc' = acc \/ acc' = [acc EXCEPT ![t] = inbox[t][1].row] \/ acc' = [acc EXCEPT ![t] = NoRow]
        /\ inbox' = [inbox EXCEPT ![t] = Tail(inbox[t])] /\ UNCHANGED <<jar, carried, reply>>
    BY <1>3, <2>1 DEF Receive, SetToken, ClearLocal, tabs, net
  <2>3. \A o \in Tab : \A i \in DOMAIN inbox'[o] :
             \E j \in DOMAIN inbox[o] : inbox'[o][i] = inbox[o][j]
    <3> SUFFICES ASSUME NEW o \in Tab, NEW i \in DOMAIN inbox'[o]
                 PROVE  \E j \in DOMAIN inbox[o] : inbox'[o][i] = inbox[o][j]
      OBVIOUS
    <3>1. CASE o = t
      BY <2>0, <2>1, <2>2, <3>1
    <3>2. CASE o # t
      BY <2>0, <2>2, <3>2
    <3> QED
      BY <3>1, <3>2
  <2> QED
    BY <1>0, <2>1, <2>2, <2>3 DEF Holds
<1>4. ASSUME NEW c \in Call, FinishLogout(c) PROVE Holds(r)
  <2>1. acc' = [acc EXCEPT ![Home[c]] = NoRow] /\ (jar' = jar \/ jar' = NoRow) /\ UNCHANGED <<carried, reply>>
    BY <1>4 DEF FinishLogout, ClearLocal, net
  <2>2. \A o \in Tab : \A i \in DOMAIN inbox'[o] :
             inbox'[o][i].row = NoRow \/ \E j \in DOMAIN inbox[o] : inbox'[o][i] = inbox[o][j]
    BY <1>0, <1>4, PostRows DEF FinishLogout
  <2> QED
    BY <1>0, <2>1, <2>2 DEF Holds
<1>5. ASSUME NEW t \in Tab, TakeFresh(t) \/ Wake(t) PROVE Holds(r)
  <2>0. UNCHANGED <<jar, acc, inbox>>
    BY <1>5 DEF TakeFresh, Wake, tabs
  <2>1. CASE Finish(t, acc[t])
    BY <1>0, <1>5, <2>0, <2>1 DEF Holds, Finish
  <2>2. CASE carried' = [carried EXCEPT ![t] = jar] /\ UNCHANGED reply
    BY <1>0, <1>5, <2>0, <2>2 DEF Holds
  <2> QED
    BY <1>5, <2>1, <2>2 DEF TakeFresh, Wake
<1>6. ASSUME NEW t \in Tab, SendRefresh(t) PROVE Holds(r)
  BY <1>0, <1>6 DEF SendRefresh, Holds, tabs
<1>7. ASSUME NEW t \in Tab, NEW n \in Row, ServeRefresh(t, n), n # r PROVE Holds(r)
  <2>1. UNCHANGED <<jar, acc, carried, inbox>>
    BY <1>7 DEF ServeRefresh, tabs
  <2>2. CASE reply' = [reply EXCEPT ![t] = [code |-> "200", row |-> n]]
    BY <1>0, <1>7, <2>1, <2>2 DEF Holds
  <2>3. CASE reply' = [reply EXCEPT ![t].code = "500"]
    BY <1>0, <2>1, <2>3 DEF Holds
  <2> QED
    BY <1>7, <2>2, <2>3 DEF ServeRefresh
<1>8. ASSUME NEW t \in Tab, RefuseRefresh(t) PROVE Holds(r)
  <2>1. UNCHANGED <<jar, acc, carried, inbox>>
    BY <1>8 DEF RefuseRefresh, tabs
  <2>2. PICK a : reply' = [reply EXCEPT ![t].code = a]
    BY <1>8 DEF RefuseRefresh
  <2> QED
    BY <1>0, <2>1, <2>2 DEF Holds
<1>9. ASSUME NEW t \in Tab, Renewed(t) PROVE Holds(r)
  <2>1. /\ acc' = [acc EXCEPT ![t] = reply[t].row] /\ jar' = reply[t].row
        /\ carried' = [carried EXCEPT ![t] = NoRow] /\ reply' = [reply EXCEPT ![t] = NoReply]
    BY <1>9 DEF Renewed, SetToken, Finish
  <2>2. \A o \in Tab : \A i \in DOMAIN inbox'[o] :
             inbox'[o][i].row = reply[t].row \/ \E j \in DOMAIN inbox[o] : inbox'[o][i] = inbox[o][j]
    BY <1>0, <1>9, PostRows DEF Renewed
  <2> QED
    BY <1>0, <2>1, <2>2 DEF Holds
<1>10. ASSUME NEW t \in Tab, Sleep(t) PROVE Holds(r)
  BY <1>0, <1>10 DEF Sleep, Holds, tabs
<1>11. ASSUME NEW t \in Tab, Refused(t) PROVE Holds(r)
  <2>1. /\ acc' = [acc EXCEPT ![t] = NoRow] /\ (jar' = jar \/ jar' = NoRow)
        /\ carried' = [carried EXCEPT ![t] = NoRow] /\ reply' = [reply EXCEPT ![t] = NoReply]
    BY <1>11 DEF Refused, ClearLocal, Finish, JarAfter
  <2>2. \A o \in Tab : \A i \in DOMAIN inbox'[o] :
             inbox'[o][i].row = NoRow \/ \E j \in DOMAIN inbox[o] : inbox'[o][i] = inbox[o][j]
    BY <1>0, <1>11, PostRows DEF Refused
  <2>3. Among(NoRow)
    BY <1>0, <2>1, <2>2 DEF Among
  <2> QED
    BY <1>0, <1>1a, <2>3
<1>12. ASSUME NEW t \in Tab, Failed(t) PROVE Holds(r)
  <2>1. /\ acc' = acc \/ acc' = [acc EXCEPT ![t] = NoRow]
        /\ jar' = jar \/ jar' = NoRow
        /\ carried' = [carried EXCEPT ![t] = NoRow] /\ reply' = [reply EXCEPT ![t] = NoReply]
        /\ UNCHANGED inbox
    BY <1>12 DEF Failed, ClearLocal, Finish, JarAfter, tabs
  <2> QED
    BY <1>0, <2>1 DEF Holds
<1>13. ASSUME NEW c \in Call, GaveUp(c) PROVE Holds(r)
  <2>1. /\ acc' = acc \/ acc' = [acc EXCEPT ![Home[c]] = NoRow]
        /\ UNCHANGED <<jar, inbox, carried, reply>>
    BY <1>13 DEF GaveUp, ClearLocal, tabs, net
  <2> QED
    BY <1>0, <2>1 DEF Holds
<1>14. ASSUME NEW c \in Call, StartLogout(c) \/ SendLogout(c) \/ ServeLogout(c) \/ Serve(c) \/ Answered(c)
                              \/ Rejected(c) \/ Start(c) \/ \E u \in User, n \in Row : SignIn(c, u, n)
       PROVE  UNCHANGED <<jar, acc, carried, reply, inbox>>
  BY <1>14 DEF StartLogout, SendLogout, ServeLogout, Serve, Answered, Rejected, Start, SignIn, StartRefresh, tabs, net
<1>15. CASE Tick \/ UNCHANGED vars
  BY <1>1, <1>15 DEF Tick, vars, tabs, net
<1> QED
  BY <1>0, <1>1, <1>2, <1>3, <1>4, <1>5, <1>6, <1>7, <1>8, <1>9, <1>10, <1>11, <1>12, <1>13, <1>14, <1>15
     DEF Next, RefreshStep, CallStep

\* A caller sends a token that it has been given, or is answered with one.
LEMMA TokenStep ==
    ASSUME TypeOK, FlightInv, [Next]_vars, NEW c \in Call
    PROVE  /\ \/ token'[c] = token[c] \/ token'[c] = NoRow \/ Holds(token'[c])
              \/ \E u \in User : SignIn(c, u, token'[c]) /\ token'[c] \in Row
           /\ pc'[c] = "signed" =>
                 \/ pc[c] = "signed" /\ token'[c] = token[c] /\ ~AcceptSignIn(c)
                 \/ \E u \in User : SignIn(c, u, token'[c]) /\ token'[c] \in Row
<1> DEFINE Same == pc'[c] = pc[c] /\ token'[c] = token[c]
           Ends == pc'[c] = "idle" /\ (token'[c] = token[c] \/ token'[c] = NoRow)
           Goes == pc'[c] \notin {"signed", "idle"} /\ (token'[c] = token[c] \/ Holds(token'[c]))
           Signs == \E u \in User : SignIn(c, u, token'[c]) /\ token'[c] \in Row
<1> SUFFICES (Same \/ Ends \/ Goes \/ Signs) /\ (AcceptSignIn(c) => Ends)
  BY DEF Holds
<1>0. /\ pc \in [Call -> CallPc] /\ token \in [Call -> MaybeRow] /\ reply \in [Tab -> [code : Answer, row : MaybeRow]]
      /\ acc \in [Tab -> MaybeRow] /\ NoRow \in MaybeRow /\ env.users \subseteq User /\ env.calls \subseteq Call
      /\ Home \in [Call -> Tab]
  <2>1. NoRow \in MaybeRow /\ env.users \subseteq User /\ env.calls \subseteq Call /\ Home \in [Call -> Tab]
    BY SettingType DEF NoRow, MaybeRow
  <2>2. pc \in [Call -> CallPc]
    BY TypeFrame DEF TypeOK, CallPc
  <2> QED
    BY <2>1, <2>2 DEF TypeOK
<1>1. ASSUME NEW t \in Tab, NEW r \in MaybeRow, Finish(t, r), r # NoRow => Holds(r) PROVE Same \/ Ends \/ Goes
  BY <1>1, FinishShape DEF FinishEffect
<1>2. ASSUME NEW t \in Tab, RefreshStep(t) PROVE Same \/ Ends \/ Goes
  <2>1. CASE TakeFresh(t)
    BY <1>0, <1>1, <2>1 DEF TakeFresh, Holds
  <2>2. CASE Renewed(t)
    BY <1>0, <1>1, <2>2 DEF Renewed, Holds
  <2>3. CASE Refused(t) \/ Failed(t)
    BY <1>0, <1>1, <2>3 DEF Refused, Failed
  <2>4. CASE Wake(t)
    BY <1>0, <1>1, <2>4 DEF Wake, Holds
  <2>5. CASE SendRefresh(t) \/ RefuseRefresh(t) \/ Sleep(t) \/ \E n \in Row : ServeRefresh(t, n)
    BY <2>5 DEF SendRefresh, RefuseRefresh, Sleep, ServeRefresh, calls
  <2> QED
    BY <1>2, <2>1, <2>2, <2>3, <2>4, <2>5 DEF RefreshStep
<1>3. ASSUME NEW d \in Call, CallStep(d) PROVE Same \/ Ends \/ Goes
  <2>1. CASE AcceptSignIn(d) \/ FinishLogout(d)
    BY <1>0, <2>1 DEF AcceptSignIn, FinishLogout
  <2>2. CASE SendLogout(d)
    BY <1>0, <2>2 DEF SendLogout, Holds
  <2>3. CASE ServeLogout(d) \/ Serve(d)
    BY <1>0, <2>3 DEF ServeLogout, Serve
  <2>4. CASE Answered(d) \/ GaveUp(d)
    BY <1>0, <2>4 DEF Answered, GaveUp, EndCall
  <2>5. CASE Rejected(d)
    BY <1>0, <2>5 DEF Rejected
  <2> QED
    BY <1>3, <2>1, <2>2, <2>3, <2>4, <2>5 DEF CallStep
<1>4. ASSUME NEW d \in Call, Start(d) PROVE Same \/ Goes
  <2>1. CASE Fresh(acc[Home[d]])
    <3>1. pc' = [pc EXCEPT ![d] = "send"] /\ token' = [token EXCEPT ![d] = acc[Home[d]]]
      BY <1>4, <2>1 DEF Start
    <3> QED
      BY <1>0, <3>1 DEF Holds
  <2>2. CASE ~Fresh(acc[Home[d]])
    <3>1. pc' = [pc EXCEPT ![d] = "join"] /\ UNCHANGED token
      BY <1>4, <2>2 DEF Start
    <3> QED
      BY <1>0, <3>1
  <2> QED
    BY <2>1, <2>2
<1>5. ASSUME NEW d \in Call, StartLogout(d) PROVE Same \/ Goes
  BY <1>0, <1>5 DEF StartLogout
<1>6. ASSUME NEW d \in Call, NEW u \in User, NEW n \in Row, SignIn(d, u, n) PROVE Same \/ Signs
  <2>1. pc' = [pc EXCEPT ![d] = "signed"] /\ token' = [token EXCEPT ![d] = n]
    BY <1>6 DEF SignIn
  <2> QED
    BY <1>0, <1>6, <2>1
<1>7. ASSUME Tick \/ UNCHANGED vars \/ \E t \in Tab : Receive(t) PROVE Same
  BY <1>7 DEF Tick, Receive, vars, calls
<1>8. AcceptSignIn(c) => Ends
  BY <1>0 DEF AcceptSignIn
<1> HIDE DEF Same, Ends, Goes, Signs
<1> QED
  BY <1>0, <1>2, <1>3, <1>4, <1>5, <1>6, <1>7, <1>8 DEF Next

LEMMA RefStep ==
    ASSUME TypeOK, RowInv, RefInv, FlightInv, SignedInv, [Next]_vars
    PROVE  RefInv'
<1> SUFFICES ASSUME NEW r \in Row, Holds(r)' \/ \E c \in Call : token'[c] = r
             PROVE  Issued(r)'
  BY DEF RefInv
<1>0. status \in [Row -> {"absent", "live", "rotated", "revoked"}] /\ NoRow \notin Row /\ carried \in [Tab -> MaybeRow]
  BY SettingType DEF TypeOK, NoRow, Row
<1>1. Issued(r) => Issued(r)'
  BY RowStep
<1>2. Holds(r) => Issued(r)
  BY DEF RefInv
<1>3. ASSUME NEW c \in Call, NEW u \in User, SignIn(c, u, r) PROVE Issued(r)'
  BY <1>0, <1>3 DEF SignIn, Issued
<1>4. ASSUME NEW t \in Tab, ServeRefresh(t, r) PROVE Issued(r)'
  <2>1. status' = [status EXCEPT ![carried[t]] = "rotated", ![r] = "live"]
    BY <1>4 DEF ServeRefresh
  <2> QED
    BY <1>0, <2>1 DEF Issued
<1>5. ASSUME Holds(r)' PROVE Issued(r)'
  <2>1. \A c \in Call : AcceptSignIn(c) => Issued(token[c])
    BY DEF AcceptSignIn, SignedInv, Private
  <2> QED
    BY <1>1, <1>2, <1>4, <1>5, <2>1, HoldsStep
<1>6. ASSUME NEW c \in Call, token'[c] = r PROVE Issued(r)'
  <2>1. token[c] = r => Issued(r)
    BY DEF RefInv
  <2> QED
    BY <1>0, <1>1, <1>2, <1>3, <1>6, <2>1, TokenStep
<1> QED
  BY <1>5, <1>6

LEMMA SignedStep ==
    ASSUME TypeOK, RowInv, RefInv, FlightInv, SignedInv, [Next]_vars
    PROVE  SignedInv'
<1> SUFFICES ASSUME NEW c \in Call, pc'[c] = "signed"
             PROVE  \E r : r = token'[c] /\ Private(r)' /\ \A d \in Call \ {c} : token'[d] # r
  <2>1. SignedInv' <=> \A c \in Call : pc'[c] = "signed" => Private(token[c])' /\ \A d \in Call \ {c} : token'[d] # token'[c]
    BY DEF SignedInv
  <2>2. \A c \in Call : \A r : r = token'[c] /\ Private(r)' => Private(token[c])'
    BY DEF Private, Issued, Holds
  <2> QED
    BY <2>1, <2>2
<1>0. /\ status \in [Row -> {"absent", "live", "rotated", "revoked"}] /\ NoRow \notin Row
      /\ carried \in [Tab -> MaybeRow] /\ root \in [Row -> MaybeRow] /\ token \in [Call -> MaybeRow]
      /\ \A r \in MaybeRow : r # NoRow => r \in Row
  BY SettingType DEF TypeOK, NoRow, Row, MaybeRow
<1> PICK r : r = token'[c]
  OBVIOUS
<1> SUFFICES /\ r \in Row /\ status'[r] = "live" /\ root'[r] = r /\ ~Holds(r)'
             /\ \A s \in Row : root'[s] = r => s = r
             /\ \A d \in Call \ {c} : token'[d] # r
  BY DEF Private, Issued, Holds
<1>1. CASE \E u \in User : SignIn(c, u, r) /\ r \in Row
  <2>1. PICK u \in User : SignIn(c, u, r) /\ r \in Row
    BY <1>1
  <2>2. /\ status' = [status EXCEPT ![r] = "live"] /\ root' = [root EXCEPT ![r] = r]
        /\ token' = [token EXCEPT ![c] = r] /\ status[r] = "absent"
    BY <2>1 DEF SignIn, Unissued
  <2>3. UNCHANGED <<jar, acc, carried, reply, inbox>>
    BY <2>1 DEF SignIn, tabs, net
  <2>4. ~Issued(r)
    BY <2>2 DEF Issued
  <2>5. ~Holds(r)'
    <3>1. ~Holds(r)
      BY <2>1, <2>4 DEF RefInv
    <3> QED
      BY <2>3, <3>1 DEF Holds
  <2>6. \A s \in Row : root[s] = r => s = r
    BY <1>0, <2>1, <2>4 DEF RowInv
  <2>7. \A d \in Call : token[d] # r
    BY <2>1, <2>4 DEF RefInv
  <2> QED
    BY <1>0, <2>1, <2>2, <2>5, <2>6, <2>7
<1>2. CASE pc[c] = "signed" /\ r = token[c] /\ ~AcceptSignIn(c)
  <2>1. /\ r \in Row /\ Issued(r) /\ status[r] = "live" /\ root[r] = r /\ ~Holds(r)
        /\ \A s \in Row : root[s] = r => s = r
        /\ \A d \in Call \ {c} : token[d] # r
    BY <1>2 DEF SignedInv, Private, Issued
  <2>2. \A t \in Tab, n \in Row : ServeRefresh(t, n) => n # r /\ carried[t] # r /\ carried[t] \in Row
                    /\ status' = [status EXCEPT ![carried[t]] = "rotated", ![n] = "live"]
                    /\ root' = [root EXCEPT ![n] = root[carried[t]]]
    BY <1>0, <2>1 DEF ServeRefresh, Unissued, Holds, StatusOf
  <2>3. \A d \in Call, u \in User, n \in Row : SignIn(d, u, n) => n # r /\ d # c
                    /\ status' = [status EXCEPT ![n] = "live"] /\ root' = [root EXCEPT ![n] = n]
    BY <1>2, <2>1 DEF SignIn, Unissued
  <2>4. ~Holds(r)'
    <3>1. ASSUME NEW d \in Call, AcceptSignIn(d), token[d] = r PROVE FALSE
      BY <1>2, <2>1, <3>1
    <3> QED
      BY <2>1, <2>2, <3>1, HoldsStep
  <2>5. \A d \in Call \ {c} : token'[d] # r
    BY <1>0, <2>1, <2>3, TokenStep
  <2>6. status'[r] = "live" /\ root'[r] = r /\ \A s \in Row : root'[s] = r => s = r
    <3>0. ASSUME NEW q \in Row, q # r, RevokeFamily(q), UNCHANGED root
          PROVE status'[r] = "live" /\ root'[r] = r /\ \A s \in Row : root'[s] = r => s = r
      BY <1>0, <2>1, <3>0 DEF RevokeFamily
    <3>1. CASE UNCHANGED server
      BY <2>1, <3>1 DEF server
    <3>2. ASSUME NEW d \in Call, NEW u \in User, NEW n \in Row, SignIn(d, u, n)
          PROVE status'[r] = "live" /\ root'[r] = r /\ \A s \in Row : root'[s] = r => s = r
      BY <1>0, <2>1, <2>3, <3>2
    <3>3. ASSUME NEW d \in Call, ServeLogout(d)
          PROVE status'[r] = "live" /\ root'[r] = r /\ \A s \in Row : root'[s] = r => s = r
      <4>1. d # c /\ UNCHANGED root /\ (UNCHANGED status \/ (token[d] # NoRow /\ RevokeFamily(token[d])))
        BY <1>2, <3>3 DEF ServeLogout
      <4> QED
        BY <1>0, <2>1, <3>0, <4>1
    <3>4. ASSUME NEW t \in Tab, NEW n \in Row, ServeRefresh(t, n)
          PROVE status'[r] = "live" /\ root'[r] = r /\ \A s \in Row : root'[s] = r => s = r
      BY <1>0, <2>1, <2>2, <3>4
    <3>5. ASSUME NEW t \in Tab, RefuseRefresh(t)
          PROVE status'[r] = "live" /\ root'[r] = r /\ \A s \in Row : root'[s] = r => s = r
      <4>1. UNCHANGED root /\ (UNCHANGED status \/ (carried[t] # NoRow /\ RevokeFamily(carried[t])))
        BY <3>5 DEF RefuseRefresh, StatusOf
      <4>2. carried[t] # r
        BY <2>1 DEF Holds
      <4> QED
        BY <1>0, <2>1, <3>0, <4>1, <4>2
    <3> QED
      BY <3>1, <3>2, <3>3, <3>4, <3>5, ServerSteps
  <2> QED
    BY <2>1, <2>4, <2>5, <2>6
<1> QED
  BY <1>1, <1>2, TokenStep

-------------------------------------------------------------------------------
(* Refreshes and requests one by one.                                      *)

\* The ends of a refresh.
Ended(t) ==
    /\ TakeFresh(t) \/ Renewed(t) \/ Refused(t) \/ Failed(t) \/ Wake(t)
    /\ \E r \in MaybeRow : Finish(t, r) /\ FinishEffect(t, r)
    /\ flight'[t] \in {"none", "lock"} /\ carried'[t] = NoRow /\ reply'[t] = NoReply /\ attempt'[t] = 0

LEMMA EndsByFinish ==
    ASSUME TypeOK, NEW t \in Tab, NEW r \in MaybeRow, Finish(t, r),
           TakeFresh(t) \/ Renewed(t) \/ Refused(t) \/ Failed(t) \/ Wake(t)
    PROVE  Ended(t)
<1>1. FinishEffect(t, r)
  BY FinishShape
<1>2. /\ carried \in [Tab -> MaybeRow] /\ attempt \in [Tab -> Attempt]
      /\ reply \in [Tab -> [code : Answer, row : MaybeRow]]
  BY DEF TypeOK
<1>3. /\ flight'[t] \in {"none", "lock"} /\ carried'[t] = NoRow /\ reply'[t] = NoReply /\ attempt'[t] = 0
  BY <1>1, <1>2 DEF FinishEffect
<1> QED
  BY <1>1, <1>3 DEF Ended

LEMMA RowFacts ==
    /\ NoRow \in MaybeRow /\ NoRow \notin Row /\ Row \subseteq MaybeRow
    /\ \A r \in MaybeRow : r # NoRow => r \in Row
<1>1. MaxRows \in Nat \ {0}
  BY SessionAssumption
<1> QED
  BY <1>1 DEF NoRow, MaybeRow, Row

\* What a step does to the refresh of a tab.
LEMMA NetStep ==
    ASSUME TypeOK, [Next]_vars, NEW t \in Tab
    PROVE  \/ /\ flight'[t] = flight[t] \/ (flight[t] = "none" /\ flight'[t] = "lock")
              /\ carried'[t] = carried[t] /\ reply'[t] = reply[t] /\ attempt'[t] = attempt[t]
           \/ Settled /\ Ended(t)
           \/ Settled /\ SendRefresh(t)
           \/ Settled /\ \E n \in Row : ServeRefresh(t, n)
           \/ Settled /\ RefuseRefresh(t)
           \/ Settled /\ Sleep(t)
           \/ /\ Settled /\ Wake(t) /\ flight' = [flight EXCEPT ![t] = "wire"]
              /\ attempt' = [attempt EXCEPT ![t] = @ + 1]
              /\ carried' = [carried EXCEPT ![t] = jar]
              /\ UNCHANGED <<line, stale, reply, pc, token, code, kind>>
<1> DEFINE Same == /\ flight'[t] = flight[t] \/ (flight[t] = "none" /\ flight'[t] = "lock")
                   /\ carried'[t] = carried[t] /\ reply'[t] = reply[t] /\ attempt'[t] = attempt[t]
           Again == /\ Wake(t) /\ flight' = [flight EXCEPT ![t] = "wire"]
                    /\ attempt' = [attempt EXCEPT ![t] = @ + 1]
                    /\ carried' = [carried EXCEPT ![t] = jar]
                    /\ UNCHANGED <<line, stale, reply, pc, token, code, kind>>
<1>0. /\ flight \in [Tab -> {"none", "lock", "wire", "reply", "sleep"}]
      /\ carried \in [Tab -> MaybeRow] /\ attempt \in [Tab -> Attempt]
      /\ reply \in [Tab -> [code : Answer, row : MaybeRow]] /\ acc \in [Tab -> MaybeRow]
      /\ NoRow \in MaybeRow /\ Home \in [Call -> Tab] /\ token \in [Call -> MaybeRow] /\ env.calls \subseteq Call
  BY SettingType, RowFacts DEF TypeOK
<1>1. ASSUME NEW o \in Tab, NEW r \in MaybeRow, Finish(o, r),
             TakeFresh(o) \/ Renewed(o) \/ Refused(o) \/ Failed(o) \/ Wake(o)
      PROVE  Same \/ Ended(t)
  <2>1. FinishEffect(o, r)
    BY <1>1, FinishShape
  <2>2. CASE o = t
    BY <1>0, <1>1, <2>1, <2>2 DEF FinishEffect, Ended
  <2>3. CASE o # t
    BY <1>0, <2>1, <2>3 DEF FinishEffect
  <2> QED
    BY <2>2, <2>3
<1>2. ASSUME NEW o \in Tab, TakeFresh(o) \/ Renewed(o) \/ Refused(o) \/ Failed(o) PROVE Same \/ Ended(t)
  <2>1. \E r \in MaybeRow : Finish(o, r)
    BY <1>0, <1>2 DEF TakeFresh, Renewed, Refused, Failed
  <2> QED
    BY <1>1, <1>2, <2>1
<1>3. ASSUME NEW o \in Tab, Wake(o) PROVE Same \/ Ended(t) \/ Again
  <2>1. CASE Finish(o, acc[o])
    BY <1>0, <1>1, <1>3, <2>1
  <2>2. CASE /\ flight' = [flight EXCEPT ![o] = "wire"]
             /\ attempt' = [attempt EXCEPT ![o] = @ + 1]
             /\ carried' = [carried EXCEPT ![o] = jar]
             /\ UNCHANGED <<line, stale, reply, pc, token, code, kind>>
    <3>1. CASE o = t
      BY <1>3, <2>2, <3>1
    <3>2. CASE o # t
      BY <1>0, <2>2, <3>2
    <3> QED
      BY <3>1, <3>2
  <2> QED
    BY <1>3, <2>1, <2>2 DEF Wake
<1>4. ASSUME NEW o \in Tab, SendRefresh(o), o # t PROVE Same
  BY <1>0, <1>4 DEF SendRefresh
<1>5. ASSUME NEW o \in Tab, NEW n \in Row, ServeRefresh(o, n), o # t PROVE Same
  BY <1>0, <1>5 DEF ServeRefresh
<1>6. ASSUME NEW o \in Tab, RefuseRefresh(o), o # t PROVE Same
  <2>1. PICK a : reply' = [reply EXCEPT ![o].code = a]
    BY <1>6 DEF RefuseRefresh
  <2> QED
    BY <1>0, <1>6, <2>1 DEF RefuseRefresh
<1>7. ASSUME NEW o \in Tab, Sleep(o), o # t PROVE Same
  BY <1>0, <1>7 DEF Sleep
<1>8. ASSUME NEW c \in Call, Start(c) \/ Rejected(c) PROVE Same
  <2>1. UNCHANGED net \/ \E s \in MaybeRow : StartRefresh(Home[c], s)
    BY <1>0, <1>8 DEF Start, Rejected
  <2> QED
    BY <1>0, <2>1, StartRefreshType DEF net
<1>9. ASSUME NEW c \in Call, AcceptSignIn(c) \/ SendLogout(c) \/ ServeLogout(c) \/ FinishLogout(c) \/ Serve(c)
                   \/ Answered(c) \/ GaveUp(c) \/ StartLogout(c) \/ \E u \in User, n \in Row : SignIn(c, u, n)
      PROVE  Same
  BY <1>9 DEF AcceptSignIn, SendLogout, ServeLogout, FinishLogout, Serve, Answered, GaveUp, StartLogout, SignIn, net
<1>10. ASSUME Tick \/ UNCHANGED vars \/ \E o \in Tab : Receive(o) PROVE Same
  BY <1>10 DEF Tick, Receive, vars, net
<1>11. env.users \subseteq User
  BY SettingType
<1> HIDE DEF Same, Again
<1>12. ASSUME NEW o \in Tab, RefreshStep(o)
       PROVE  \/ Same \/ (Settled /\ Ended(t)) \/ (Settled /\ SendRefresh(t))
              \/ (Settled /\ \E n \in Row : ServeRefresh(t, n))
              \/ (Settled /\ RefuseRefresh(t)) \/ (Settled /\ Sleep(t)) \/ (Settled /\ Again)
  BY <1>2, <1>3, <1>4, <1>5, <1>6, <1>7, <1>12 DEF RefreshStep
<1>13. ASSUME NEW c \in Call, CallStep(c) PROVE Same
  BY <1>8, <1>9, <1>13 DEF CallStep
<1>14. \/ Same \/ (Settled /\ Ended(t)) \/ (Settled /\ SendRefresh(t))
       \/ (Settled /\ \E n \in Row : ServeRefresh(t, n))
       \/ (Settled /\ RefuseRefresh(t)) \/ (Settled /\ Sleep(t)) \/ (Settled /\ Again)
  BY <1>0, <1>8, <1>9, <1>10, <1>11, <1>12, <1>13 DEF Next
<1> QED
  BY <1>14 DEF Same, Again

\* What a step does to a caller.
LEMMA CallerStep ==
    ASSUME TypeOK, [Next]_vars, NEW c \in Call
    PROVE  \/ pc'[c] = pc[c] /\ token'[c] = token[c] /\ code'[c] = code[c]
           \/ \E u \in User, n \in Row : SignIn(c, u, n)
           \/ Settled /\ AcceptSignIn(c)
           \/ Settled /\ StartLogout(c)
           \/ Settled /\ SendLogout(c)
           \/ Settled /\ ServeLogout(c)
           \/ Settled /\ FinishLogout(c)
           \/ Settled /\ Start(c)
           \/ Settled /\ Serve(c)
           \/ Settled /\ (Answered(c) \/ GaveUp(c))
           \/ Settled /\ Rejected(c)
           \/ \E t \in Tab, r \in MaybeRow :
                 /\ Settled /\ Ended(t) /\ FinishEffect(t, r)
                 /\ pc[c] \in Waits /\ token'[c] = r /\ code'[c] = code[c]
                 /\ \/ r = NoRow /\ pc'[c] = "idle"
                    \/ r # NoRow /\ pc'[c] \in {"send", "resend"}
<1> DEFINE Same == pc'[c] = pc[c] /\ token'[c] = token[c] /\ code'[c] = code[c]
           Goes == \E t \in Tab, r \in MaybeRow :
                      /\ Settled /\ Ended(t) /\ FinishEffect(t, r)
                      /\ pc[c] \in Waits /\ token'[c] = r /\ code'[c] = code[c]
                      /\ \/ r = NoRow /\ pc'[c] = "idle"
                         \/ r # NoRow /\ pc'[c] \in {"send", "resend"}
<1>0. /\ pc \in [Call -> CallPc] /\ token \in [Call -> MaybeRow] /\ code \in [Call -> Answer]
      /\ env.users \subseteq User /\ env.calls \subseteq Call
  BY TypeFrame, SettingType DEF TypeOK, CallPc
<1>1. ASSUME NEW o \in Tab, RefreshStep(o) PROVE Same \/ Goes
  <2>1. ASSUME Ended(o) PROVE Same \/ Goes
    <3>1. PICK r \in MaybeRow : FinishEffect(o, r)
      BY <2>1 DEF Ended
    <3>2. \/ pc'[c] = pc[c] /\ token'[c] = token[c]
          \/ /\ pc[c] \in Waits /\ token'[c] = r
             /\ \/ r = NoRow /\ pc'[c] = "idle"
                \/ r # NoRow /\ pc'[c] \in {"send", "resend"}
      BY <3>1 DEF FinishEffect
    <3>3. code' = code /\ Settled
      BY <1>1, <3>1 DEF FinishEffect, RefreshStep
    <3> QED
      BY <2>1, <3>1, <3>2, <3>3
  <2>2. CASE TakeFresh(o) \/ Renewed(o) \/ Refused(o) \/ Failed(o)
    <3>1. \E r \in MaybeRow : Finish(o, r)
      BY <2>2, RowFacts DEF TakeFresh, Renewed, Refused, Failed, TypeOK
    <3>2. Ended(o)
      BY <2>2, <3>1, EndsByFinish
    <3> QED
      BY <2>1, <3>2
  <2>3. CASE Wake(o)
    <3>1. CASE Finish(o, acc[o])
      <4>1. Ended(o)
        BY <2>3, <3>1, EndsByFinish DEF TypeOK
      <4> QED
        BY <2>1, <4>1
    <3>2. CASE UNCHANGED <<line, stale, reply, pc, token, code, kind>>
      BY <3>2
    <3> QED
      BY <2>3, <3>1, <3>2 DEF Wake
  <2>4. CASE SendRefresh(o) \/ RefuseRefresh(o) \/ Sleep(o) \/ \E n \in Row : ServeRefresh(o, n)
    BY <2>4 DEF SendRefresh, RefuseRefresh, Sleep, ServeRefresh, calls
  <2> QED
    BY <1>1, <2>2, <2>3, <2>4 DEF RefreshStep
<1> HIDE DEF Goes
<1>2. ASSUME NEW d \in Call, d # c, AcceptSignIn(d) \/ StartLogout(d) \/ SendLogout(d) \/ ServeLogout(d)
                   \/ FinishLogout(d) \/ Serve(d) \/ Answered(d) \/ GaveUp(d) \/ Rejected(d)
      PROVE  Same
  BY <1>0, <1>2 DEF AcceptSignIn, StartLogout, SendLogout, ServeLogout, FinishLogout, Serve, Answered, GaveUp,
     Rejected, EndCall
<1>3. ASSUME NEW d \in Call, d # c, NEW u, NEW n, SignIn(d, u, n) PROVE Same
  BY <1>0, <1>3 DEF SignIn
<1>4. ASSUME NEW d \in Call, d # c, Start(d) PROVE Same
  BY <1>0, <1>4 DEF Start
<1>5. ASSUME Tick \/ UNCHANGED vars \/ \E o \in Tab : Receive(o) PROVE Same
  BY <1>5 DEF Tick, Receive, vars, calls
<1> HIDE DEF Same
<1>6. \/ Same \/ Goes \/ (\E u \in User, n \in Row : SignIn(c, u, n)) \/ (Settled /\ AcceptSignIn(c))
      \/ (Settled /\ StartLogout(c)) \/ (Settled /\ SendLogout(c)) \/ (Settled /\ ServeLogout(c))
      \/ (Settled /\ FinishLogout(c)) \/ (Settled /\ Start(c)) \/ (Settled /\ Serve(c))
      \/ (Settled /\ (Answered(c) \/ GaveUp(c))) \/ (Settled /\ Rejected(c))
  BY <1>0, <1>1, <1>2, <1>3, <1>4, <1>5 DEF Next, CallStep
<1> QED
  BY <1>6 DEF Same, Goes

LEMMA FlightStep ==
    ASSUME TypeOK, RefInv, FlightInv, [Next]_vars
    PROVE  FlightInv'
<1>0. /\ flight \in [Tab -> {"none", "lock", "wire", "reply", "sleep"}]
      /\ carried \in [Tab -> MaybeRow] /\ attempt \in [Tab -> Attempt]
      /\ reply \in [Tab -> [code : Answer, row : MaybeRow]] /\ acc \in [Tab -> MaybeRow]
      /\ pc \in [Call -> CallPc] /\ token \in [Call -> MaybeRow] /\ code \in [Call -> Answer]
  BY TypeFrame DEF TypeOK, CallPc
<1>1. MayFail' = MayFail
  BY ServerSteps DEF MayFail
<1>2. ASSUME NEW t \in Tab
      PROVE  /\ carried'[t] # NoRow => flight'[t] \in {"wire", "reply", "sleep"}
             /\ flight'[t] # "reply" => reply'[t] = NoReply
             /\ flight'[t] = "reply" => reply'[t].code # "none"
             /\ flight'[t] = "sleep" => attempt'[t] < 2
             /\ reply'[t].code = "200" => carried'[t] # NoRow /\ reply'[t].row # NoRow
             /\ ~MayFail => reply'[t].code # "500"
  <2>0. /\ carried[t] # NoRow => flight[t] \in {"wire", "reply", "sleep"}
        /\ flight[t] # "reply" => reply[t] = NoReply
        /\ flight[t] = "reply" => reply[t].code # "none"
        /\ flight[t] = "sleep" => attempt[t] < 2
        /\ reply[t].code = "200" => carried[t] # NoRow /\ reply[t].row # NoRow
        /\ ~MayFail => reply[t].code # "500"
        /\ NoReply.code = "none" /\ NoReply.row = NoRow
    BY DEF FlightInv, NoReply
  <2>1. CASE /\ flight'[t] = flight[t] \/ (flight[t] = "none" /\ flight'[t] = "lock")
             /\ carried'[t] = carried[t] /\ reply'[t] = reply[t] /\ attempt'[t] = attempt[t]
    BY <2>0, <2>1
  <2>2. CASE Ended(t)
    <3>1. flight'[t] \in {"none", "lock"} /\ carried'[t] = NoRow /\ reply'[t] = NoReply
      BY <2>2 DEF Ended
    <3> QED
      BY <2>0, <3>1
  <2>3. CASE SendRefresh(t)
    <3>1. flight[t] = "lock" /\ flight'[t] = "wire" /\ reply'[t] = reply[t]
      BY <1>0, <2>3 DEF SendRefresh
    <3> QED
      BY <2>0, <3>1
  <2>4. ASSUME NEW n \in Row, ServeRefresh(t, n)
        PROVE  /\ flight[t] = "wire" /\ flight'[t] = "reply" /\ carried[t] # NoRow /\ carried' = carried
               /\ \/ reply'[t] = [code |-> "200", row |-> n]
                  \/ MayFail /\ reply'[t].code = "500"
    BY <1>0, <2>4 DEF ServeRefresh, StatusOf
  <2>5. CASE \E n \in Row : ServeRefresh(t, n)
    <3>1. PICK n \in Row : ServeRefresh(t, n)
      BY <2>5
    <3>2. CASE reply'[t] = [code |-> "200", row |-> n]
      <4>1. reply'[t].code = "200" /\ reply'[t].row = n /\ n # NoRow
        BY <3>2, RowFacts
      <4> QED
        BY <2>4, <3>1, <4>1
    <3>3. CASE MayFail /\ reply'[t].code = "500"
      BY <2>4, <3>1, <3>3
    <3> QED
      BY <2>4, <3>1, <3>2, <3>3
  <2>6. CASE RefuseRefresh(t)
    <3>1. flight'[t] = "reply" /\ carried' = carried
      BY <1>0, <2>6 DEF RefuseRefresh
    <3>2. reply'[t].code \in {"401", "409"} \/ (MayFail /\ reply'[t].code = "500")
      <4>1. Refusal(carried[t]) \in {"401", "409"}
        BY DEF Refusal
      <4>2. PICK a : /\ reply' = [reply EXCEPT ![t].code = a]
                     /\ a = Refusal(carried[t]) \/ (MayFail /\ a = "500")
        BY <2>6 DEF RefuseRefresh
      <4>3. reply'[t].code = a
        BY <1>0, <4>2
      <4> QED
        BY <4>1, <4>2, <4>3
    <3> QED
      BY <3>1, <3>2
  <2>7. CASE Sleep(t)
    <3>1. flight[t] = "reply" /\ attempt[t] < 2 /\ flight'[t] = "sleep" /\ reply'[t] = NoReply /\ UNCHANGED <<attempt, carried>>
      BY <1>0, <2>7 DEF Sleep
    <3> QED
      BY <2>0, <3>1
  <2>8. CASE /\ Wake(t) /\ flight' = [flight EXCEPT ![t] = "wire"]
             /\ UNCHANGED <<line, stale, reply, pc, token, code, kind>>
    <3>1. flight[t] = "sleep" /\ flight'[t] = "wire" /\ reply'[t] = reply[t]
      BY <1>0, <2>8 DEF Wake
    <3> QED
      BY <2>0, <3>1
  <2> QED
    BY <2>1, <2>2, <2>3, <2>5, <2>6, <2>7, <2>8, NetStep
<1>3. ASSUME NEW c \in Call
      PROVE  /\ pc'[c] \in {"answer", "reanswer"} /\ code'[c] = "200" => token'[c] # NoRow
             /\ ~MayFail /\ pc'[c] = "bye" => code'[c] = "200"
  <2>0. /\ pc[c] \in {"answer", "reanswer"} /\ code[c] = "200" => token[c] # NoRow
        /\ ~MayFail /\ pc[c] = "bye" => code[c] = "200"
    BY DEF FlightInv
  <2>1. CASE pc'[c] = pc[c] /\ token'[c] = token[c] /\ code'[c] = code[c]
    BY <2>0, <2>1
  <2>2. CASE (\E u \in User, n \in Row : SignIn(c, u, n)) \/ AcceptSignIn(c) \/ StartLogout(c) \/ SendLogout(c)
             \/ FinishLogout(c) \/ Answered(c) \/ GaveUp(c) \/ Rejected(c)
    <3>1. pc'[c] \in {"signed", "idle", "lock", "logout", "rejoin"}
      BY <1>0, <2>2 DEF SignIn, AcceptSignIn, StartLogout, SendLogout, FinishLogout, Answered, GaveUp, Rejected, EndCall
    <3> QED
      BY <3>1
  <2>3. CASE Start(c)
    <3>1. pc'[c] \in {"send", "join"}
      BY <1>0, <2>3 DEF Start
    <3> QED
      BY <3>1
  <2>4. CASE ServeLogout(c)
    BY <1>0, <2>4 DEF ServeLogout
  <2>5. CASE Serve(c)
    BY <1>0, <2>5 DEF Serve, Accepts
  <2>6. CASE pc'[c] \in {"idle", "send", "resend"}
    BY <2>6
  <2> QED
    BY <2>1, <2>2, <2>3, <2>4, <2>5, <2>6, CallerStep
<1> QED
  BY <1>1, <1>2, <1>3 DEF FlightInv

-------------------------------------------------------------------------------
(* The lock.                                                               *)

LEMMA GrantedHead ==
    ASSUME TypeOK, HasLocks, NEW a, Granted(a)
    PROVE  line # <<>> /\ Head(line) = a
<1>1. PICK i \in DOMAIN line : line[i] = a /\ \A j \in 1..(i - 1) : ~Rivals(line[j], a)
  BY DEF Granted
<1>2. 1..(i - 1) = {}
  BY <1>1 DEF Rivals
<1>3. line \in Seq(Tab \cup Call)
  BY DEF TypeOK
<1>4. i = 1 /\ line # <<>>
  <2>1. DOMAIN line = 1..Len(line) /\ Len(line) \in Nat
    BY <1>3, LenProperties
  <2>2. i \in 1..Len(line)
    BY <2>1
  <2>3. i > 1 => 1 \in 1..(i - 1)
    BY <2>1, <2>2
  <2>4. i = 1
    BY <1>2, <2>1, <2>2, <2>3
  <2> QED
    BY <2>1, <2>2, <2>4
<1> QED
  BY <1>1, <1>3, <1>4

\* The line grows at its end, except at the end of a refresh or a logout.
LEMMA LineStep ==
    ASSUME TypeOK, [Next]_vars
    PROVE  \/ line' = line
           \/ line' # <<>> /\ (line # <<>> => Head(line') = Head(line))
           \/ \E t \in Tab : Settled /\ Ended(t)
           \/ \E c \in Call : Settled /\ FinishLogout(c)
<1> DEFINE Grows == line' = line \/ (line' # <<>> /\ (line # <<>> => Head(line') = Head(line)))
<1>0. Home \in [Call -> Tab] /\ env.calls \subseteq Call /\ acc \in [Tab -> MaybeRow] /\ NoRow \in MaybeRow
      /\ token \in [Call -> MaybeRow] /\ reply \in [Tab -> [code : Answer, row : MaybeRow]]
  BY SettingType, RowFacts DEF TypeOK
<1>1. ASSUME NEW t \in Tab, RefreshStep(t) PROVE Grows \/ (Settled /\ Ended(t))
  <2>1. CASE TakeFresh(t) \/ Renewed(t) \/ Refused(t) \/ Failed(t)
    <3>1. \E r \in MaybeRow : Finish(t, r)
      BY <1>0, <2>1 DEF TakeFresh, Renewed, Refused, Failed
    <3> QED
      BY <1>1, <2>1, <3>1, EndsByFinish DEF RefreshStep
  <2>2. CASE Wake(t)
    <3>1. Finish(t, acc[t]) \/ UNCHANGED line
      BY <2>2 DEF Wake
    <3> QED
      BY <1>0, <1>1, <2>2, <3>1, EndsByFinish DEF RefreshStep
  <2>3. CASE SendRefresh(t) \/ RefuseRefresh(t) \/ Sleep(t) \/ \E n \in Row : ServeRefresh(t, n)
    BY <2>3 DEF SendRefresh, RefuseRefresh, Sleep, ServeRefresh
  <2> QED
    BY <1>1, <2>1, <2>2, <2>3 DEF RefreshStep
<1>2. ASSUME NEW c \in Call, Start(c) \/ Rejected(c) PROVE Grows
  <2>1. UNCHANGED line \/ \E s \in MaybeRow : StartRefresh(Home[c], s)
    BY <1>0, <1>2 DEF Start, Rejected
  <2> QED
    BY <1>0, <2>1, StartRefreshType
<1>3. ASSUME NEW c \in Call, StartLogout(c) PROVE Grows
  BY <1>3, QueueType DEF StartLogout
<1>4. ASSUME NEW c \in Call, CallStep(c) PROVE Grows \/ (Settled /\ FinishLogout(c))
  <2>1. CASE AcceptSignIn(c) \/ SendLogout(c) \/ ServeLogout(c) \/ Serve(c) \/ Answered(c) \/ GaveUp(c)
    BY <2>1 DEF AcceptSignIn, SendLogout, ServeLogout, Serve, Answered, GaveUp
  <2> QED
    BY <1>2, <1>4, <2>1 DEF CallStep
<1>5. ASSUME NEW c \in Call, NEW u, NEW n, SignIn(c, u, n) PROVE Grows
  BY <1>5 DEF SignIn
<1>6. ASSUME Tick \/ UNCHANGED vars \/ \E o \in Tab : Receive(o) PROVE Grows
  BY <1>6 DEF Tick, Receive, vars
<1>7. Grows \/ (\E t \in Tab : Settled /\ Ended(t)) \/ (\E c \in Call : Settled /\ FinishLogout(c))
  <2> HIDE DEF Grows
  <2> QED
    BY <1>0, <1>1, <1>2, <1>3, <1>4, <1>5, <1>6 DEF Next
<1> QED
  BY <1>7

\* The lock is taken by the one to whom it is granted.
LEMMA HoldingStep ==
    ASSUME TypeOK, [Next]_vars, NEW a \in Holding'
    PROVE  \/ a \in Holding
           \/ a \in Tab /\ SendRefresh(a)
           \/ a \in Call /\ SendLogout(a)
<1>0. /\ flight \in [Tab -> {"none", "lock", "wire", "reply", "sleep"}] /\ pc \in [Call -> CallPc]
  BY TypeFrame DEF TypeOK, CallPc
<1>1. CASE a \in Tab /\ flight'[a] \in {"wire", "reply", "sleep"}
  <2>1. CASE Ended(a)
    BY <1>1, <2>1 DEF Ended
  <2>2. CASE flight[a] \in {"wire", "reply", "sleep"}
    BY <1>1, <2>2 DEF Holding
  <2>3. CASE \/ \E n \in Row : ServeRefresh(a, n)
             \/ RefuseRefresh(a) \/ Sleep(a) \/ Wake(a)
    BY <2>2, <2>3 DEF ServeRefresh, RefuseRefresh, Sleep, Wake
  <2>4. CASE flight'[a] = flight[a] \/ (flight[a] = "none" /\ flight'[a] = "lock")
    BY <1>1, <2>2, <2>4
  <2> QED
    BY <1>1, <2>1, <2>3, <2>4, NetStep
<1>2. CASE a \in Call /\ pc'[a] \in {"logout", "bye"}
  <2>1. CASE pc'[a] = pc[a]
    BY <1>2, <2>1 DEF Holding
  <2>2. CASE (\E u \in User, n \in Row : SignIn(a, u, n)) \/ AcceptSignIn(a) \/ StartLogout(a)
             \/ FinishLogout(a) \/ Answered(a) \/ GaveUp(a) \/ Rejected(a)
    <3>1. pc'[a] \in {"signed", "idle", "lock", "rejoin"}
      BY <1>0, <1>2, <2>2 DEF SignIn, AcceptSignIn, StartLogout, FinishLogout, Answered, GaveUp, Rejected, EndCall
    <3> QED
      BY <1>2, <3>1
  <2>3. CASE Start(a)
    <3>1. pc'[a] \in {"send", "join"}
      BY <1>0, <1>2, <2>3 DEF Start
    <3> QED
      BY <1>2, <3>1
  <2>4. CASE ServeLogout(a)
    BY <1>2, <2>4 DEF ServeLogout, Holding
  <2>5. CASE Serve(a)
    BY <1>0, <1>2, <2>5 DEF Serve
  <2>6. CASE pc'[a] \in {"idle", "send", "resend"}
    BY <1>2, <2>6
  <2> QED
    BY <1>2, <2>1, <2>2, <2>3, <2>4, <2>5, <2>6, CallerStep
<1> QED
  BY <1>1, <1>2 DEF Holding

\* When a refresh or a logout ends nobody has the lock.
LEMMA LockIsFree ==
    ASSUME TypeOK, LockInv, HasLocks, [Next]_vars,
           (\E t \in Tab : Ended(t)) \/ (\E c \in Call : FinishLogout(c))
    PROVE  Holding' = {}
<1> SUFFICES ASSUME NEW a \in Holding' PROVE FALSE
  OBVIOUS
<1>0. /\ Tab \cap Call = {} /\ pc \in [Call -> CallPc]
      /\ flight \in [Tab -> {"none", "lock", "wire", "reply", "sleep"}]
  BY TypeFrame, SettingType DEF TypeOK, CallPc
<1>1. line # <<>> /\ Head(line) = a
  BY HoldingStep, GrantedHead DEF LockInv, SendRefresh, SendLogout
<1>2. ASSUME NEW t \in Tab, Ended(t) PROVE FALSE
  <2>1. Head(line) = t
    <3>1. CASE TakeFresh(t)
      BY <3>1, GrantedHead DEF TakeFresh
    <3>2. CASE Renewed(t) \/ Refused(t) \/ Failed(t) \/ Wake(t)
      BY <3>2 DEF Renewed, Refused, Failed, Wake, LockInv, Holding
    <3> QED
      BY <1>2, <3>1, <3>2 DEF Ended
  <2> QED
    BY <1>0, <1>1, <1>2, <2>1 DEF Ended, Holding
<1>3. ASSUME NEW c \in Call, FinishLogout(c) PROVE FALSE
  <2>1. Head(line) = c
    BY <1>3 DEF FinishLogout, LockInv, Holding
  <2>2. pc'[c] = "idle"
    BY <1>0, <1>3 DEF FinishLogout
  <2> QED
    BY <1>0, <1>1, <1>3, <2>1, <2>2 DEF Holding
<1> QED
  BY <1>2, <1>3

LEMMA LockStep ==
    ASSUME TypeOK, LockInv, [Next]_vars
    PROVE  LockInv'
<1> SUFFICES ASSUME HasLocks, NEW a \in Holding' PROVE line' # <<>> /\ Head(line') = a
  BY ServerSteps DEF LockInv, HasLocks
<1>1. line # <<>> /\ Head(line) = a
  BY HoldingStep, GrantedHead DEF LockInv, SendRefresh, SendLogout
<1> QED
  BY <1>1, LineStep, LockIsFree

-------------------------------------------------------------------------------
(* The cookie.                                                             *)

\* The steps that change the status of a token.
LEMMA StatusStep ==
    ASSUME TypeOK, [Next]_vars, NEW r \in Row
    PROVE  /\ status'[r] = "rotated" =>
                 status[r] = "rotated" \/ \E t \in Tab, n \in Row : ServeRefresh(t, n) /\ carried[t] = r
           /\ status'[r] = "revoked" =>
                 \/ status[r] = "revoked"
                 \/ \E c \in Call : ServeLogout(c)
                 \/ \E t \in Tab : /\ RefuseRefresh(t)
                                   /\ StatusOf(carried[t]) = "rotated" /\ Refusal(carried[t]) = "401"
           /\ Issued(r)' =>
                 \/ Issued(r)
                 \/ \E c \in Call, u \in User : SignIn(c, u, r)
                 \/ \E t \in Tab : ServeRefresh(t, r)
<1>0. /\ status \in [Row -> {"absent", "live", "rotated", "revoked"}] /\ carried \in [Tab -> MaybeRow]
  BY DEF TypeOK
<1> DEFINE Goal ==
           /\ status'[r] = "rotated" =>
                 status[r] = "rotated" \/ \E t \in Tab, n \in Row : ServeRefresh(t, n) /\ carried[t] = r
           /\ status'[r] = "revoked" =>
                 \/ status[r] = "revoked"
                 \/ \E c \in Call : ServeLogout(c)
                 \/ \E t \in Tab : /\ RefuseRefresh(t)
                                   /\ StatusOf(carried[t]) = "rotated" /\ Refusal(carried[t]) = "401"
           /\ status'[r] # "absent" =>
                 \/ status[r] # "absent"
                 \/ \E c \in Call, u \in User : SignIn(c, u, r)
                 \/ \E t \in Tab : ServeRefresh(t, r)
<1>1. ASSUME UNCHANGED status PROVE Goal
  BY <1>1
<1>2. ASSUME NEW c \in Call, NEW u \in User, NEW n \in Row, SignIn(c, u, n) PROVE Goal
  <2>1. status' = [status EXCEPT ![n] = "live"]
    BY <1>2 DEF SignIn
  <2> QED
    BY <1>0, <1>2, <2>1
<1>3. ASSUME NEW c \in Call, ServeLogout(c) PROVE Goal
  <2>1. UNCHANGED status \/ RevokeFamily(token[c])
    BY <1>3 DEF ServeLogout
  <2> QED
    BY <1>0, <1>3, <2>1 DEF RevokeFamily
<1>4. ASSUME NEW t \in Tab, NEW n \in Row, ServeRefresh(t, n) PROVE Goal
  <2>1. status' = [status EXCEPT ![carried[t]] = "rotated", ![n] = "live"]
        /\ StatusOf(carried[t]) = "live"
    BY <1>4 DEF ServeRefresh
  <2> QED
    BY <1>0, <1>4, <2>1 DEF StatusOf
<1>5. ASSUME NEW t \in Tab, RefuseRefresh(t) PROVE Goal
  <2>1. \/ UNCHANGED status
        \/ /\ RevokeFamily(carried[t])
           /\ StatusOf(carried[t]) = "rotated" /\ Refusal(carried[t]) = "401"
    BY <1>5 DEF RefuseRefresh
  <2> QED
    BY <1>0, <1>5, <2>1 DEF RevokeFamily
<1>6. Goal
  <2> HIDE DEF Goal
  <2>1. CASE UNCHANGED server
    BY <1>1, <2>1 DEF server, Goal
  <2> QED
    BY <1>2, <1>3, <1>4, <1>5, <2>1, ServerSteps
<1> QED
  BY <1>6 DEF Issued

\* The steps that change the cookie.
LEMMA JarStep ==
    ASSUME TypeOK, [Next]_vars
    PROVE  \/ jar' = jar
           \/ \E c \in Call : AcceptSignIn(c) /\ jar' = token[c]
           \/ \E c \in Call : FinishLogout(c) /\ jar' = NoRow
           \/ \E t \in Tab : Renewed(t) /\ jar' = reply[t].row
           \/ \E t \in Tab : Refused(t) /\ carried[t] # NoRow /\ jar' = NoRow
           \/ \E t \in Tab : Failed(t) /\ carried[t] # NoRow /\ reply[t].code = "500" /\ jar' = NoRow
<1> DEFINE Goal ==
           \/ jar' = jar
           \/ \E c \in Call : AcceptSignIn(c) /\ jar' = token[c]
           \/ \E c \in Call : FinishLogout(c) /\ jar' = NoRow
           \/ \E t \in Tab : Renewed(t) /\ jar' = reply[t].row
           \/ \E t \in Tab : Refused(t) /\ carried[t] # NoRow /\ jar' = NoRow
           \/ \E t \in Tab : Failed(t) /\ carried[t] # NoRow /\ reply[t].code = "500" /\ jar' = NoRow
<1>0. env.users \subseteq User /\ env.calls \subseteq Call
  BY SettingType
<1>1. ASSUME NEW t \in Tab, RefreshStep(t) PROVE Goal
  <2>1. CASE TakeFresh(t) \/ SendRefresh(t) \/ RefuseRefresh(t) \/ Sleep(t) \/ Wake(t) \/ \E n \in Row : ServeRefresh(t, n)
    BY <2>1 DEF TakeFresh, SendRefresh, RefuseRefresh, Sleep, Wake, ServeRefresh
  <2>2. CASE Renewed(t)
    <3>1. jar' = reply[t].row
      BY <2>2 DEF Renewed
    <3> QED
      BY <2>2, <3>1
  <2>3. CASE Refused(t)
    <3>1. jar' = jar \/ (carried[t] # NoRow /\ jar' = NoRow)
      BY <2>3 DEF Refused, JarAfter
    <3> QED
      BY <2>3, <3>1
  <2>4. CASE Failed(t)
    <3>1. jar' = jar \/ (carried[t] # NoRow /\ reply[t].code = "500" /\ jar' = NoRow)
      BY <2>4 DEF Failed, JarAfter
    <3> QED
      BY <2>4, <3>1
  <2> HIDE DEF Goal
  <2> QED
    BY <1>1, <2>1, <2>2, <2>3, <2>4 DEF RefreshStep
<1>2. ASSUME NEW c \in Call, CallStep(c) PROVE Goal
  <2>1. CASE SendLogout(c) \/ ServeLogout(c) \/ Serve(c) \/ Answered(c) \/ Rejected(c) \/ GaveUp(c)
    BY <2>1 DEF SendLogout, ServeLogout, Serve, Answered, Rejected, GaveUp
  <2>2. CASE AcceptSignIn(c)
    <3>1. jar' = jar \/ jar' = token[c]
      BY <2>2 DEF AcceptSignIn
    <3> QED
      BY <2>2, <3>1
  <2>3. CASE FinishLogout(c)
    <3>1. jar' = jar \/ jar' = NoRow
      BY <2>3 DEF FinishLogout
    <3> QED
      BY <2>3, <3>1
  <2> HIDE DEF Goal
  <2> QED
    BY <1>2, <2>1, <2>2, <2>3 DEF CallStep
<1>3. ASSUME NEW c \in Call, Start(c) \/ StartLogout(c) \/ \E u \in User, n \in Row : SignIn(c, u, n) PROVE Goal
  BY <1>3 DEF Start, StartLogout, SignIn
<1>4. ASSUME Tick \/ UNCHANGED vars \/ \E o \in Tab : Receive(o) PROVE Goal
  BY <1>4 DEF Tick, Receive, vars
<1>5. Goal
  <2> HIDE DEF Goal
  <2> QED
    BY <1>0, <1>1, <1>2, <1>3, <1>4 DEF Next
<1> QED
  BY <1>5

\* One at a time has the lock.
LEMMA OneHolder ==
    ASSUME LockInv, HasLocks, NEW a \in Holding, NEW b \in Holding
    PROVE  a = b
  BY DEF LockInv

LEMMA CookieStep ==
    ASSUME TypeOK, SignedInv, LockInv, CookieInv, [Next]_vars
    PROVE  CookieInv'
<1> SUFFICES ASSUME HasLocks, NEW t \in Tab, flight'[t] \in {"wire", "reply"}, carried'[t] # NoRow
             PROVE  jar' # NoRow
  BY ServerSteps DEF CookieInv, HasLocks
<1>0. /\ flight \in [Tab -> {"none", "lock", "wire", "reply", "sleep"}] /\ carried \in [Tab -> MaybeRow]
  BY DEF TypeOK
<1>1. t \in Holding'
  BY DEF Holding
<1>2. ~(\E o \in Tab : Ended(o)) /\ ~(\E c \in Call : FinishLogout(c))
  BY <1>1, LockIsFree
<1>3. \A o \in Tab : ~Renewed(o) /\ ~Refused(o) /\ ~Failed(o)
  <2> SUFFICES ASSUME NEW o \in Tab, Renewed(o) \/ Refused(o) \/ Failed(o) PROVE FALSE
    OBVIOUS
  <2>1. \E r \in MaybeRow : Finish(o, r)
    BY RowFacts DEF Renewed, Refused, Failed, TypeOK
  <2> QED
    BY <1>2, <2>1, EndsByFinish
<1>4. \A c \in Call : AcceptSignIn(c) => token[c] # NoRow
  BY RowFacts DEF AcceptSignIn, SignedInv, Private, Issued
<1>5. jar' = jar \/ jar' # NoRow
  BY <1>2, <1>3, <1>4, JarStep
<1>6. CASE jar' = jar
  <2>1. CASE flight[t] \in {"wire", "reply"} /\ carried[t] # NoRow
    BY <1>6, <2>1 DEF CookieInv
  <2>2. CASE SendRefresh(t)
    BY <1>0, <1>6, <2>2 DEF SendRefresh
  <2>3. CASE \E n \in Row : ServeRefresh(t, n)
    BY <2>1, <2>3 DEF ServeRefresh
  <2>4. CASE RefuseRefresh(t)
    BY <2>1, <2>4 DEF RefuseRefresh
  <2>5. CASE Sleep(t)
    BY <1>0, <2>5 DEF Sleep
  <2>6. CASE carried' = [carried EXCEPT ![t] = jar]
    BY <1>0, <1>6, <2>6
  <2>7. CASE /\ flight'[t] = flight[t] \/ (flight[t] = "none" /\ flight'[t] = "lock")
             /\ carried'[t] = carried[t]
    BY <2>1, <2>7
  <2> QED
    BY <1>2, <2>2, <2>3, <2>4, <2>5, <2>6, <2>7, NetStep
<1> QED
  BY <1>5, <1>6

LEMMA ExchangeStep ==
    ASSUME TypeOK, RowInv, RefInv, FlightInv, SignedInv, LockInv, ExchangeInv, [Next]_vars
    PROVE  ExchangeInv'
<1> SUFFICES ASSUME HasLocks, ~MayFail
             PROVE  /\ \A t \in Tab : flight'[t] = "wire" /\ carried'[t] # NoRow => status'[carried'[t]] # "rotated"
                    /\ jar' # NoRow /\ status'[jar'] = "rotated" => \E t \in Tab : reply'[t].code = "200"
                    /\ \A t \in Tab : reply'[t].code = "200" => status'[reply'[t].row] # "rotated"
  BY ServerSteps DEF ExchangeInv, HasLocks, MayFail, StatusOf
<1>0. /\ flight \in [Tab -> {"none", "lock", "wire", "reply", "sleep"}] /\ carried \in [Tab -> MaybeRow]
      /\ jar \in MaybeRow /\ reply \in [Tab -> [code : Answer, row : MaybeRow]]
      /\ status \in [Row -> {"absent", "live", "rotated", "revoked"}] /\ NoReply.code # "200"
  BY DEF TypeOK, NoReply
<1>1. /\ \A t \in Tab : flight[t] = "wire" /\ carried[t] # NoRow => status[carried[t]] # "rotated"
      /\ jar # NoRow /\ status[jar] = "rotated" => \E t \in Tab : reply[t].code = "200"
      /\ \A t \in Tab : reply[t].code = "200" =>
            /\ status[reply[t].row] # "rotated" /\ reply[t].row \in Row /\ flight[t] = "reply"
            /\ t \in Holding
  BY <1>0, RowFacts DEF ExchangeInv, StatusOf, FlightInv, Holding
<1>2. \A t \in Tab, n \in Row : ServeRefresh(t, n) =>
         /\ flight[t] = "wire" /\ t \in Holding /\ flight'[t] = "reply"
         /\ carried[t] # NoRow /\ carried[t] \in Row /\ n # carried[t] /\ status'[n] = "live"
         /\ reply'[t].code = "200" /\ reply'[t].row = n
  <2> SUFFICES ASSUME NEW t \in Tab, NEW n \in Row, ServeRefresh(t, n)
               PROVE  /\ flight[t] = "wire" /\ t \in Holding /\ flight'[t] = "reply"
                      /\ carried[t] # NoRow /\ carried[t] \in Row /\ n # carried[t] /\ status'[n] = "live"
                      /\ reply'[t].code = "200" /\ reply'[t].row = n
    OBVIOUS
  <2>1. /\ flight[t] = "wire" /\ t \in Holding /\ flight'[t] = "reply"
        /\ carried[t] # NoRow /\ carried[t] \in Row /\ status[carried[t]] = "live" /\ status[n] = "absent"
    BY <1>0, RowFacts DEF ServeRefresh, StatusOf, Unissued, Holding
  <2>2. status' = [status EXCEPT ![carried[t]] = "rotated", ![n] = "live"]
        /\ reply' = [reply EXCEPT ![t] = [code |-> "200", row |-> n]]
    BY DEF ServeRefresh
  <2> QED
    BY <1>0, <2>1, <2>2
<1>3. ASSUME NEW t \in Tab, flight'[t] = "wire", carried'[t] # NoRow PROVE status'[carried'[t]] # "rotated"
  <2>0. SUFFICES ASSUME status'[carried'[t]] = "rotated" PROVE FALSE
    OBVIOUS
  <2>1. t \in Holding \/ SendRefresh(t)
    <3>1. t \in Holding'
      BY <1>3 DEF Holding
    <3> QED
      BY <3>1, HoldingStep, SettingType DEF SendRefresh
  <2>2. carried'[t] \in Row
    BY <1>3, NextTypeOK, RowFacts DEF TypeOK
  <2>3. \A o \in Tab, n \in Row : ServeRefresh(o, n) => flight[t] # "wire"
    BY <1>2, <1>3, OneHolder DEF Holding
  <2>4. CASE flight[t] = "wire" /\ carried'[t] = carried[t]
    BY <1>1, <1>3, <2>0, <2>2, <2>3, <2>4, StatusStep
  <2>5. CASE SendRefresh(t) \/ (Wake(t) /\ carried' = [carried EXCEPT ![t] = jar])
    <3>1. carried'[t] = jar /\ status' = status /\ flight[t] \in {"lock", "sleep"}
      BY <1>0, <2>5 DEF SendRefresh, Wake, server
    <3>2. PICK o \in Tab : o \in Holding /\ flight[o] = "reply"
      BY <1>1, <1>3, <2>0, <3>1
    <3>3. line # <<>> /\ Head(line) = o
      BY <3>2 DEF LockInv
    <3>4. Head(line) = t
      BY <2>5, GrantedHead, <3>1 DEF SendRefresh, Wake, LockInv, Holding
    <3> QED
      BY <3>1, <3>2, <3>3, <3>4
  <2> QED
    <3>1. CASE Ended(t) \/ RefuseRefresh(t) \/ Sleep(t) \/ \E n \in Row : ServeRefresh(t, n)
      BY <1>0, <1>3, <3>1 DEF Ended, RefuseRefresh, Sleep, ServeRefresh
    <3> QED
      BY <1>3, <2>4, <2>5, <3>1, NetStep
<1>4. ASSUME NEW t \in Tab, reply'[t].code = "200" PROVE status'[reply'[t].row] # "rotated"
  <2>1. CASE reply'[t] = reply[t]
    <3>1. status'[reply[t].row] = "rotated" => \E o \in Tab, n \in Row : ServeRefresh(o, n)
      BY <1>1, <1>4, <2>1, StatusStep
    <3>2. \A o \in Tab, n \in Row : ~ServeRefresh(o, n)
      BY <1>1, <1>2, <1>4, <2>1, OneHolder
    <3> QED
      BY <2>1, <3>1, <3>2
  <2>2. CASE Ended(t) \/ Sleep(t)
    BY <1>0, <1>4, <2>2 DEF Ended, Sleep
  <2>3. CASE SendRefresh(t)
    BY <2>1, <2>3 DEF SendRefresh
  <2>4. CASE \E n \in Row : ServeRefresh(t, n)
    BY <1>2, <2>4
  <2>5. CASE RefuseRefresh(t)
    <3>1. PICK a \in {"401", "409", "500"} : reply' = [reply EXCEPT ![t].code = a]
      BY <2>5 DEF RefuseRefresh, Refusal
    <3> QED
      BY <1>0, <1>4, <3>1
  <2> QED
    BY <2>1, <2>2, <2>3, <2>4, <2>5, NetStep
<1>5. ASSUME jar' # NoRow, status'[jar'] = "rotated" PROVE \E t \in Tab : reply'[t].code = "200"
  <2>0. jar' \in Row
    BY <1>5, NextTypeOK, RowFacts DEF TypeOK
  <2>1. CASE \E t \in Tab : reply[t].code = "200"
    <3>1. PICK t \in Tab : reply[t].code = "200"
      BY <2>1
    <3>2. flight[t] = "reply"
      BY <1>1, <3>1
    <3>3. CASE reply'[t] = reply[t]
      BY <3>1, <3>3
    <3>4. ~SendRefresh(t) /\ ~RefuseRefresh(t) /\ ~Sleep(t) /\ ~Wake(t) /\ ~TakeFresh(t) /\ ~Refused(t)
          /\ ~Failed(t) /\ \A n \in Row : ~ServeRefresh(t, n)
      BY <3>1, <3>2 DEF SendRefresh, RefuseRefresh, Sleep, Wake, TakeFresh, Refused, Failed, ServeRefresh
    <3>5. CASE Renewed(t)
      <4>1. jar' = reply[t].row /\ status' = status
        BY <3>5 DEF Renewed, server
      <4> QED
        BY <1>1, <1>5, <3>1, <4>1
    <3> QED
      BY <3>3, <3>4, <3>5, NetStep DEF Ended
  <2>2. CASE \A t \in Tab : reply[t].code # "200"
    <3>1. \A t \in Tab : ~Renewed(t)
      BY <2>2 DEF Renewed
    <3>2. \A c \in Call : AcceptSignIn(c) => status'[token[c]] = "live"
      BY DEF AcceptSignIn, SignedInv, Private, server
    <3>3. jar' = jar
      BY <1>5, <3>1, <3>2, JarStep
    <3>4. status[jar] # "rotated"
      BY <1>1, <1>5, <2>2, <3>3
    <3>5. PICK t \in Tab, n \in Row : ServeRefresh(t, n)
      BY <1>5, <2>0, <3>3, <3>4, StatusStep
    <3> QED
      BY <1>2, <3>5
  <2> QED
    BY <2>1, <2>2
<1> QED
  BY <1>3, <1>4, <1>5

-------------------------------------------------------------------------------
(* Tabs that race.                                                         *)

\* A token whose exchange is within the grace period is not taken for stolen.
LEMMA QuickIsBenign ==
    ASSUME TypeOK, RowInv, QuickInv, Quick, NEW r \in Row, status[r] = "rotated"
    PROVE  Refusal(r) = "409"
<1>1. \E n \in Row : status[n] = "live" /\ root[n] = root[r] /\ born[n] >= rotatedAt[r]
  BY DEF QuickInv
<1>2. rotatedAt[r] \in 0..MaxTime /\ clock \in 0..MaxTime /\ MaxTime <= Grace /\ MaxTime \in Nat /\ Grace \in Nat
  BY SettingType DEF RowInv, TypeOK, Quick, MaxTime, Grace, Never
<1>3. clock - rotatedAt[r] <= Grace
  BY <1>2
<1>4. Benign(r)
  BY <1>1, <1>3 DEF Benign
<1> QED
  BY <1>4, RowFacts DEF Refusal, StatusOf

LEMMA QuickStep ==
    ASSUME TypeOK, RowInv, RefInv, FlightInv, SignedInv, QuickInv, [Next]_vars
    PROVE  QuickInv'
<1> SUFFICES ASSUME Quick
             PROVE  /\ \A c \in Call : pc'[c] \notin {"lock", "logout", "bye"}
                    /\ \A r \in Row : status'[r] # "revoked"
                    /\ \A r \in Row : status'[r] = "rotated" =>
                          \E n \in Row : status'[n] = "live" /\ root'[n] = root'[r] /\ born'[n] >= rotatedAt'[r]
                    /\ \A t \in Tab : reply'[t].code = "401" => carried'[t] = NoRow
  BY ServerSteps DEF QuickInv, Quick, MayLogout, MayFail, MaxTime, Grace
<1>0. /\ pc \in [Call -> CallPc] /\ carried \in [Tab -> MaybeRow]
      /\ reply \in [Tab -> [code : Answer, row : MaybeRow]] /\ NoReply.code # "401"
      /\ status \in [Row -> {"absent", "live", "rotated", "revoked"}] /\ root \in [Row -> MaybeRow]
      /\ born \in [Row -> 0..MaxTime] /\ rotatedAt \in [Row -> 0..MaxTime \cup {Never}]
      /\ clock \in 0..MaxTime /\ MaxTime \in Nat
  BY TypeFrame, SettingType DEF TypeOK, CallPc, NoReply, MaxTime
<1>1. /\ \A c \in Call : pc[c] \notin {"lock", "logout", "bye"}
      /\ \A r \in Row : status[r] # "revoked"
      /\ \A r \in Row : status[r] = "rotated" =>
            \E n \in Row : status[n] = "live" /\ root[n] = root[r] /\ born[n] >= rotatedAt[r]
      /\ \A t \in Tab : reply[t].code = "401" => carried[t] = NoRow
  BY DEF QuickInv
<1>2. ASSUME NEW c \in Call PROVE pc'[c] \notin {"lock", "logout", "bye"}
  <2>1. ~StartLogout(c) /\ ~SendLogout(c) /\ ~ServeLogout(c) /\ ~FinishLogout(c)
    BY <1>1 DEF Quick, StartLogout, SendLogout, ServeLogout, FinishLogout
  <2>2. CASE (\E u \in User, n \in Row : SignIn(c, u, n)) \/ AcceptSignIn(c) \/ Answered(c) \/ GaveUp(c) \/ Rejected(c)
    <3>1. pc'[c] \in {"signed", "idle", "rejoin"}
      BY <1>0, <2>2 DEF SignIn, AcceptSignIn, Answered, GaveUp, Rejected, EndCall
    <3> QED
      BY <3>1
  <2>3. CASE Start(c)
    <3>1. pc'[c] \in {"send", "join"}
      BY <1>0, <2>3 DEF Start
    <3> QED
      BY <3>1
  <2>4. CASE Serve(c)
    BY <1>0, <2>4 DEF Serve
  <2>5. CASE pc'[c] = pc[c] \/ pc'[c] \in {"idle", "send", "resend"}
    BY <1>1, <2>5
  <2> QED
    BY <2>1, <2>2, <2>3, <2>4, <2>5, CallerStep
<1>3. ASSUME NEW r \in Row PROVE status'[r] # "revoked"
  <2>1. ASSUME NEW t \in Tab, StatusOf(carried[t]) = "rotated" PROVE Refusal(carried[t]) = "409"
    <3>1. carried[t] \in Row /\ status[carried[t]] = "rotated"
      BY <1>0, <2>1, RowFacts DEF StatusOf
    <3> QED
      BY <3>1, QuickIsBenign
  <2>2. \A c \in Call : ~ServeLogout(c)
    BY <1>1 DEF ServeLogout
  <2> QED
    BY <1>1, <2>1, <2>2, StatusStep
<1>4. ASSUME NEW r \in Row, status'[r] = "rotated"
      PROVE  \E n \in Row : status'[n] = "live" /\ root'[n] = root'[r] /\ born'[n] >= rotatedAt'[r]
  <2>1. ASSUME NEW t \in Tab, NEW n \in Row, ServeRefresh(t, n)
        PROVE  \E k \in Row : status'[k] = "live" /\ root'[k] = root'[r] /\ born'[k] >= rotatedAt'[r]
    <3> DEFINE q == carried[t]
    <3>1. /\ q \in Row /\ status[q] = "live" /\ status[n] = "absent"
          /\ status' = [status EXCEPT ![q] = "rotated", ![n] = "live"]
          /\ root' = [root EXCEPT ![n] = root[q]]
          /\ born' = [born EXCEPT ![n] = clock] /\ rotatedAt' = [rotatedAt EXCEPT ![q] = clock]
      BY <1>0, <2>1, RowFacts DEF ServeRefresh, StatusOf, Unissued
    <3> HIDE DEF q
    <3>2. /\ status'[n] = "live" /\ root'[n] = root[q] /\ born'[n] = clock
      BY <1>0, <3>1
    <3>3. r # n
      BY <1>4, <3>2
    <3>4. root'[r] = root[r] /\ (rotatedAt'[r] = IF r = q THEN clock ELSE rotatedAt[r])
      BY <1>0, <3>1, <3>3
    <3>5. rotatedAt[r] <= clock /\ clock <= clock
      BY <1>0 DEF RowInv
    <3>6. CASE root[r] = root[q]
      <4>1. clock >= rotatedAt'[r]
        BY <3>4, <3>5
      <4> QED
        BY <3>2, <3>4, <3>6, <4>1
    <3>7. CASE root[r] # root[q]
      <4>1. r # q /\ status[r] = "rotated"
        BY <1>0, <1>4, <3>1, <3>3, <3>7
      <4>2. PICK k \in Row : status[k] = "live" /\ root[k] = root[r] /\ born[k] >= rotatedAt[r]
        BY <1>1, <4>1
      <4>3. k # q /\ k # n
        BY <3>1, <3>7, <4>2
      <4>4. status'[k] = "live" /\ root'[k] = root[k] /\ born'[k] = born[k]
        BY <1>0, <3>1, <4>2, <4>3
      <4> QED
        BY <3>4, <4>1, <4>2, <4>4
    <3> QED
      BY <3>6, <3>7
  <2>2. CASE \A t \in Tab, n \in Row : ~ServeRefresh(t, n)
    <3>1. status[r] = "rotated"
      BY <1>4, <2>2, StatusStep
    <3>2. PICK k \in Row : status[k] = "live" /\ root[k] = root[r] /\ born[k] >= rotatedAt[r]
      BY <1>1, <3>1
    <3>3. rotatedAt' = rotatedAt
      BY <2>2, ServerSteps DEF server, SignIn, ServeLogout, RefuseRefresh
    <3>4. Issued(k) /\ Issued(r)
      BY <3>1, <3>2 DEF Issued
    <3>5. Issued(k)' /\ root'[k] = root[k] /\ born'[k] = born[k] /\ root'[r] = root[r]
      BY <3>4, RowStep
    <3>6. status'[k] \in {"live", "rotated"}
      <4>1. status' \in [Row -> {"absent", "live", "rotated", "revoked"}]
        BY NextTypeOK DEF TypeOK
      <4> QED
        BY <1>3, <3>5, <4>1 DEF Issued
    <3>7. status'[k] = "live"
      BY <2>2, <3>2, <3>6, StatusStep
    <3> QED
      BY <3>2, <3>3, <3>5, <3>7
  <2> QED
    BY <2>1, <2>2
<1>5. ASSUME NEW t \in Tab, reply'[t].code = "401" PROVE carried'[t] = NoRow
  <2>1. CASE reply'[t] = reply[t] /\ carried'[t] = carried[t]
    BY <1>1, <1>5, <2>1
  <2>2. CASE Ended(t)
    BY <2>2 DEF Ended
  <2>3. CASE Sleep(t)
    BY <1>0, <1>5, <2>3 DEF Sleep
  <2>4. CASE SendRefresh(t) \/ (Wake(t) /\ flight' = [flight EXCEPT ![t] = "wire"] /\ UNCHANGED reply)
    <3>1. flight[t] # "reply" /\ reply'[t] = reply[t]
      BY <2>4 DEF SendRefresh, Wake
    <3> QED
      BY <1>0, <1>5, <3>1 DEF FlightInv
  <2>5. CASE \E n \in Row : ServeRefresh(t, n)
    <3>1. PICK n \in Row : ServeRefresh(t, n)
      BY <2>5
    <3>2. reply' = [reply EXCEPT ![t] = [code |-> "200", row |-> n]] \/ reply' = [reply EXCEPT ![t].code = "500"]
      BY <3>1 DEF ServeRefresh
    <3> QED
      BY <1>0, <1>5, <3>2
  <2>6. CASE RefuseRefresh(t)
    <3>1. /\ StatusOf(carried[t]) # "live" /\ Refusal(carried[t]) = "401" /\ carried' = carried
      <4>1. PICK a : reply' = [reply EXCEPT ![t].code = a] /\ StatusOf(carried[t]) # "live" /\ a = Refusal(carried[t])
        BY <2>6 DEF RefuseRefresh, Quick
      <4>2. reply'[t].code = a
        BY <1>0, <4>1
      <4> QED
        BY <1>5, <2>6, <4>1, <4>2 DEF RefuseRefresh
    <3>2. SUFFICES ASSUME carried[t] # NoRow PROVE FALSE
      BY <3>1
    <3>3. carried[t] \in Row /\ Issued(carried[t])
      BY <1>0, <3>2, RowFacts DEF RefInv, Holds
    <3>4. status[carried[t]] = "rotated"
      BY <1>0, <1>1, <3>1, <3>2, <3>3 DEF StatusOf, Issued
    <3> QED
      BY <3>1, <3>3, <3>4, QuickIsBenign
  <2> QED
    BY <2>1, <2>2, <2>3, <2>4, <2>5, <2>6, NetStep
<1> QED
  BY <1>2, <1>3, <1>4, <1>5

-------------------------------------------------------------------------------
(* One session.                                                            *)

\* Until a session has been heard of nobody holds a token.
LEMMA BeforeNobody ==
    ASSUME RefInv, SignedInv, Before, NEW r \in Row
    PROVE  ~Holds(r)
  BY DEF RefInv, SignedInv, Before, Private

\* A tab has a user after a sign-in, a message or an answer.
LEMMA ViewStep ==
    ASSUME TypeOK, FlightInv, SignedInv, [Next]_vars, NEW t \in Tab
    PROVE  view'[t] = "authenticated" =>
              view[t] = "authenticated" \/ acc'[t] # NoRow \/ \E c \in Call : Answered(c)
<1> DEFINE Goal == view'[t] = "authenticated" => view[t] = "authenticated" \/ acc'[t] # NoRow \/ \E c \in Call : Answered(c)
<1>0. /\ view \in [Tab -> {"unknown", "authenticated", "anonymous"}] /\ acc \in [Tab -> MaybeRow]
      /\ env.users \subseteq User /\ env.calls \subseteq Call /\ Home \in [Call -> Tab]
  BY SettingType DEF TypeOK
<1>1. ASSUME NEW o \in Tab, NEW r \in MaybeRow, NEW u \in MaybeUser, r # NoRow, SetToken(o, r, u) PROVE Goal
  <2>1. acc' = [acc EXCEPT ![o] = r] /\ view' = [view EXCEPT ![o] = "authenticated"]
    BY <1>1, SetTokenType
  <2> QED
    BY <1>0, <1>1, <2>1
<1>2. ASSUME NEW o \in Tab, ClearLocal(o) PROVE Goal
  <2>1. view' = [view EXCEPT ![o] = "anonymous"]
    BY <1>2, ClearLocalType
  <2> QED
    BY <1>0, <2>1
<1>3. ASSUME UNCHANGED tabs PROVE Goal
  BY <1>3 DEF tabs
<1> HIDE DEF Goal
<1>4. ASSUME NEW c \in Call, AcceptSignIn(c) PROVE Goal
  <2>1. token[c] \in Row /\ owner[token[c]] \in MaybeUser
    BY <1>4 DEF AcceptSignIn, SignedInv, Private, Issued, TypeOK
  <2>2. UNCHANGED tabs \/ SetToken(Home[c], token[c], owner[token[c]])
    BY <1>4 DEF AcceptSignIn
  <2> QED
    BY <1>0, <1>1, <1>3, <2>1, <2>2, RowFacts
<1>5. ASSUME NEW o \in Tab, Receive(o) PROVE Goal
  <2> DEFINE m == Head(inbox[o])
  <2>1. m \in Message
    BY <1>5, HeadIsMessage DEF Receive
  <2>2. m.row \in MaybeRow /\ m.user \in MaybeUser /\ shown[o] \in MaybeUser /\ acc[o] \in MaybeRow
    BY <2>1 DEF Message, TypeOK
  <2> HIDE DEF m
  <2>3. \/ m.row > acc[o] /\ SetToken(o, m.row, IF m.user = NoUser THEN shown[o] ELSE m.user)
        \/ UNCHANGED tabs \/ ClearLocal(o)
    BY <1>5 DEF Receive, m
  <2>4. m.row > acc[o] => m.row # NoRow
    BY <2>2, SessionAssumption DEF MaybeRow, NoRow
  <2> QED
    BY <1>1, <1>2, <1>3, <2>2, <2>3, <2>4
<1>6. ASSUME NEW o \in Tab, RefreshStep(o) PROVE Goal
  <2>1. CASE Renewed(o)
    <3>1. SetToken(o, reply[o].row, shown[o]) /\ reply[o].row # NoRow
      BY <2>1 DEF Renewed, FlightInv
    <3>2. reply[o].row \in MaybeRow /\ shown[o] \in MaybeUser
      BY DEF TypeOK
    <3> QED
      BY <1>1, <3>1, <3>2
  <2>2. CASE Refused(o) \/ Failed(o)
    BY <1>2, <1>3, <2>2 DEF Refused, Failed, tabs
  <2>3. CASE TakeFresh(o) \/ SendRefresh(o) \/ RefuseRefresh(o) \/ Sleep(o) \/ Wake(o) \/ \E n \in Row : ServeRefresh(o, n)
    BY <1>3, <2>3 DEF TakeFresh, SendRefresh, RefuseRefresh, Sleep, Wake, ServeRefresh
  <2> QED
    BY <1>6, <2>1, <2>2, <2>3 DEF RefreshStep
<1>7. ASSUME NEW c \in Call, CallStep(c) PROVE Goal
  <2>1. CASE SendLogout(c) \/ ServeLogout(c) \/ Serve(c) \/ Rejected(c)
    BY <1>3, <2>1 DEF SendLogout, ServeLogout, Serve, Rejected
  <2>2. CASE FinishLogout(c)
    BY <1>0, <1>2, <2>2 DEF FinishLogout
  <2>3. CASE GaveUp(c)
    BY <1>0, <1>2, <1>3, <2>3 DEF GaveUp
  <2>4. CASE Answered(c)
    BY <2>4 DEF Goal
  <2> QED
    BY <1>4, <1>7, <2>1, <2>2, <2>3, <2>4 DEF CallStep
<1>8. ASSUME NEW c \in Call, Start(c) \/ StartLogout(c) \/ \E u \in User, n \in Row : SignIn(c, u, n) PROVE Goal
  BY <1>3, <1>8 DEF Start, StartLogout, SignIn
<1>9. ASSUME Tick \/ UNCHANGED vars PROVE Goal
  BY <1>3, <1>9 DEF Tick, vars
<1>10. Goal
  BY <1>0, <1>5, <1>6, <1>7, <1>8, <1>9 DEF Next
<1> QED
  BY <1>10 DEF Goal

LEMMA BeforeStep ==
    ASSUME TypeOK, RowInv, RefInv, FlightInv, SignedInv, BeforeInv, [Next]_vars
    PROVE  BeforeInv'
<1> SUFFICES ASSUME Before' PROVE BeforeInv'
  BY DEF BeforeInv
<1>0. /\ TypeOK' /\ RefInv' /\ SignedInv'
      /\ pc \in [Call -> CallPc] /\ Home \in [Call -> Tab] /\ token \in [Call -> MaybeRow]
      /\ acc \in [Tab -> MaybeRow] /\ reply \in [Tab -> [code : Answer, row : MaybeRow]]
      /\ view \in [Tab -> {"unknown", "authenticated", "anonymous"}]
  BY NextTypeOK, RefStep, SignedStep, TypeFrame, SettingType DEF TypeOK, CallPc
<1>1. Before
  <2> SUFFICES ASSUME NEW r \in Row, Issued(r) PROVE \E c \in Call : pc[c] = "signed" /\ token[c] = r
    BY DEF Before
  <2>1. Issued(r)'
    BY RowStep
  <2>2. PICK c \in Call : pc'[c] = "signed" /\ token'[c] = r
    BY <2>1 DEF Before
  <2>3. \A u \in User : ~SignIn(c, u, r)
    BY DEF SignIn, Unissued, Issued
  <2> QED
    BY <2>2, <2>3, TokenStep
<1>2. \A r \in Row : ~Holds(r)'
  BY <1>0, BeforeNobody DEF RefInv, SignedInv, Before, Private
<1>3. /\ jar' = NoRow
      /\ \A t \in Tab : /\ acc'[t] = NoRow /\ carried'[t] = NoRow
                        /\ \A i \in DOMAIN inbox'[t] : inbox'[t][i].row = NoRow
  <2>1. /\ jar' \in MaybeRow /\ acc' \in [Tab -> MaybeRow] /\ carried' \in [Tab -> MaybeRow]
        /\ inbox' \in [Tab -> Seq(Message)]
    BY <1>0 DEF TypeOK
  <2>2. \A t \in Tab : \A i \in DOMAIN inbox'[t] : inbox'[t][i].row \in MaybeRow
    <3> SUFFICES ASSUME NEW t \in Tab, NEW i \in DOMAIN inbox'[t] PROVE inbox'[t][i].row \in MaybeRow
      OBVIOUS
    <3>1. inbox'[t] \in Seq(Message)
      BY <2>1
    <3>2. inbox'[t][i] \in Message
      BY <3>1
    <3> QED
      BY <3>2 DEF Message
  <2> QED
    BY <1>2, <2>1, <2>2, RowFacts DEF Holds
<1>4. /\ jar = NoRow
      /\ \A t \in Tab :
            /\ acc[t] = NoRow /\ view[t] # "authenticated" /\ carried[t] = NoRow
            /\ \A i \in DOMAIN inbox[t] : inbox[t][i].row = NoRow
      /\ \A c \in Call : pc[c] \in {"idle", "join", "signed"}
  BY <1>1 DEF BeforeInv
<1>5. ASSUME NEW t \in Tab PROVE view'[t] # "authenticated"
  <2>1. \A c \in Call : ~Answered(c)
    BY <1>4 DEF Answered
  <2> QED
    BY <1>3, <1>4, <2>1, ViewStep
<1>6. ASSUME NEW c \in Call PROVE pc'[c] \in {"idle", "join", "signed"}
  <2>1. /\ ~StartLogout(c) /\ ~SendLogout(c) /\ ~ServeLogout(c) /\ ~FinishLogout(c)
        /\ ~Serve(c) /\ ~Answered(c) /\ ~GaveUp(c) /\ ~Rejected(c)
    BY <1>0, <1>4 DEF StartLogout, SendLogout, ServeLogout, FinishLogout, Serve, Answered, GaveUp, Rejected
  <2>2. CASE (\E u \in User, n \in Row : SignIn(c, u, n)) \/ AcceptSignIn(c)
    BY <1>0, <2>2 DEF SignIn, AcceptSignIn
  <2>3. CASE Start(c)
    <3>1. ~Fresh(acc[Home[c]])
      BY <1>0, <1>4, FreshIsToken
    <3>2. pc' = [pc EXCEPT ![c] = "join"]
      BY <2>3, <3>1 DEF Start
    <3> QED
      BY <1>0, <1>4, <3>2
  <2>4. ASSUME NEW t \in Tab, Ended(t) PROVE pc'[c] \in {"idle", "join", "signed"}
    <3>1. ~TakeFresh(t)
      BY <1>4, FreshIsToken DEF TakeFresh, Replaced
    <3>2. ~Renewed(t)
      BY <1>4 DEF Renewed, FlightInv
    <3>3. ~(Wake(t) /\ Fresh(acc[t]))
      BY <1>4, FreshIsToken
    <3>4. CASE Wake(t) /\ ~Fresh(acc[t])
      BY <1>4, <3>4 DEF Wake
    <3>5. CASE Refused(t) \/ Failed(t)
      <4>1. Finish(t, NoRow)
        BY <3>5 DEF Refused, Failed
      <4>2. FinishEffect(t, NoRow)
        BY <4>1, FinishShape, RowFacts
      <4> QED
        BY <1>4, <4>2 DEF FinishEffect
    <3> QED
      BY <2>4, <3>1, <3>2, <3>3, <3>4, <3>5 DEF Ended
  <2>5. CASE pc'[c] = pc[c]
    BY <1>4, <2>5
  <2> QED
    BY <2>1, <2>2, <2>3, <2>4, <2>5, CallerStep
<1> QED
  BY <1>3, <1>5, <1>6 DEF BeforeInv

LEMMA SettledStep ==
    ASSUME TypeOK, [Next]_vars
    PROVE  Settled \/ (\E o \in Tab : Receive(o)) \/ UNCHANGED vars
  BY DEF Next, RefreshStep, CallStep

\* A token comes to a tab and its inbox with the cookie, or is read from the inbox.
LEMMA TabStep ==
    ASSUME TypeOK, SignedInv, [Next]_vars, NEW t \in Tab
    PROVE  \/ Receive(t)
           \/ /\ acc'[t] \in {acc[t], NoRow, jar'}
              /\ \A i \in DOMAIN inbox'[t] :
                    inbox'[t][i].row \in {NoRow, jar'} \/ \E j \in DOMAIN inbox[t] : inbox'[t][i] = inbox[t][j]
<1> DEFINE Goal == /\ acc'[t] \in {acc[t], NoRow, jar'}
                   /\ \A i \in DOMAIN inbox'[t] :
                         inbox'[t][i].row \in {NoRow, jar'} \/ \E j \in DOMAIN inbox[t] : inbox'[t][i] = inbox[t][j]
<1>0. /\ acc \in [Tab -> MaybeRow] /\ inbox \in [Tab -> Seq(Message)] /\ shown \in [Tab -> MaybeUser]
      /\ reply \in [Tab -> [code : Answer, row : MaybeRow]]
      /\ env.users \subseteq User /\ env.calls \subseteq Call /\ Home \in [Call -> Tab] /\ NoUser \in MaybeUser
  BY SettingType DEF TypeOK, MaybeUser
<1>1. ASSUME acc'[t] \in {acc[t], NoRow, jar'}, inbox'[t] = inbox[t] PROVE Goal
  BY <1>1
<1>2. ASSUME NEW o \in Tab, NEW r \in MaybeRow, NEW u \in MaybeUser, Post(o, r, u), r \in {NoRow, jar'},
             acc'[t] \in {acc[t], NoRow, jar'} PROVE Goal
  BY <1>2, PostRows
<1> HIDE DEF Goal
<1>3. ASSUME NEW c \in Call, AcceptSignIn(c) PROVE Goal
  <2>1. token[c] \in Row /\ owner[token[c]] \in MaybeUser /\ token[c] \in MaybeRow
    BY <1>3, RowFacts DEF AcceptSignIn, SignedInv, Private, Issued, TypeOK
  <2>2. CASE UNCHANGED <<jar, tabs, inbox, dropped>>
    BY <1>1, <2>2 DEF tabs
  <2>3. CASE /\ jar' = token[c]
             /\ SetToken(Home[c], token[c], owner[token[c]])
             /\ Post(Home[c], token[c], owner[token[c]])
    <3>1. acc'[t] \in {acc[t], token[c]}
      BY <1>0, <2>3 DEF SetToken
    <3> QED
      BY <1>0, <1>2, <2>1, <2>3, <3>1
  <2> QED
    BY <1>3, <2>2, <2>3 DEF AcceptSignIn
<1>4. ASSUME NEW o \in Tab, o # t, Receive(o) PROVE Goal
  <2>1. inbox'[t] = inbox[t]
    BY <1>0, <1>4 DEF Receive
  <2>2. acc'[t] = acc[t]
    BY <1>0, <1>4 DEF Receive, SetToken, ClearLocal, tabs
  <2> QED
    BY <1>1, <2>1, <2>2
<1>5. ASSUME NEW c \in Call, FinishLogout(c) PROVE Goal
  <2>1. acc'[t] \in {acc[t], NoRow} /\ Post(Home[c], NoRow, NoUser)
    BY <1>0, <1>5 DEF FinishLogout, ClearLocal
  <2> QED
    BY <1>0, <1>2, <2>1, RowFacts
<1>6. ASSUME NEW o \in Tab, RefreshStep(o) PROVE Goal
  <2>1. CASE Renewed(o)
    <3>1. jar' = reply[o].row /\ Post(o, reply[o].row, shown[o]) /\ acc'[t] \in {acc[t], reply[o].row}
      BY <1>0, <2>1 DEF Renewed, SetToken
    <3>2. reply[o].row \in MaybeRow /\ shown[o] \in MaybeUser
      BY <1>0
    <3> QED
      BY <1>2, <3>1, <3>2
  <2>2. CASE Refused(o)
    <3>1. acc'[t] \in {acc[t], NoRow} /\ Post(o, NoRow, NoUser)
      BY <1>0, <2>2 DEF Refused, ClearLocal
    <3> QED
      BY <1>0, <1>2, <3>1, RowFacts
  <2>3. CASE Failed(o)
    <3>1. acc'[t] \in {acc[t], NoRow} /\ inbox' = inbox
      BY <1>0, <2>3 DEF Failed, ClearLocal, tabs
    <3> QED
      BY <1>1, <3>1
  <2>4. CASE TakeFresh(o) \/ SendRefresh(o) \/ RefuseRefresh(o) \/ Sleep(o) \/ Wake(o) \/ \E n \in Row : ServeRefresh(o, n)
    <3>1. acc' = acc /\ inbox' = inbox
      BY <2>4 DEF TakeFresh, SendRefresh, RefuseRefresh, Sleep, Wake, ServeRefresh, tabs
    <3> QED
      BY <1>1, <3>1
  <2> QED
    BY <1>6, <2>1, <2>2, <2>3, <2>4 DEF RefreshStep
<1>7. ASSUME NEW c \in Call, CallStep(c) PROVE Goal
  <2>1. CASE SendLogout(c) \/ ServeLogout(c) \/ Serve(c) \/ Rejected(c) \/ Answered(c)
    <3>1. acc' = acc /\ inbox' = inbox
      BY <2>1 DEF SendLogout, ServeLogout, Serve, Rejected, Answered, tabs
    <3> QED
      BY <1>1, <3>1
  <2>2. CASE GaveUp(c)
    <3>1. acc'[t] \in {acc[t], NoRow} /\ inbox' = inbox
      BY <1>0, <2>2 DEF GaveUp, ClearLocal, tabs
    <3> QED
      BY <1>1, <3>1
  <2> QED
    BY <1>3, <1>5, <1>7, <2>1, <2>2 DEF CallStep
<1>8. ASSUME \/ Tick \/ UNCHANGED vars
             \/ \E c \in Call : Start(c) \/ StartLogout(c) \/ \E u \in User, n \in Row : SignIn(c, u, n)
      PROVE  Goal
  <2>1. acc' = acc /\ inbox' = inbox
    BY <1>8 DEF Start, StartLogout, SignIn, Tick, vars, tabs
  <2> QED
    BY <1>1, <2>1
<1>9. Goal \/ Receive(t)
  BY <1>0, <1>4, <1>6, <1>7, <1>8 DEF Next
<1> QED
  BY <1>9 DEF Goal

\* With room for one session, a sign-in is the first there is.
LEMMA FirstSignIn ==
    ASSUME TypeOK, RowInv, MaxFamilies = 1, NEW c \in Call, NEW u, NEW n, SignIn(c, u, n), NEW r \in Row
    PROVE  ~Issued(r)
<1> DEFINE S == {q \in Row : root[q] = q}
<1>1. IsFiniteSet(Row)
  BY SessionAssumption, FS_Interval DEF Row
<1>2. IsFiniteSet(S)
  BY <1>1, FS_Subset
<1>3. Cardinality(S) < 1
  BY DEF SignIn
<1> HIDE DEF S
<1>4. Cardinality(S) \in Nat
  BY <1>2, FS_CardinalityType
<1>5. S = {}
  BY <1>2, <1>3, <1>4, FS_EmptySet
<1> QED
  BY <1>5 DEF S, RowInv, Issued

\* The first sign-in leaves no cookie-less browser behind.
LEMMA BeforeEnds ==
    ASSUME TypeOK, RowInv, FlightInv, SignedInv, BeforeInv, ~MayFail, [Next]_vars, Before, ~Before'
    PROVE  jar' # NoRow
<1>0. pc \in [Call -> CallPc] /\ token \in [Call -> MaybeRow]
  BY DEF TypeOK, CallPc
<1>1. PICK r \in Row : Issued(r)' /\ \A c \in Call : pc'[c] # "signed" \/ token'[c] # r
  BY DEF Before
<1>2. \A t \in Tab : ~ServeRefresh(t, r)
  BY DEF Before, BeforeInv, ServeRefresh, StatusOf
<1>3. \A c \in Call, u \in User : ~SignIn(c, u, r)
  BY <1>0, <1>1 DEF SignIn
<1>4. Issued(r)
  BY <1>1, <1>2, <1>3, StatusStep
<1>5. PICK c \in Call : pc[c] = "signed" /\ token[c] = r
  BY <1>4 DEF Before
<1>6. pc'[c] # "signed" \/ token'[c] # r
  BY <1>1
<1>7. AcceptSignIn(c)
  <2>1. /\ \A u \in User, n \in Row : ~SignIn(c, u, n)
        /\ ~StartLogout(c) /\ ~SendLogout(c) /\ ~ServeLogout(c) /\ ~FinishLogout(c) /\ ~Start(c)
        /\ ~Serve(c) /\ ~Answered(c) /\ ~GaveUp(c) /\ ~Rejected(c) /\ pc[c] \notin Waits
    BY <1>5 DEF SignIn, StartLogout, SendLogout, ServeLogout, FinishLogout, Start, Serve, Answered, GaveUp, Rejected, Waits
  <2> QED
    BY <1>5, <1>6, <2>1, CallerStep
<1>8. jar' = r
  BY <1>5, <1>7 DEF AcceptSignIn
<1> QED
  BY <1>8, RowFacts

LEMMA AgreeStep ==
    ASSUME TypeOK, RowInv, RefInv, FlightInv, SignedInv, LockInv, CookieInv, ExchangeInv,
           BeforeInv, AgreeInv, [Next]_vars
    PROVE  AgreeInv'
<1> SUFFICES ASSUME Orderly
             PROVE  /\ \A r, s \in Row : Issued(r)' /\ Issued(s)' => root'[r] = root'[s]
                    /\ ~Before' /\ jar' = NoRow =>
                          \A t \in Tab :
                              /\ acc'[t] = NoRow \/ inbox'[t] # <<>>
                              /\ \A i \in DOMAIN inbox'[t] : inbox'[t][i].row = NoRow
                    /\ (jar' # NoRow /\ \E r \in Row : status'[r] = "revoked") =>
                          \E c \in Call : pc'[c] = "bye"
                    /\ \A t \in Tab : reply'[t].code = "401" => carried'[t] = NoRow
  <2>1. Orderly' = Orderly
    BY ServerSteps DEF Orderly, HasLocks, HasChannel, Prompt, MayFail, MaxFamilies
  <2> QED
    BY <2>1 DEF AgreeInv, Issued
<1>0. /\ pc \in [Call -> CallPc] /\ carried \in [Tab -> MaybeRow] /\ Home \in [Call -> Tab]
      /\ reply \in [Tab -> [code : Answer, row : MaybeRow]] /\ NoReply.code # "401"
      /\ status \in [Row -> {"absent", "live", "rotated", "revoked"}] /\ root \in [Row -> MaybeRow]
      /\ acc \in [Tab -> MaybeRow] /\ inbox \in [Tab -> Seq(Message)] /\ Tab \cap Call = {}
      /\ HasLocks /\ HasChannel /\ Prompt /\ ~MayFail /\ MaxFamilies = 1
  BY TypeFrame, SettingType DEF TypeOK, CallPc, NoReply, Orderly
<1>1. /\ \A r, s \in Row : Issued(r) /\ Issued(s) => root[r] = root[s]
      /\ ~Before /\ jar = NoRow =>
            \A t \in Tab :
                /\ acc[t] = NoRow \/ inbox[t] # <<>>
                /\ \A i \in DOMAIN inbox[t] : inbox[t][i].row = NoRow
      /\ (jar # NoRow /\ \E r \in Row : status[r] = "revoked") => \E c \in Call : pc[c] = "bye"
      /\ \A t \in Tab : reply[t].code = "401" => carried[t] = NoRow
  BY DEF AgreeInv
<1>2. ASSUME NEW r \in Row, NEW s \in Row, Issued(r)', Issued(s)' PROVE root'[r] = root'[s]
  <2>1. ASSUME NEW c \in Call, NEW u \in User, NEW n \in Row, SignIn(c, u, n) PROVE root'[r] = root'[s]
    <3>1. status' = [status EXCEPT ![n] = "live"]
      BY <2>1 DEF SignIn
    <3>2. r = n /\ s = n
      BY <1>0, <1>2, <2>1, <3>1, FirstSignIn DEF Issued
    <3> QED
      BY <3>2
  <2>2. ASSUME NEW t \in Tab, NEW n \in Row, ServeRefresh(t, n) PROVE root'[r] = root'[s]
    <3>1. /\ carried[t] \in Row /\ Issued(carried[t])
          /\ status' = [status EXCEPT ![carried[t]] = "rotated", ![n] = "live"]
          /\ root' = [root EXCEPT ![n] = root[carried[t]]]
      BY <1>0, <2>2, RowFacts DEF ServeRefresh, StatusOf, Issued
    <3>2. \A q \in Row : Issued(q)' => q = n \/ Issued(q)
      BY <1>0, <3>1 DEF Issued
    <3>3. \A q \in Row : Issued(q)' => root'[q] = root[carried[t]]
      BY <1>0, <1>1, <3>1, <3>2
    <3> QED
      BY <1>2, <3>3
  <2>3. CASE /\ \A c \in Call, u \in User, n \in Row : ~SignIn(c, u, n)
             /\ \A t \in Tab, n \in Row : ~ServeRefresh(t, n)
    <3>1. Issued(r) /\ Issued(s)
      BY <1>2, <2>3, StatusStep
    <3> QED
      BY <1>1, <3>1, RowStep
  <2> QED
    BY <2>1, <2>2, <2>3
<1>3. ASSUME ~Before', jar' = NoRow, NEW t \in Tab
      PROVE  /\ acc'[t] = NoRow \/ inbox'[t] # <<>>
             /\ \A i \in DOMAIN inbox'[t] : inbox'[t][i].row = NoRow
  <2>1. ~Before
    BY <1>0, <1>3, BeforeEnds
  <2>2. CASE jar = NoRow
    <3>1. /\ acc[t] = NoRow \/ inbox[t] # <<>>
          /\ \A i \in DOMAIN inbox[t] : inbox[t][i].row = NoRow
      BY <1>1, <2>1, <2>2
    <3>2. CASE Receive(t)
      <4>1. /\ inbox[t] # <<>> /\ Head(inbox[t]) = inbox[t][1] /\ 1 \in DOMAIN inbox[t]
            /\ \A i \in DOMAIN Tail(inbox[t]) : i + 1 \in DOMAIN inbox[t] /\ Tail(inbox[t])[i] = inbox[t][i + 1]
        BY <3>2, HeadIsMessage DEF Receive
      <4>2. Head(inbox[t]).row = NoRow /\ ~(NoRow > acc[t])
        BY <1>0, <3>1, <4>1, SessionAssumption DEF MaybeRow, NoRow
      <4>3. ClearLocal(t)
        BY <3>2, <4>2 DEF Receive
      <4>4. inbox'[t] = Tail(inbox[t]) /\ acc'[t] = NoRow
        BY <1>0, <3>2, <4>3 DEF Receive, ClearLocal
      <4> QED
        BY <3>1, <4>1, <4>4
    <3>3. CASE ~Receive(t)
      <4>1. /\ acc'[t] \in {acc[t], NoRow}
            /\ \A i \in DOMAIN inbox'[t] :
                  inbox'[t][i].row = NoRow \/ \E j \in DOMAIN inbox[t] : inbox'[t][i] = inbox[t][j]
        BY <1>3, <3>3, TabStep
      <4>2. CASE acc[t] = NoRow
        BY <3>1, <4>1, <4>2
      <4>3. CASE inbox[t] # <<>>
        <5>1. ~Settled
          BY <1>0, <4>3 DEF Settled
        <5>2. (\E o \in Tab : o # t /\ Receive(o)) \/ UNCHANGED vars
          BY <3>3, <5>1, SettledStep
        <5>3. inbox'[t] = inbox[t]
          BY <1>0, <5>2 DEF Receive, vars
        <5> QED
          BY <3>1, <4>3, <5>3
      <4> QED
        BY <3>1, <4>2, <4>3
    <3> QED
      BY <3>2, <3>3
  <2>3. CASE jar # NoRow
    <3>1. \A c \in Call : AcceptSignIn(c) => token[c] # NoRow
      BY RowFacts DEF AcceptSignIn, SignedInv, Private, Issued
    <3>2. \A o \in Tab : ~(Renewed(o) /\ jar' = reply[o].row) /\ ~(Refused(o) /\ carried[o] # NoRow)
                         /\ reply[o].code # "500"
      BY <1>0, <1>1, <1>3 DEF Renewed, Refused, FlightInv
    <3>3. PICK c \in Call : FinishLogout(c)
      BY <1>3, <2>3, <3>1, <3>2, JarStep
    <3>4. Settled
      BY <1>3, <2>3, SettledStep DEF Receive, vars
    <3>5. inbox[t] = <<>> /\ inbox[t] \in Seq(Message)
      BY <1>0, <3>4 DEF Settled
    <3>6. Post(Home[c], NoRow, NoUser) /\ acc' = [acc EXCEPT ![Home[c]] = NoRow]
          /\ NoUser \in MaybeUser /\ NoRow \in MaybeRow /\ Home[c] \in Tab
      BY <1>0, <3>3, RowFacts DEF FinishLogout, ClearLocal, MaybeUser
    <3>7. \A i \in DOMAIN inbox'[t] :
             inbox'[t][i].row = NoRow \/ \E j \in DOMAIN inbox[t] : inbox'[t][i] = inbox[t][j]
      BY <3>6, PostRows
    <3>8. \A i \in DOMAIN inbox'[t] : inbox'[t][i].row = NoRow
      BY <3>5, <3>7
    <3>9. CASE t = Home[c]
      BY <1>0, <3>6, <3>8, <3>9
    <3>10. CASE t # Home[c]
      <4>1. inbox'[t] = Append(inbox[t], [row |-> NoRow, user |-> NoUser])
        BY <1>0, <3>6, <3>10, PostType
      <4>2. [row |-> NoRow, user |-> NoUser] \in Message
        BY <3>6 DEF Message
      <4>3. inbox'[t] # <<>>
        BY <3>5, <4>1, <4>2, AppendType
      <4> QED
        BY <3>8, <4>3
    <3> QED
      BY <3>9, <3>10
  <2> QED
    BY <2>2, <2>3
<1>4. ASSUME jar' # NoRow, NEW r \in Row, status'[r] = "revoked" PROVE \E c \in Call : pc'[c] = "bye"
  <2>1. CASE \E c \in Call : ServeLogout(c)
    BY <1>0, <2>1 DEF ServeLogout
  <2>2. ASSUME NEW t \in Tab, RefuseRefresh(t), StatusOf(carried[t]) = "rotated" PROVE FALSE
    BY <1>0, <2>2 DEF RefuseRefresh, ExchangeInv
  <2>3. CASE status[r] = "revoked"
    <3>1. ASSUME NEW c \in Call, AcceptSignIn(c) PROVE FALSE
      <4>1. Issued(r) /\ Issued(token[c]) /\ status[token[c]] = "live" /\ root[token[c]] = token[c]
            /\ token[c] \in Row /\ \A s \in Row : root[s] = token[c] => s = token[c]
        BY <2>3, <3>1 DEF AcceptSignIn, SignedInv, Private, Issued
      <4>2. root[r] = token[c]
        BY <1>1, <4>1
      <4> QED
        BY <2>3, <4>1, <4>2
    <3>2. ASSUME NEW t \in Tab, Renewed(t) PROVE FALSE
      <4>1. flight[t] = "reply" /\ carried[t] # NoRow /\ t \in Holding
        BY <3>2 DEF Renewed, FlightInv, Holding
      <4>2. jar # NoRow
        BY <1>0, <4>1 DEF CookieInv
      <4>3. PICK c \in Call : pc[c] = "bye"
        BY <1>1, <2>3, <4>2
      <4>4. c \in Holding
        BY <4>3 DEF Holding
      <4> QED
        BY <1>0, <4>1, <4>4, OneHolder
    <3>3. jar' = jar
      BY <1>4, <3>1, <3>2, JarStep
    <3>4. PICK c \in Call : pc[c] = "bye"
      BY <1>1, <1>4, <2>3, <3>3
    <3>5. ~FinishLogout(c)
      BY <1>0, <1>4, <3>4 DEF FinishLogout, FlightInv
    <3>6. /\ \A u \in User, n \in Row : ~SignIn(c, u, n)
          /\ ~AcceptSignIn(c) /\ ~StartLogout(c) /\ ~SendLogout(c) /\ ~ServeLogout(c) /\ ~Start(c)
          /\ ~Serve(c) /\ ~Answered(c) /\ ~GaveUp(c) /\ ~Rejected(c) /\ pc[c] \notin Waits
      BY <3>4 DEF SignIn, AcceptSignIn, StartLogout, SendLogout, ServeLogout, Start, Serve, Answered, GaveUp, Rejected, Waits
    <3>7. pc'[c] = pc[c]
      BY <3>5, <3>6, CallerStep
    <3> QED
      BY <3>4, <3>7
  <2> QED
    BY <1>4, <2>1, <2>2, <2>3, StatusStep
<1>5. ASSUME NEW t \in Tab, reply'[t].code = "401" PROVE carried'[t] = NoRow
  <2>1. CASE reply'[t] = reply[t] /\ carried'[t] = carried[t]
    BY <1>1, <1>5, <2>1
  <2>2. CASE Ended(t)
    BY <2>2 DEF Ended
  <2>3. CASE Sleep(t)
    BY <1>0, <1>5, <2>3 DEF Sleep
  <2>4. CASE SendRefresh(t) \/ (Wake(t) /\ flight' = [flight EXCEPT ![t] = "wire"] /\ UNCHANGED reply)
    <3>1. flight[t] # "reply" /\ reply'[t] = reply[t]
      BY <2>4 DEF SendRefresh, Wake
    <3> QED
      BY <1>0, <1>5, <3>1 DEF FlightInv
  <2>5. CASE \E n \in Row : ServeRefresh(t, n)
    <3>1. PICK n \in Row : ServeRefresh(t, n)
      BY <2>5
    <3>2. reply' = [reply EXCEPT ![t] = [code |-> "200", row |-> n]] \/ reply' = [reply EXCEPT ![t].code = "500"]
      BY <3>1 DEF ServeRefresh
    <3> QED
      BY <1>0, <1>5, <3>2
  <2>6. CASE RefuseRefresh(t)
    <3>1. SUFFICES ASSUME carried[t] # NoRow PROVE FALSE
      BY <2>6 DEF RefuseRefresh
    <3>2. carried[t] \in Row /\ Issued(carried[t]) /\ flight[t] = "wire" /\ t \in Holding
      BY <1>0, <2>6, <3>1, RowFacts DEF RefInv, Holds, RefuseRefresh, Holding
    <3>3. status[carried[t]] \notin {"live", "rotated", "absent"}
      BY <1>0, <2>6, <3>1, <3>2 DEF RefuseRefresh, StatusOf, ExchangeInv, Issued
    <3>4. status[carried[t]] = "revoked" /\ jar # NoRow
      BY <1>0, <3>1, <3>2, <3>3 DEF CookieInv
    <3>5. PICK c \in Call : pc[c] = "bye"
      BY <1>1, <3>2, <3>4
    <3>6. c \in Holding
      BY <3>5 DEF Holding
    <3> QED
      BY <1>0, <3>2, <3>6, OneHolder
  <2> QED
    BY <2>1, <2>2, <2>3, <2>4, <2>5, <2>6, NetStep
<1> QED
  BY <1>2, <1>3, <1>4, <1>5

-------------------------------------------------------------------------------
(* The theorems.                                                           *)

LEMMA InitInv == Init => IInv
<1> SUFFICES ASSUME Init PROVE IInv
  OBVIOUS
<1>0. /\ TypeOK /\ NoReply.code = "none" /\ NoReply.row = NoRow /\ NoRow \notin Row /\ 0 \in Int /\ 0 <= 0
      /\ Never <= 0 /\ 1 \in Row
  BY InitTypeOK, RowFacts, SessionAssumption DEF NoReply, Never, Row
<1>1. /\ clock = 0 /\ born = [r \in Row |-> 0] /\ rotatedAt = [r \in Row |-> Never]
      /\ acc = [t \in Tab |-> NoRow] /\ view = [t \in Tab |-> "unknown"]
      /\ inbox = [t \in Tab |-> <<>>] /\ flight = [t \in Tab |-> "none"]
      /\ carried = [t \in Tab |-> NoRow] /\ attempt = [t \in Tab |-> 0] /\ reply = [t \in Tab |-> NoReply]
      /\ pc = [c \in Call |-> "idle"] /\ token = [c \in Call |-> NoRow] /\ code = [c \in Call |-> "none"]
  BY DEF Init
<1>2. \/ /\ jar = NoRow /\ status = [r \in Row |-> "absent"] /\ root = [r \in Row |-> NoRow]
      \/ \E u \in User :
            /\ jar = 1 /\ status = [r \in Row |-> IF r = 1 THEN "live" ELSE "absent"]
            /\ owner = [r \in Row |-> IF r = 1 THEN u ELSE NoUser]
            /\ root = [r \in Row |-> IF r = 1 THEN 1 ELSE NoRow]
  <2>1. Returning \subseteq User
    BY <1>0, SettingType DEF Returning
  <2> QED
    BY <2>1 DEF Init
<1>3. /\ jar # NoRow => Issued(jar)
      /\ \A r \in Row : status[r] \in {"absent", "live"}
      /\ \A r \in Row : status[r] = "absent" => root[r] = NoRow
      /\ \A r \in Row : status[r] # "absent" => r = 1 /\ jar = 1 /\ root[r] = r /\ owner[r] \in User
  BY <1>0, <1>2 DEF Issued
<1>4. RowInv
  BY <1>0, <1>1, <1>3 DEF RowInv, Issued
<1>5. \A r \in Row : Holds(r) => jar = r
  BY <1>0, <1>1 DEF Holds
<1>6. RefInv
  BY <1>0, <1>1, <1>3, <1>5 DEF RefInv
<1>7. FlightInv
  BY <1>0, <1>1 DEF FlightInv
<1>8. SignedInv /\ LockInv /\ CookieInv /\ ExchangeInv
  BY <1>0, <1>1, <1>3 DEF SignedInv, LockInv, Holding, CookieInv, ExchangeInv, StatusOf, Issued
<1>9. QuickInv
  BY <1>0, <1>1, <1>3 DEF QuickInv
<1>10. BeforeInv
  <2>1. Before => jar = NoRow
    BY <1>1, <1>3 DEF Before, Issued
  <2> QED
    BY <1>1, <2>1 DEF BeforeInv
<1>11. AgreeInv
  <2>1. \A r, s \in Row : Issued(r) /\ Issued(s) => root[r] = root[s]
    BY <1>3 DEF Issued
  <2> QED
    BY <1>0, <1>1, <1>3, <2>1 DEF AgreeInv
<1> QED
  BY <1>4, <1>6, <1>7, <1>8, <1>9, <1>10, <1>11 DEF IInv

\* The types and the inductive invariant hold in every state: at most one refresh or logout
\* of a browser with Web Locks is between its grant and its end, and what follows for the
\* cookie, the tokens and the sessions.
THEOREM Invariance == Spec => [](TypeOK /\ IInv)
<1>1. Init => TypeOK /\ IInv
  BY InitTypeOK, InitInv
<1>2. TypeOK /\ IInv /\ [Next]_vars => (TypeOK /\ IInv)'
  <2> SUFFICES ASSUME TypeOK, IInv, [Next]_vars PROVE TypeOK' /\ IInv'
    OBVIOUS
  <2>1. RowInv /\ RefInv /\ FlightInv /\ SignedInv /\ LockInv /\ CookieInv /\ ExchangeInv
        /\ QuickInv /\ BeforeInv /\ AgreeInv
    BY DEF IInv
  <2>2. TypeOK' /\ RowInv' /\ RefInv' /\ FlightInv' /\ SignedInv'
    BY <2>1, NextTypeOK, RowStep, RefStep, FlightStep, SignedStep
  <2>3. LockInv' /\ CookieInv' /\ ExchangeInv'
    BY <2>1, LockStep, CookieStep, ExchangeStep
  <2>4. QuickInv' /\ BeforeInv' /\ AgreeInv'
    BY <2>1, QuickStep, BeforeStep, AgreeStep
  <2> QED
    BY <2>2, <2>3, <2>4 DEF IInv
<1> QED
  BY <1>1, <1>2, PTL DEF Spec

\* Every variable of the browser, its tabs and the server has its type.
THEOREM TypeCorrect == Spec => []TypeOK
  BY Invariance, PTL

\* With Web Locks, and no response lost, no tab ever sends a refresh token that has been
\* exchanged: the lock keeps a tab from reading the cookie while a response is on its way.
THEOREM NoReplay == Spec => []NothingReplayed
<1>1. IInv => NothingReplayed
  BY DEF IInv, ExchangeInv, NothingReplayed
<1> QED
  BY <1>1, Invariance, PTL

\* With Web Locks, the response of a refresh that is late does not bring back a cookie that
\* a logout or a 401 has removed.
THEOREM RemovedCookieStaysAway == Spec => CookieComesBackBySignIn
<1>1. TypeOK /\ IInv /\ [Next]_vars =>
        [HasLocks /\ jar = NoRow /\ jar' # NoRow => root'[jar'] = jar']_vars
  <2> SUFFICES ASSUME TypeOK, IInv, [Next]_vars, HasLocks, jar = NoRow, jar' # NoRow PROVE root'[jar'] = jar'
    OBVIOUS
  <2>1. \A t \in Tab : ~Renewed(t)
    BY DEF IInv, FlightInv, CookieInv, Renewed
  <2>2. PICK c \in Call : AcceptSignIn(c) /\ jar' = token[c]
    BY <2>1, JarStep
  <2> QED
    BY <2>2 DEF AcceptSignIn, server, IInv, SignedInv, Private
<1> QED
  BY <1>1, Invariance, PTL DEF Spec, CookieComesBackBySignIn

\* With or without locks, the refreshes of tabs that race within the grace period, and that
\* nobody signs out, neither revoke the session nor lose its cookie.
THEOREM RacesAreHarmless == Spec => RacesKeepTheSession
<1> DEFINE Kept == (~MayLogout /\ ~MayFail /\ MaxTime <= Grace) =>
                      /\ jar # NoRow => jar' # NoRow
                      /\ \A r \in Row : status'[r] # "revoked"
<1>1. TypeOK /\ IInv /\ IInv' /\ [Next]_vars => Kept
  <2> SUFFICES ASSUME TypeOK, IInv, IInv', [Next]_vars, Quick
               PROVE  /\ jar # NoRow => jar' # NoRow
                      /\ \A r \in Row : status'[r] # "revoked"
    BY DEF Quick
  <2>1. \A r \in Row : status'[r] # "revoked"
    BY ServerSteps DEF IInv, QuickInv, Quick, MayLogout, MayFail, MaxTime, Grace
  <2>2. /\ \A c \in Call : ~FinishLogout(c)
        /\ \A t \in Tab : /\ Renewed(t) => reply[t].row # NoRow
                          /\ ~(Refused(t) /\ carried[t] # NoRow)
                          /\ reply[t].code # "500"
    BY DEF IInv, QuickInv, FlightInv, FinishLogout, Renewed, Refused, Quick
  <2>3. \A c \in Call : AcceptSignIn(c) => token[c] # NoRow
    BY RowFacts DEF AcceptSignIn, IInv, SignedInv, Private, Issued
  <2> QED
    BY <2>1, <2>2, <2>3, JarStep
<1> HIDE DEF Kept
<1>2. TypeOK /\ IInv /\ IInv' /\ [Next]_vars => [Kept]_vars
  BY <1>1
<1>3. [][Kept]_vars => RacesKeepTheSession
  BY PTL DEF Kept, RacesKeepTheSession
<1> QED
  BY <1>2, <1>3, Invariance, PTL DEF Spec

\* With locks, messages that are read before anything else happens and one session, tabs at
\* rest agree with the cookie: a token that a tab holds is of the session of the cookie,
\* and not revoked.
THEOREM TabsAgree == Spec => []QuietTokensAgree
<1>1. TypeOK /\ IInv => QuietTokensAgree
  <2> SUFFICES ASSUME TypeOK, IInv, Orderly, Quiet, NEW t \in Tab, acc[t] # NoRow
               PROVE  status[acc[t]] # "revoked" /\ jar # NoRow /\ root[jar] = root[acc[t]]
    BY DEF QuietTokensAgree, Orderly
  <2>1. acc[t] \in Row /\ Issued(acc[t])
    BY RowFacts DEF TypeOK, IInv, RefInv, Holds
  <2>2. ~Before
    BY DEF IInv, BeforeInv
  <2>3. jar # NoRow
    BY <2>2 DEF IInv, AgreeInv, Quiet
  <2>4. jar \in Row /\ Issued(jar)
    BY <2>3, RowFacts DEF TypeOK, IInv, RefInv, Holds
  <2>5. \A c \in Call : pc[c] # "bye"
    BY DEF Quiet
  <2> QED
    BY <2>1, <2>3, <2>4, <2>5 DEF IInv, AgreeInv
<1> QED
  BY <1>1, Invariance, PTL

-------------------------------------------------------------------------------
(* The data of one user.                                                   *)

Asking == {"send", "answer", "resend", "reanswer"}

\* The token of a tab, the answers of its queries, and the requests no purge has marked
\* are of users whose tokens the tab has held since it changed its user.
HeldInv ==
    /\ \A t \in Tab : acc[t] # NoRow => owner[acc[t]] \in held[t]
    /\ \A t \in Tab : \A u \in User : <<u, "query">> \in cache[t] => u \in held[t]
    /\ \A c \in Call : pc[c] \in Asking /\ ~dropped[c] =>
          token[c] # NoRow /\ owner[token[c]] \in held[Home[c]]

\* A tab forgets none of those users, and caches at most the answer of a caller c, ...
Adds(t, c) == /\ Answered(c) /\ Home[c] = t /\ (kind[c] = "update" \/ ~dropped[c])
              /\ cache'[t] = cache[t] \cup {<<owner[token[c]], kind[c]>>}
Keeps(t) == /\ held[t] \subseteq held'[t]
            /\ cache'[t] = cache[t] \/ \E c \in Call : Adds(t, c)

\* ... or it forgets them with an empty cache and everything in flight marked.
Purges(t) == /\ cache'[t] = {}
             /\ \A c \in Call : Home[c] = t => pc[c] = "idle" \/ dropped'[c]

\* A token that a tab gets is of one of them.
Backed(t) == \/ acc'[t] = acc[t] /\ held[t] \subseteq held'[t]
             \/ owner' = owner /\ Owners(acc'[t]) \subseteq held'[t]

LEMMA SetStateData ==
    ASSUME TypeOK, NEW t \in Tab, NEW v, NEW u, SetState(t, v, u), UNCHANGED owner,
           NEW o \in Tab, acc'[o] = acc[o] \/ o = t
    PROVE  (Keeps(o) \/ Purges(o)) /\ Backed(o)
<1>0. cache \in [Tab -> SUBSET (User \X Kind)] /\ held \in [Tab -> SUBSET MaybeUser]
  BY DEF TypeOK
<1> DEFINE purge == Identity(v, u) # Identity(view[t], shown[t])
<1>1. /\ cache' = [cache EXCEPT ![t] = IF purge THEN {} ELSE @]
      /\ held' = [held EXCEPT ![t] = (IF purge THEN {} ELSE @) \cup Owners(acc'[t])]
      /\ dropped' = [c \in Call |-> dropped[c] \/ (purge /\ Home[c] = t /\ pc[c] # "idle")]
  BY DEF SetState
<1> HIDE DEF purge
<1>2. CASE o # t
  <2>1. cache'[o] = cache[o] /\ held'[o] = held[o] /\ acc'[o] = acc[o]
    BY <1>0, <1>1, <1>2
  <2> QED
    BY <2>1 DEF Keeps, Backed
<1>3. CASE o = t
  <2>1. held'[t] = (IF purge THEN {} ELSE held[t]) \cup Owners(acc'[t])
    BY <1>0, <1>1
  <2>2. Backed(o)
    BY <1>3, <2>1 DEF Backed
  <2>3. CASE purge
    <3>1. cache'[t] = {}
      BY <1>0, <1>1, <2>3
    <3>2. \A c \in Call : Home[c] = t /\ pc[c] # "idle" => dropped'[c]
      BY <1>1, <2>3
    <3> QED
      BY <1>3, <2>2, <3>1, <3>2 DEF Purges
  <2>4. CASE ~purge
    <3>1. cache'[t] = cache[t]
      BY <1>0, <1>1, <2>4
    <3> QED
      BY <1>3, <2>1, <2>2, <2>4, <3>1 DEF Keeps
  <2> QED
    BY <2>3, <2>4
<1> QED
  BY <1>2, <1>3

\* What a step does to what a tab has cached and held.
LEMMA CachedStep ==
    ASSUME TypeOK, [Next]_vars, NEW o \in Tab
    PROVE  (Keeps(o) \/ Purges(o)) /\ Backed(o)
<1> DEFINE Goal == (Keeps(o) \/ Purges(o)) /\ Backed(o)
<1>0. /\ env.users \subseteq User /\ env.calls \subseteq Call /\ Home \in [Call -> Tab]
      /\ cache \in [Tab -> SUBSET (User \X Kind)] /\ acc \in [Tab -> MaybeRow]
  BY SettingType DEF TypeOK
<1>1. ASSUME NEW t \in Tab, NEW r, NEW u, SetToken(t, r, u), UNCHANGED server PROVE Goal
  <2>1. SetState(t, "authenticated", u) /\ acc' = [acc EXCEPT ![t] = r] /\ UNCHANGED owner
    BY <1>1 DEF SetToken, server
  <2>2. acc'[o] = acc[o] \/ o = t
    BY <1>0, <2>1
  <2> QED
    BY <2>1, <2>2, SetStateData
<1>2. ASSUME NEW t \in Tab, ClearLocal(t), UNCHANGED server PROVE Goal
  <2>1. SetState(t, "anonymous", NoUser) /\ acc' = [acc EXCEPT ![t] = NoRow] /\ UNCHANGED owner
    BY <1>2 DEF ClearLocal, server
  <2>2. acc'[o] = acc[o] \/ o = t
    BY <1>0, <2>1
  <2> QED
    BY <2>1, <2>2, SetStateData
<1>3. ASSUME UNCHANGED tabs PROVE Goal
  BY <1>3 DEF tabs, Keeps, Backed
<1>4. ASSUME NEW c \in Call, Answered(c) PROVE Goal
  <2>1. CASE UNCHANGED acc /\ SetState(Home[c], "authenticated", owner[token[c]])
    BY <1>0, <1>4, <2>1, SetStateData DEF Answered, server
  <2>2. CASE /\ cache' = [cache EXCEPT ![Home[c]] = IF kind[c] # "update" /\ dropped[c] THEN @
                                                   ELSE @ \cup {<<owner[token[c]], kind[c]>>}]
             /\ UNCHANGED <<acc, view, shown, held, dropped>>
    <3>1. CASE o = Home[c] /\ ~(kind[c] # "update" /\ dropped[c])
      <4>1. cache'[o] = cache[o] \cup {<<owner[token[c]], kind[c]>>}
        BY <1>0, <2>2, <3>1
      <4>2. Adds(o, c)
        BY <1>4, <3>1, <4>1 DEF Adds
      <4> QED
        BY <2>2, <4>2 DEF Keeps, Backed
    <3>2. CASE ~(o = Home[c] /\ ~(kind[c] # "update" /\ dropped[c]))
      <4>1. cache'[o] = cache[o]
        BY <1>0, <2>2, <3>2
      <4> QED
        BY <2>2, <4>1 DEF Keeps, Backed
    <3> QED
      BY <3>1, <3>2
  <2> QED
    BY <1>4, <2>1, <2>2 DEF Answered
<1> HIDE DEF Goal
<1>5. ASSUME NEW t \in Tab, Receive(t) PROVE Goal
  <2>1. /\ UNCHANGED server
        /\ \/ \E r, u : SetToken(t, r, u)
           \/ UNCHANGED tabs \/ ClearLocal(t)
    BY <1>5 DEF Receive
  <2> QED
    BY <1>1, <1>2, <1>3, <2>1
<1>6. ASSUME NEW t \in Tab, RefreshStep(t) PROVE Goal
  <2>1. CASE Renewed(t)
    BY <1>1, <2>1 DEF Renewed
  <2>2. CASE Refused(t) \/ Failed(t)
    BY <1>2, <1>3, <2>2 DEF Refused, Failed, tabs
  <2>3. CASE TakeFresh(t) \/ SendRefresh(t) \/ RefuseRefresh(t) \/ Sleep(t) \/ Wake(t) \/ \E n \in Row : ServeRefresh(t, n)
    BY <1>3, <2>3 DEF TakeFresh, SendRefresh, RefuseRefresh, Sleep, Wake, ServeRefresh
  <2> QED
    BY <1>6, <2>1, <2>2, <2>3 DEF RefreshStep
<1>7. ASSUME NEW c \in Call, CallStep(c) PROVE Goal
  <2>1. CASE SendLogout(c) \/ ServeLogout(c) \/ Serve(c) \/ Rejected(c)
    BY <1>3, <2>1 DEF SendLogout, ServeLogout, Serve, Rejected
  <2>2. CASE FinishLogout(c) \/ GaveUp(c)
    BY <1>0, <1>2, <1>3, <2>2 DEF FinishLogout, GaveUp
  <2>3. CASE AcceptSignIn(c)
    BY <1>0, <1>1, <1>3, <2>3 DEF AcceptSignIn
  <2> QED
    BY <1>4, <1>7, <2>1, <2>2, <2>3 DEF CallStep
<1>8. ASSUME NEW c \in Call, Start(c) \/ StartLogout(c) \/ \E u \in User, n \in Row : SignIn(c, u, n) PROVE Goal
  BY <1>3, <1>8 DEF Start, StartLogout, SignIn
<1>9. ASSUME Tick \/ UNCHANGED vars PROVE Goal
  BY <1>3, <1>9 DEF Tick, vars
<1>10. Goal
  BY <1>0, <1>5, <1>6, <1>7, <1>8, <1>9 DEF Next
<1> QED
  BY <1>10 DEF Goal

\* A cancelled query stays cancelled until its caller starts another.
LEMMA DroppedStep ==
    ASSUME TypeOK, [Next]_vars, NEW c \in Call, dropped[c]
    PROVE  dropped'[c] \/ pc[c] = "idle"
<1> DEFINE Goal == dropped'[c] \/ pc[c] = "idle"
<1>0. env.users \subseteq User /\ env.calls \subseteq Call /\ dropped \in [Call -> BOOLEAN]
  BY SettingType DEF TypeOK
<1>1. ASSUME NEW t, NEW v, NEW u, SetState(t, v, u) PROVE Goal
  <2>1. dropped'[c] = (dropped[c] \/ ((Identity(v, u) # Identity(view[t], shown[t])) /\ Home[c] = t /\ pc[c] # "idle"))
    BY <1>1 DEF SetState
  <2> QED
    BY <2>1
<1>2. ASSUME UNCHANGED dropped PROVE Goal
  BY <1>2
<1>3. ASSUME NEW d \in Call, Start(d) PROVE Goal
  <2>1. dropped' = [dropped EXCEPT ![d] = FALSE] /\ pc[d] = "idle"
    BY <1>3 DEF Start
  <2> QED
    BY <1>0, <2>1
<1> HIDE DEF Goal
<1>4. ASSUME NEW t \in Tab, RefreshStep(t) \/ Receive(t) PROVE Goal
  <2>1. UNCHANGED dropped \/ \E s, v, u : SetState(s, v, u)
    BY <1>4 DEF RefreshStep, TakeFresh, SendRefresh, RefuseRefresh, Renewed, Sleep, Wake, Refused, Failed,
       ServeRefresh, Receive, SetToken, ClearLocal, calls
  <2> QED
    BY <1>1, <1>2, <2>1
<1>5. ASSUME NEW d \in Call, CallStep(d) PROVE Goal
  <2>1. UNCHANGED dropped \/ \E s, v, u : SetState(s, v, u)
    BY <1>5 DEF CallStep, AcceptSignIn, SendLogout, ServeLogout, FinishLogout, Serve, Answered, Rejected,
       GaveUp, SetToken, ClearLocal
  <2> QED
    BY <1>1, <1>2, <2>1
<1>6. ASSUME Tick \/ UNCHANGED vars \/ \E d \in Call : StartLogout(d) \/ \E u \in User, n \in Row : SignIn(d, u, n)
      PROVE  Goal
  BY <1>2, <1>6 DEF Tick, vars, calls, StartLogout, SignIn
<1>7. Goal
  BY <1>0, <1>3, <1>4, <1>5, <1>6 DEF Next
<1> QED
  BY <1>7 DEF Goal

\* A caller that is about to send a token, or has sent one, goes on with it or has just
\* been given the one its tab holds now.
LEMMA AskingStep ==
    ASSUME TypeOK, FlightInv, [Next]_vars, NEW c \in Call, pc'[c] \in Asking
    PROVE  \/ pc[c] \in Asking /\ token'[c] = token[c]
           \/ token'[c] = acc'[Home[c]] /\ token'[c] # NoRow
<1> DEFINE Goes == pc[c] \in Asking /\ token'[c] = token[c]
           Gets == token'[c] = acc'[Home[c]] /\ token'[c] # NoRow
<1>0. /\ pc \in [Call -> CallPc] /\ token \in [Call -> MaybeRow] /\ acc \in [Tab -> MaybeRow]
      /\ reply \in [Tab -> [code : Answer, row : MaybeRow]]
      /\ env.users \subseteq User /\ env.calls \subseteq Call /\ Home \in [Call -> Tab]
  BY SettingType, TypeFrame DEF TypeOK, CallPc
<1>1. CASE pc'[c] = pc[c] /\ token'[c] = token[c]
  BY <1>1
<1>2. ASSUME NEW t \in Tab, NEW r, Finish(t, r), acc'[t] = r \/ r = NoRow PROVE Goes \/ Gets
  <2> DEFINE again == IF r = NoRow \/ Fresh(r) THEN {} ELSE Restoring(t)
             go == Joined(t) \ again
  <2>1. /\ pc' = [d \in Call |->
              IF d \notin go THEN pc[d] ELSE IF r = NoRow THEN "idle"
              ELSE IF pc[d] = "join" THEN "send" ELSE "resend"]
        /\ token' = [d \in Call |-> IF d \in go THEN r ELSE token[d]]
    BY <1>2 DEF Finish
  <2>2. go \subseteq Joined(t)
    OBVIOUS
  <2> HIDE DEF go
  <2>3. CASE c \in go
    <3>1. r # NoRow
      BY <2>1, <2>3 DEF Asking
    <3>2. Home[c] = t
      BY <2>2, <2>3 DEF Joined
    <3> QED
      BY <1>2, <2>1, <2>3, <3>1, <3>2
  <2>4. CASE c \notin go
    BY <2>1, <2>4
  <2> QED
    BY <2>3, <2>4
<1>3. ASSUME NEW t \in Tab, RefreshStep(t) PROVE Goes \/ Gets
  <2>1. CASE TakeFresh(t)
    BY <1>2, <2>1 DEF TakeFresh, tabs
  <2>2. CASE Renewed(t)
    <3>1. acc'[t] = reply[t].row
      BY <1>0, <2>2 DEF Renewed, SetToken
    <3> QED
      BY <1>2, <2>2, <3>1 DEF Renewed
  <2>3. CASE Refused(t) \/ Failed(t)
    BY <1>2, <2>3 DEF Refused, Failed
  <2>4. CASE Wake(t)
    <3>1. CASE Finish(t, acc[t])
      BY <1>2, <2>4, <3>1 DEF Wake, tabs
    <3>2. CASE UNCHANGED <<line, stale, reply, pc, token, code, kind>>
      BY <1>1, <3>2
    <3> QED
      BY <2>4, <3>1, <3>2 DEF Wake
  <2>5. CASE SendRefresh(t) \/ RefuseRefresh(t) \/ Sleep(t) \/ \E n \in Row : ServeRefresh(t, n)
    BY <1>1, <2>5 DEF SendRefresh, RefuseRefresh, Sleep, ServeRefresh, calls
  <2> QED
    BY <1>3, <2>1, <2>2, <2>3, <2>4, <2>5 DEF RefreshStep
<1>4. ASSUME NEW d \in Call, CallStep(d) PROVE Goes \/ Gets
  <2>1. CASE AcceptSignIn(d) \/ FinishLogout(d) \/ SendLogout(d) \/ ServeLogout(d)
    BY <1>0, <2>1 DEF AcceptSignIn, FinishLogout, SendLogout, ServeLogout, Asking
  <2>2. CASE Answered(d) \/ GaveUp(d)
    BY <1>0, <2>2 DEF Answered, GaveUp, EndCall, Asking
  <2>3. CASE Serve(d) \/ Rejected(d)
    BY <1>0, <2>3 DEF Serve, Rejected, Asking
  <2> QED
    BY <1>4, <2>1, <2>2, <2>3 DEF CallStep
<1>5. ASSUME NEW d \in Call, Start(d) PROVE Goes \/ Gets
  <2>1. CASE Fresh(acc[Home[d]])
    <3>1. pc' = [pc EXCEPT ![d] = "send"] /\ token' = [token EXCEPT ![d] = acc[Home[d]]] /\ acc' = acc
      BY <1>5, <2>1 DEF Start, tabs
    <3> QED
      BY <1>0, <2>1, <3>1, FreshIsToken
  <2>2. CASE ~Fresh(acc[Home[d]])
    <3>1. pc' = [pc EXCEPT ![d] = "join"] /\ UNCHANGED token
      BY <1>5, <2>2 DEF Start
    <3> QED
      BY <1>0, <3>1 DEF Asking
  <2> QED
    BY <2>1, <2>2
<1>6. ASSUME NEW d \in Call, StartLogout(d) \/ \E u \in User, n \in Row : SignIn(d, u, n) PROVE Goes \/ Gets
  BY <1>0, <1>6 DEF StartLogout, SignIn, Asking
<1>7. ASSUME Tick \/ UNCHANGED vars \/ \E t \in Tab : Receive(t) PROVE Goes \/ Gets
  BY <1>1, <1>7 DEF Tick, Receive, vars, calls
<1> HIDE DEF Goes, Gets
<1>8. Goes \/ Gets
  BY <1>0, <1>3, <1>4, <1>5, <1>6, <1>7 DEF Next
<1> QED
  BY <1>8 DEF Goes, Gets

LEMMA HeldStep ==
    ASSUME TypeOK, RowInv, RefInv, FlightInv, SignedInv, HeldInv, [Next]_vars
    PROVE  HeldInv'
<1>0. /\ Home \in [Call -> Tab] /\ token \in [Call -> MaybeRow] /\ acc \in [Tab -> MaybeRow]
      /\ dropped \in [Call -> BOOLEAN] /\ kind \in [Call -> Kind]
  BY SettingType DEF TypeOK
<1>1. ASSUME NEW t \in Tab, acc'[t] # NoRow PROVE owner'[acc'[t]] \in held'[t]
  <2>1. CASE acc'[t] = acc[t] /\ held[t] \subseteq held'[t]
    <3>1. owner[acc[t]] \in held'[t]
      BY <1>1, <2>1 DEF HeldInv
    <3>2. Issued(acc[t])
      BY <1>0, <1>1, <2>1, RowFacts DEF RefInv, Holds
    <3>3. owner'[acc[t]] = owner[acc[t]]
      BY <3>2, RowStep
    <3> QED
      BY <2>1, <3>1, <3>3
  <2>2. CASE owner' = owner /\ Owners(acc'[t]) \subseteq held'[t]
    BY <1>1, <2>2 DEF Owners
  <2> QED
    BY <2>1, <2>2, CachedStep DEF Backed
<1>2. ASSUME NEW t \in Tab, NEW u \in User, <<u, "query">> \in cache'[t] PROVE u \in held'[t]
  <2>1. CASE Keeps(t)
    <3>1. CASE cache'[t] = cache[t]
      BY <1>2, <2>1, <3>1 DEF Keeps, HeldInv
    <3>2. ASSUME NEW c \in Call, Adds(t, c) PROVE u \in held'[t]
      <4>1. CASE <<u, "query">> \in cache[t]
        BY <2>1, <4>1 DEF Keeps, HeldInv
      <4>2. CASE <<u, "query">> = <<owner[token[c]], kind[c]>>
        <5>1. u = owner[token[c]] /\ ~dropped[c] /\ pc[c] \in Asking
          BY <3>2, <4>2 DEF Adds, Answered, Asking
        <5> QED
          BY <2>1, <3>2, <5>1 DEF Adds, Keeps, HeldInv
      <4> QED
        BY <1>2, <3>2, <4>1, <4>2 DEF Adds
    <3> QED
      BY <2>1, <3>1, <3>2 DEF Keeps
  <2>2. CASE Purges(t)
    BY <1>2, <2>2 DEF Purges
  <2> QED
    BY <2>1, <2>2, CachedStep
<1>3. ASSUME NEW c \in Call, pc'[c] \in Asking, ~dropped'[c]
      PROVE  token'[c] # NoRow /\ owner'[token'[c]] \in held'[Home[c]]
  <2>1. CASE token'[c] = acc'[Home[c]] /\ token'[c] # NoRow
    BY <1>0, <1>1, <2>1
  <2>2. CASE pc[c] \in Asking /\ token'[c] = token[c]
    <3>1. pc[c] # "idle" /\ Home[c] \in Tab
      BY <1>0, <2>2 DEF Asking
    <3>2. ~dropped[c]
      BY <1>3, <3>1, DroppedStep
    <3>3. held[Home[c]] \subseteq held'[Home[c]]
      BY <1>3, <3>1, CachedStep DEF Keeps, Purges
    <3>4. token[c] # NoRow /\ owner[token[c]] \in held[Home[c]]
      BY <2>2, <3>2 DEF HeldInv
    <3>5. Issued(token[c])
      BY <1>0, <3>4, RowFacts DEF RefInv
    <3>6. owner'[token[c]] = owner[token[c]]
      BY <3>5, RowStep
    <3> QED
      BY <2>2, <3>3, <3>4, <3>6
  <2> QED
    BY <1>3, <2>1, <2>2, AskingStep
<1> QED
  BY <1>1, <1>2, <1>3 DEF HeldInv

\* However late answers come, in any number of tabs and with any number of users, what
\* queries have cached in a tab is data of users whose tokens the tab has held since it last
\* changed the user it shows: the purge of session-cache.ts with its cancelled queries is
\* enough for queries.  For updates it is not, and neither does it make sure that the token
\* is of the user who is shown.
THEOREM DataStayApart == Spec => []QueriesOfItsTokens
<1>1. Init => HeldInv
  BY SettingType, InitTypeOK DEF Init, HeldInv, Asking
<1>2. TypeOK /\ IInv /\ HeldInv /\ [Next]_vars => HeldInv'
  BY HeldStep DEF IInv
<1>3. HeldInv => QueriesOfItsTokens
  BY DEF HeldInv, QueriesOfItsTokens
<1> QED
  BY <1>1, <1>2, <1>3, Invariance, PTL DEF Spec
=============================================================================
