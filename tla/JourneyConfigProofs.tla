-------------------------- MODULE JourneyConfigProofs --------------------------
(* Theorems about JourneyConfig, for every value of its constants. *)
EXTENDS JourneyConfig, SequenceTheorems, FiniteSetTheorems, TLAPS

-------------------------------------------------------------------------------
(* Lists without duplicates.                                               *)

LEMMA EmptyLength == \A t : t = <<>> => Len(t) = 0
  OBVIOUS

LEMMA AppendToList ==
  ASSUME NEW S, NEW s \in List(S), NEW x \in S, x \notin Items(s)
  PROVE  /\ Append(s, x) \in List(S)
         /\ Items(Append(s, x)) = Items(s) \cup {x}
         /\ Len(Append(s, x)) = Len(s) + 1
<1> DEFINE t == Append(s, x)
<1>1. s \in Seq(S) /\ Len(s) \in Nat /\ t \in Seq(S) /\ Len(t) = Len(s) + 1
  BY DEF List
<1>2. /\ \A i \in 1..Len(s) : t[i] = s[i] /\ s[i] \in Items(s)
      /\ t[Len(s) + 1] = x
  BY <1>1 DEF Items
<1>3. \A i \in 1..Len(t) : i \in 1..Len(s) \/ i = Len(s) + 1
  BY <1>1
<1> HIDE DEF t
<1>4. \A i, j \in 1..Len(t) : t[i] = t[j] => i = j
  BY <1>2, <1>3 DEF List
<1>5. Items(t) = Items(s) \cup {x}
  <2>1. Items(t) \subseteq Items(s) \cup {x}
    BY <1>2, <1>3 DEF Items
  <2>2. Items(s) \subseteq Items(t)
    BY <1>1, <1>2 DEF Items
  <2>3. x \in Items(t)
    BY <1>1, <1>2 DEF Items
  <2> QED
    BY <2>1, <2>2, <2>3
<1> QED
  BY <1>1, <1>4, <1>5 DEF List, t

LEMMA DropFromList ==
  ASSUME NEW S, NEW s \in List(S), NEW x \in Items(s)
  PROVE  /\ Without(s, x) \in List(S)
         /\ Items(Without(s, x)) \subseteq Items(s)
         /\ Len(Without(s, x)) = Len(s) - 1
<1> DEFINE k == CHOOSE i \in 1..Len(s) : s[i] = x
           n == Len(s) - 1
           t == [i \in 1..n |-> IF i < k THEN s[i] ELSE s[i + 1]]
<1>1. s \in Seq(S) /\ Len(s) \in Nat
  BY DEF List
<1>2. k \in 1..Len(s) /\ n \in Nat
  BY <1>1 DEF Items
<1>3. Without(s, x) = t
  BY DEF Without
<1>4. \A i \in 1..n : i \in 1..Len(s) /\ i + 1 \in 1..Len(s)
  BY <1>1, <1>2
<1>5. \A i \in 1..n : t[i] \in S
  BY <1>1, <1>4
<1>6. t \in Seq(S) /\ Len(t) = n
  BY <1>2, <1>5
<1>7. \A i, j \in 1..n : t[i] = t[j] => i = j
  <2> SUFFICES ASSUME NEW i \in 1..n, NEW j \in 1..n, t[i] = t[j]
               PROVE  i = j
    OBVIOUS
  <2>1. \A a, b \in 1..Len(s) : s[a] = s[b] => a = b
    BY DEF List
  <2>2. k \in Int
    BY <1>1, <1>2
  <2> QED
    BY <1>1, <1>4, <2>1, <2>2
<1>8. Items(t) \subseteq Items(s)
  BY <1>4, <1>6 DEF Items
<1> QED
  BY <1>3, <1>6, <1>7, <1>8 DEF List
-------------------------------------------------------------------------------
(* The inductive invariant.                                                *)

Edit    == {"patch", "put", "add", "drop"}
Reading == {"lists", "resolve", "save"}

\* A field holds what the schemas let through.
FieldOK(f, v) ==
    /\ f \in {"from", "to"} => v \in Station
    /\ f = "boarding" => v \in Station \cup {NoStation}
    /\ f = "quota" => v \in Quota
    /\ f = "passengers" => v \in List(Passenger)
    /\ f = "trains" => v \in List(Train) /\ Len(v) <= MaxTrains
    /\ f = "classes" => v \in List(Class) /\ v # <<>>

Fields(c) == \A f \in DOMAIN c \cap Field : FieldOK(f, c[f])

\* A whole configuration.
Full(c) ==
    /\ c = [f \in Field |-> c[f]]
    /\ \A f \in Field : FieldOK(f, c[f])
    /\ RouteValid(c)

\* What a request asks for has been parsed.
BodyInv(p) ==
    pc[p] \notin {"idle", "done"} =>
        /\ verb[p] \in {"journey", "template"} => Full(body[p])
        /\ verb[p] \in {"patch", "put"} => Fields(body[p])
        /\ verb[p] = "put" => \E l \in ListName : DOMAIN body[p] = {l}
        /\ verb[p] \in {"add", "drop"} => OneItem(body[p])
        /\ verb[p] \in Edit \cup {"copy"} => rec[p] \in Record

\* What it has read so far is part of a whole configuration, has all it needs
\* when it decides, and is what an edit was found sensible for.
SeenInv(p) ==
    (pc[p] \in Reading /\ verb[p] \in Edit \cup {"copy"}) =>
        /\ seen[p] = [f \in DOMAIN seen[p] |-> seen[p][f]]
        /\ DOMAIN seen[p] \cup unread[p] = Place \cup {"quota"} \cup Needs(verb[p], body[p])
        /\ Place \cup {"quota"} \subseteq DOMAIN seen[p] /\ DOMAIN seen[p] \subseteq Field
        /\ \A f \in DOMAIN seen[p] : FieldOK(f, seen[p][f])
        /\ RouteValid(seen[p])
        /\ pc[p] \in {"resolve", "save"} => unread[p] = {} /\ Sensible(p)

RecordInv == \A r \in Record : status[r] # "absent" => Full(config[r])

Types ==
    /\ mix \in Mix
    /\ status \in [Record -> {"absent", "live", "deleted"}]
    /\ owner \in [Record -> User \cup {NoUser}]
    /\ saved \in [Passenger -> {"absent", "saved", "removed"}]
    /\ pc \in [Proc -> PC] /\ verb \in [Proc -> Verb]
    /\ user \in [Proc -> User \cup {NoUser}] /\ rec \in [Proc -> Record \cup {NoRecord}]
    /\ unread \in [Proc -> SUBSET ListName]
    /\ stale \in [Proc -> BOOLEAN] /\ gone \in [Proc -> SUBSET Passenger]
    /\ raced \subseteq Record
    /\ DOMAIN config = Record /\ DOMAIN body = Proc /\ DOMAIN seen = Proc

\* The record of a request that has begun to read it is the user's, and stays.
HeldInv ==
    \A p \in Proc : (pc[p] \in Reading /\ verb[p] \in Edit \cup {"copy"}) =>
        status[rec[p]] # "absent" /\ owner[rec[p]] = user[p]

IInv == Types /\ RecordInv /\ \A p \in Proc : BodyInv(p) /\ SeenInv(p)

LEMMA FullIsWellFormed == ASSUME NEW c, Full(c) PROVE WellFormed(c)
<1>1. DOMAIN c = {"from", "to", "boarding", "quota", "passengers", "trains", "classes"}
  BY DEF Full, Field, Place, ListName
<1>2. /\ c.from \in Station /\ c.to \in Station /\ c.boarding \in Station \cup {NoStation}
      /\ c.quota \in Quota /\ c.passengers \in List(Passenger)
      /\ c.trains \in List(Train) /\ Len(c.trains) <= MaxTrains
      /\ c.classes \in List(Class) /\ c.classes # <<>>
  BY DEF Full, FieldOK, Field, Place, ListName
<1>3. c \in Config
  BY <1>1, <1>2 DEF Full, Config, Field, Place, ListName
<1> QED
  BY <1>2, <1>3 DEF WellFormed, Full

\* The defaults make a whole configuration of what was sent.
LEMMA DefaultsAreFull ==
  ASSUME NEW b, Parses(b), {"from", "to"} \subseteq DOMAIN b
  PROVE  Full(WithDefaults(b))
<1> DEFINE c == WithDefaults(b)
<1>1. c = [f \in Field |-> c[f]]
  BY DEF WithDefaults, Field, Place, ListName
<1>2. c.from \in Station /\ c.to \in Station /\ c.from # c.to
  BY DEF WithDefaults, Parses, CheckRoute, Has
<1>3. /\ c.boarding \in Station \cup {NoStation}
      /\ c.boarding # c.from /\ c.boarding # c.to
  BY JourneyAssumption DEF WithDefaults, Parses, CheckRoute, Has, Sent, NormaliseBoarding
<1>4. c.quota \in Quota
  BY JourneyAssumption DEF WithDefaults, Parses, Has, Sent
<1>5. /\ c.passengers \in List(Passenger)
      /\ c.trains \in List(Train) /\ Len(c.trains) <= MaxTrains
  <2>1. \A S : <<>> \in List(S)
    BY DEF List
  <2>2. Len(<<>>) <= MaxTrains
    BY JourneyAssumption
  <2> QED
    BY <2>1, <2>2 DEF WithDefaults, Parses, Has, Sent
<1>6. c.classes \in List(Class) /\ c.classes # <<>>
  BY JourneyAssumption DEF WithDefaults, Parses, Has, Sent, List
<1>7. \A f \in Field : FieldOK(f, c[f])
  BY <1>2, <1>3, <1>4, <1>5, <1>6 DEF FieldOK, Field, Place, ListName
<1> QED
  BY <1>1, <1>2, <1>3, <1>7 DEF Full, RouteValid

\* A new record gets a whole configuration.
LEMMA PlannedIsFull ==
  ASSUME NEW p \in Proc, BodyInv(p), SeenInv(p), pc[p] = "save",
         verb[p] \in {"journey", "template", "copy"}
  PROVE  Full(Planned(p))
<1>1. CASE verb[p] \in {"journey", "template"}
  <2>1. Planned(p) = body[p]
    BY <1>1 DEF Planned
  <2> QED
    BY <1>1, <2>1 DEF BodyInv
<1>2. CASE verb[p] = "copy"
  <2>1. Planned(p) = seen[p]
    BY <1>2 DEF Planned
  <2>2. DOMAIN seen[p] = Field
    BY <1>2 DEF SeenInv, Reading, Needs, Field
  <2> QED
    BY <1>2, <2>1, <2>2 DEF SeenInv, Reading, Full
<1> QED
  BY <1>1, <1>2

\* What an edit writes has the type of its fields, and is the whole of a valid route
\* or nothing of it.
LEMMA PlannedIsSound ==
  ASSUME NEW p \in Proc, BodyInv(p), SeenInv(p), pc[p] = "save", verb[p] \in Edit
  PROVE  /\ \A f \in DOMAIN Planned(p) \cap Field : FieldOK(f, Planned(p)[f])
         /\ \/ Place \subseteq DOMAIN Planned(p) /\ RouteValid(Planned(p))
            \/ DOMAIN Planned(p) \cap Place = {}
<1>1. /\ Place \cup {"quota"} \subseteq DOMAIN seen[p]
      /\ \A f \in DOMAIN seen[p] : FieldOK(f, seen[p][f])
      /\ RouteValid(seen[p]) /\ Sensible(p)
  BY DEF SeenInv, Reading
<1>2. CASE verb[p] = "put"
  <2>1. Planned(p) = body[p]
    BY <1>2 DEF Planned
  <2>2. DOMAIN body[p] \cap Place = {}
    BY <1>2 DEF BodyInv, ListName, Place
  <2> QED
    BY <1>2, <2>1, <2>2 DEF BodyInv, Fields
<1>3. CASE verb[p] = "patch"
  <2> DEFINE b == body[p]
             c == seen[p]
             from == Sent(b, "from", c.from)
             D == Place \cup {"quota"} \cup DOMAIN b
             n == [f \in D |-> IF f = "boarding" THEN NormaliseBoarding(from, Sent(b, f, c[f]))
                               ELSE IF Has(b, f) THEN b[f] ELSE c[f]]
  <2>1. Planned(p) = n
    BY <1>3 DEF Planned
  <2>2. \A f \in Place \cup {"quota"} : FieldOK(f, Sent(b, f, c[f]))
    BY <1>1, <1>3 DEF BodyInv, Fields, Sent, Has, Field
  <2>3. /\ from \in Station /\ Sent(b, "to", c.to) \in Station
        /\ Sent(b, "boarding", c.boarding) \in Station \cup {NoStation}
    BY <2>2 DEF FieldOK, Place
  <2>4. /\ Sent(b, "to", c.to) # from
        /\ Sent(b, "to", c.to) # Sent(b, "boarding", c.boarding)
    BY <1>1, <1>3 DEF Sensible
  <2>5. /\ n.from = from /\ n.to = Sent(b, "to", c.to)
        /\ n.boarding = NormaliseBoarding(from, Sent(b, "boarding", c.boarding))
    BY DEF Place, Sent, Has
  <2>6. RouteValid(n)
    BY <2>3, <2>4, <2>5, JourneyAssumption DEF RouteValid, NormaliseBoarding
  <2>7. \A f \in D \cap Field : FieldOK(f, n[f])
    <3> SUFFICES ASSUME NEW f \in D \cap Field
                 PROVE  FieldOK(f, n[f])
      OBVIOUS
    <3>1. CASE f = "boarding"
      <4>1. n[f] \in Station \cup {NoStation}
        BY <2>3, <2>5, <3>1 DEF NormaliseBoarding
      <4> QED
        BY <3>1, <4>1 DEF FieldOK
    <3>2. CASE f # "boarding" /\ f \in Place \cup {"quota"}
      BY <2>2, <3>2 DEF Sent
    <3>3. CASE f \notin Place \cup {"quota"}
      <4>1. f \in DOMAIN b \cap Field /\ f # "boarding"
        BY <3>3 DEF Place
      <4>2. n[f] = b[f]
        BY <4>1 DEF Has
      <4> QED
        BY <1>3, <4>1, <4>2 DEF BodyInv, Fields
    <3> QED
      BY <3>1, <3>2, <3>3
  <2>8. DOMAIN n = D /\ Place \subseteq D
    OBVIOUS
  <2> HIDE DEF n, D
  <2> QED
    BY <2>1, <2>6, <2>7, <2>8
<1>4. CASE verb[p] \in {"add", "drop"}
  <2>1. PICK l \in ListName : DOMAIN body[p] = {l} /\ body[p][l][1] \in ListOf[l]
    <3>1. PICK l \in ListName : DOMAIN body[p] = {l} /\ \E y \in ListOf[l] : body[p][l] = <<y>>
      BY <1>4 DEF BodyInv, OneItem
    <3>2. body[p][l][1] \in ListOf[l]
      BY <3>1
    <3> QED
      BY <3>1, <3>2
  <2>2. l \in DOMAIN seen[p] /\ FieldOK(l, seen[p][l]) /\ seen[p][l] \in List(ListOf[l])
    <3>1. l \in DOMAIN seen[p]
      BY <1>4, <2>1 DEF SeenInv, Reading, Needs, Edit
    <3>2. FieldOK(l, seen[p][l])
      BY <1>1, <3>1
    <3> QED
      BY <3>1, <3>2 DEF FieldOK, ListOf, ListName
  <2> DEFINE s == seen[p][l]
             x == body[p][l][1]
  <2>3. DOMAIN Planned(p) = {l}
    BY <1>4, <2>1 DEF Planned
  <2>4. FieldOK(l, Planned(p)[l])
    <3>1. CASE verb[p] = "add"
      <4>1. Planned(p)[l] = Append(s, x)
        BY <2>1, <3>1 DEF Planned
      <4>2. x \notin Items(s) /\ (l = "trains" => Len(s) < MaxTrains)
        BY <1>1, <2>1, <3>1 DEF Sensible
      <4>3. /\ Append(s, x) \in List(ListOf[l]) /\ Len(Append(s, x)) = Len(s) + 1
        BY <2>1, <2>2, <4>2, AppendToList
      <4>4. Len(s) \in Nat /\ MaxTrains \in Nat
        BY <2>2, JourneyAssumption DEF List
      <4>5. Append(s, x) # <<>>
        <5>1. Len(Append(s, x)) # 0
          BY <4>3, <4>4
        <5> QED
          BY <5>1, EmptyLength
      <4> QED
        BY <2>2, <4>1, <4>2, <4>3, <4>4, <4>5 DEF FieldOK, ListOf, ListName
    <3>2. CASE verb[p] = "drop"
      <4>1. Planned(p)[l] = Without(s, x)
        BY <2>1, <3>2 DEF Planned
      <4>2. x \in Items(s) /\ (l = "classes" => Len(s) # 1)
        BY <1>1, <2>1, <3>2 DEF Sensible
      <4>3. Without(s, x) \in List(ListOf[l]) /\ Len(Without(s, x)) = Len(s) - 1
        BY <2>2, <4>2, DropFromList
      <4>4. Len(s) \in Nat /\ MaxTrains \in Nat
        BY <2>2, JourneyAssumption DEF List
      <4>5. l = "classes" => Len(Without(s, x)) # 0
        BY <4>2, <4>3, <4>4
      <4>6. l = "classes" => Without(s, x) # <<>>
        BY <4>5, EmptyLength
      <4> QED
        BY <2>2, <4>1, <4>3, <4>4, <4>6 DEF FieldOK, ListOf, ListName
    <3> QED
      BY <1>4, <3>1, <3>2
  <2> QED
    BY <2>3, <2>4 DEF ListName, Place
<1> QED
  BY <1>2, <1>3, <1>4 DEF Edit

\* An edit leaves a whole configuration whole.
LEMMA OverwriteIsFull ==
  ASSUME NEW p \in Proc, BodyInv(p), SeenInv(p), pc[p] = "save", verb[p] \in Edit,
         NEW c, Full(c)
  PROVE  Full(Overwrite(c, Planned(p)))
<1> DEFINE n == Planned(p)
           d == Overwrite(c, n)
<1>1. /\ \A f \in DOMAIN n \cap Field : FieldOK(f, n[f])
      /\ \/ Place \subseteq DOMAIN n /\ RouteValid(n)
         \/ DOMAIN n \cap Place = {}
  BY PlannedIsSound
<1> HIDE DEF n
<1>2. DOMAIN c = Field
  BY DEF Full
<1>3. \A f \in Field : d[f] = IF f \in DOMAIN n THEN n[f] ELSE c[f]
  BY <1>2 DEF Overwrite, Has
<1>4. d = [f \in Field |-> d[f]]
  BY <1>2 DEF Overwrite
<1>5. \A f \in Field : FieldOK(f, d[f])
  BY <1>1, <1>3 DEF Full
<1>6. Place \subseteq Field /\ Place = {"from", "to", "boarding"}
  BY DEF Field, Place
<1>7. RouteValid(d)
  BY <1>1, <1>3, <1>6 DEF Full, RouteValid
<1> QED
  BY <1>4, <1>5, <1>7 DEF Full, n

-------------------------------------------------------------------------------
(* Every step preserves it.                                                *)

\* A request that does not move keeps what it relies on; stale, gone and its user do
\* not matter.
LEMMA Still ==
  ASSUME NEW q \in Proc, BodyInv(q), SeenInv(q), pc'[q] = pc[q], verb'[q] = verb[q],
         rec'[q] = rec[q], body'[q] = body[q], seen'[q] = seen[q], unread'[q] = unread[q]
  PROVE  BodyInv(q)' /\ SeenInv(q)'
  BY DEF BodyInv, SeenInv, Sensible

\* One that only moves on keeps it too, if it was ready to.
LEMMA Moves ==
  ASSUME NEW q \in Proc, BodyInv(q), SeenInv(q), verb'[q] = verb[q],
         rec'[q] = rec[q], body'[q] = body[q], seen'[q] = seen[q], unread'[q] = unread[q],
         \/ pc'[q] \in {"idle", "done"}
         \/ /\ pc[q] \notin {"idle", "done"} /\ pc'[q] \in {"resolve", "save"}
            /\ verb[q] \in Edit \cup {"copy"} =>
                  pc[q] \in Reading /\ unread[q] = {} /\ Sensible(q)
  PROVE  BodyInv(q)' /\ SeenInv(q)'
<1>1. BodyInv(q)'
  BY DEF BodyInv
<1>2. Sensible(q)' <=> Sensible(q)
  BY DEF Sensible
<1>3. SeenInv(q)'
  BY <1>2 DEF SeenInv, Reading
<1> QED
  BY <1>1, <1>3

\* If nothing but requests moves, records stay as they are.
LEMMA RecordsStay ==
  ASSUME RecordInv, UNCHANGED config,
         \A r \in Record : status[r] = "absent" => status'[r] = "absent"
  PROVE  RecordInv'
  BY DEF RecordInv

\* A request arrives.
LEMMA AskStep ==
  ASSUME IInv, NEW p \in Proc, NEW v \in Verb, NEW u \in User, NEW r \in Record \cup {NoRecord},
         NEW b, NEW l \in {"count", "load", "resolve"}, Ask(p, v, u, r, b, l),
         v \in {"journey", "template"} => Full(b),
         v \in {"patch", "put"} => Fields(b),
         v = "put" => \E n \in ListName : DOMAIN b = {n},
         v \in {"add", "drop"} => OneItem(b),
         v \in Edit \cup {"copy"} => r \in Record,
         l = "resolve" => v = "journey"
  PROVE  IInv'
<1> USE DEF IInv, table
<1>1. Types'
  BY DEF Ask, Goto, Types, PC
<1>2. RecordInv'
  BY DEF Ask, RecordInv
<1>3. \A q \in Proc \ {p} : BodyInv(q)' /\ SeenInv(q)'
  BY Still DEF Ask, Goto, Types
<1>4. pc'[p] = l /\ verb'[p] = v /\ body'[p] = b /\ rec'[p] = r
  BY DEF Ask, Goto, Types
<1>5. BodyInv(p)' /\ SeenInv(p)'
  BY <1>4 DEF BodyInv, SeenInv, Reading, Edit
<1> QED
  BY <1>1, <1>2, <1>3, <1>5

LEMMA InitIInv == Init => IInv
  BY DEF Init, IInv, Types, RecordInv, BodyInv, SeenInv, PC, Verb, Reading

LEMMA ArriveIInv ==
  ASSUME IInv, NEW p \in Proc, NEW u \in User, Arrive(p, u)
  PROVE  IInv'
<1>1. CASE PostPassenger(p, u)
  BY <1>1, AskStep DEF PostPassenger, Verb, Edit
<1>2. ASSUME NEW b, PostJourney(p, u, b)
      PROVE  IInv'
  <2>1. Full(WithDefaults(b))
    BY <1>2, DefaultsAreFull DEF PostJourney
  <2> QED
    BY <1>2, <2>1, AskStep DEF PostJourney, Verb, Edit
<1>3. ASSUME NEW b, PostTemplate(p, u, b)
      PROVE  IInv'
  <2>1. Full(WithDefaults(b))
    BY <1>3, DefaultsAreFull DEF PostTemplate
  <2> QED
    BY <1>3, <2>1, AskStep DEF PostTemplate, Verb, Edit
<1>4. \A b : Parses(b) => Fields(b)
  BY DEF Parses, Fields, FieldOK, Has
<1>5. ASSUME NEW b, NEW r \in Record, PatchJourney(p, u, r, b) \/ PatchTemplate(p, u, r, b)
      PROVE  IInv'
  BY <1>4, <1>5, AskStep DEF PatchJourney, PatchTemplate, Verb
<1>6. ASSUME NEW b, NEW r \in Record, PutList(p, u, r, b)
      PROVE  IInv'
  BY <1>4, <1>6, AskStep DEF PutList, Verb
<1>7. ASSUME NEW b, NEW r \in Record, AddItem(p, u, r, b) \/ DropItem(p, u, r, b)
      PROVE  IInv'
  BY <1>7, AskStep DEF AddItem, DropItem, Verb
<1>8. ASSUME NEW r \in Record, Duplicate(p, u, r) \/ FromTemplate(p, u, r)
      PROVE  IInv'
  BY <1>8, AskStep DEF Duplicate, FromTemplate, Verb
<1> QED
  BY <1>1, <1>2, <1>3, <1>5, <1>6, <1>7, <1>8 DEF Arrive

LEMMA StepIInv ==
  ASSUME IInv, HeldInv, NEW p \in Proc, Step(p)
  PROVE  IInv'
<1> USE DEF IInv, table, local
<1>1. CASE Load(p)
  <2>1. Needs(verb[p], body[p]) \subseteq ListName
    BY <1>1 DEF Load, BodyInv, OneItem, Needs, ListName
  <2>2. Types' /\ RecordInv'
    BY <1>1, <2>1 DEF Load, Goto, Types, PC, RecordInv
  <2>3. \A q \in Proc \ {p} : BodyInv(q)' /\ SeenInv(q)'
    BY <1>1, Still DEF Load, Goto, Types
  <2>4. BodyInv(p)'
    BY <1>1 DEF Load, Goto, Types, BodyInv
  <2>5. CASE Visible(rec[p], user[p]) /\ pc'[p] = "lists" /\ verb[p] \in Edit \cup {"copy"}
    <3>1. Full(config[rec[p]])
      BY <1>1, <2>5 DEF Load, BodyInv, RecordInv, Visible
    <3>2. /\ seen'[p] = [f \in Place \cup {"quota"} |-> config[rec[p]][f]]
          /\ unread'[p] = Needs(verb[p], body[p])
      BY <1>1, <2>5 DEF Load, Goto, Types
    <3>3. \A f \in Place \cup {"quota"} : f \in Field /\ seen'[p][f] = config[rec[p]][f]
      BY <3>2 DEF Field
    <3>4. RouteValid(seen'[p])
      BY <3>1, <3>3 DEF Full, RouteValid, Place
    <3>5. UNCHANGED <<verb, body>>
      BY <1>1 DEF Load
    <3>6. /\ DOMAIN seen'[p] = Place \cup {"quota"}
          /\ seen'[p] = [f \in DOMAIN seen'[p] |-> seen'[p][f]]
      BY <3>2
    <3>7. \A f \in DOMAIN seen'[p] : FieldOK(f, seen'[p][f])
      BY <3>1, <3>3, <3>6 DEF Full
    <3>8. Place \cup {"quota"} \subseteq Field
      BY DEF Field
    <3>9. SeenInv(p)'
      BY <2>5, <3>2, <3>4, <3>5, <3>6, <3>7, <3>8 DEF SeenInv
    <3> QED
      BY <2>2, <2>3, <2>4, <3>9
  <2>6. CASE ~(Visible(rec[p], user[p]) /\ pc'[p] = "lists" /\ verb[p] \in Edit \cup {"copy"})
    <3>1. SeenInv(p)'
      BY <1>1, <2>6 DEF Load, Goto, Types, SeenInv, Reading
    <3> QED
      BY <2>2, <2>3, <2>4, <3>1
  <2> QED
    BY <2>5, <2>6
<1>2. ASSUME NEW l \in ListName, ReadList(p, l)
      PROVE  IInv'
  <2>1. UNCHANGED <<mix, table, saved, pc, verb, user, rec, body, stale, gone, raced>>
    BY <1>2 DEF ReadList
  <2>2. Types' /\ RecordInv'
    BY <1>2 DEF ReadList, Types, RecordInv
  <2>3. \A q \in Proc \ {p} : BodyInv(q)' /\ SeenInv(q)'
    BY <1>2, Still DEF ReadList, Types
  <2>4. BodyInv(p)'
    BY <2>1 DEF BodyInv
  <2>5. CASE verb[p] \in Edit \cup {"copy"}
    <3> DEFINE c == config[rec[p]]
    <3>1. Full(c)
      BY <1>2, <2>5 DEF ReadList, BodyInv, RecordInv, HeldInv, Reading
    <3>2. l \in unread[p] /\ l \in Field /\ l \notin Place \cup {"quota"}
      BY <1>2 DEF ReadList, Field, ListName, Place
    <3>3. PICK s : FieldOK(l, s) /\ seen' = [seen EXCEPT ![p] = Extend(@, l, s)]
      <4>1. CASE seen' = [seen EXCEPT ![p] = Extend(@, l, c[l])]
        BY <3>1, <3>2, <4>1 DEF Full
      <4>2. CASE l = "passengers" /\ \E t \in List(Passenger) :
                    seen' = [seen EXCEPT ![p] = Extend(@, l, t)]
        BY <4>2 DEF FieldOK
      <4> QED
        BY <1>2, <4>1, <4>2 DEF ReadList
    <3>4. /\ DOMAIN seen'[p] = DOMAIN seen[p] \cup {l}
          /\ seen'[p] = [f \in DOMAIN seen'[p] |-> seen'[p][f]]
          /\ seen'[p][l] = s
          /\ \A f \in DOMAIN seen[p] \ {l} : seen'[p][f] = seen[p][f]
      BY <3>3 DEF Types, Extend
    <3>5. unread'[p] = unread[p] \ {l} /\ pc[p] = "lists"
      BY <1>2 DEF ReadList, Types
    <3>6. /\ DOMAIN seen[p] \cup unread[p] = Place \cup {"quota"} \cup Needs(verb[p], body[p])
          /\ Place \cup {"quota"} \subseteq DOMAIN seen[p] /\ DOMAIN seen[p] \subseteq Field
          /\ \A f \in DOMAIN seen[p] : FieldOK(f, seen[p][f])
          /\ RouteValid(seen[p])
      BY <2>5, <3>5 DEF SeenInv, Reading
    <3>7. RouteValid(seen'[p])
      BY <3>2, <3>4, <3>6 DEF RouteValid, Place
    <3>8. \A f \in DOMAIN seen'[p] : FieldOK(f, seen'[p][f])
      BY <3>3, <3>4, <3>6
    <3>9. SeenInv(p)'
      BY <2>1, <3>2, <3>4, <3>5, <3>6, <3>7, <3>8 DEF SeenInv
    <3> QED
      BY <2>2, <2>3, <2>4, <3>9
  <2>6. CASE verb[p] \notin Edit \cup {"copy"}
    <3>1. SeenInv(p)'
      BY <2>1, <2>6 DEF SeenInv
    <3> QED
      BY <2>2, <2>3, <2>4, <3>1
  <2> QED
    BY <2>5, <2>6
<1>3. CASE Decide(p)
  <2>1. Types' /\ RecordInv'
    BY <1>3 DEF Decide, Goto, Types, PC, RecordInv
  <2>2. \A q \in Proc \ {p} : BodyInv(q)' /\ SeenInv(q)'
    BY <1>3, Still DEF Decide, Goto, Types
  <2>3. BodyInv(p)' /\ SeenInv(p)'
    BY <1>3, Moves DEF Decide, Goto, Types, Reading
  <2> QED
    BY <2>1, <2>2, <2>3
<1>4. CASE Resolve(p) \/ Count(p) \/ Fail(p)
  <2>1. Types' /\ RecordInv'
    BY <1>4 DEF Resolve, Count, Fail, Goto, Types, PC, RecordInv
  <2>2. \A q \in Proc \ {p} : BodyInv(q)' /\ SeenInv(q)'
    BY <1>4, Still DEF Resolve, Count, Fail, Goto, Types
  <2>3. CASE Resolve(p)
    <3>1. verb[p] \in Edit \cup {"copy"} => unread[p] = {} /\ Sensible(p)
      BY <2>3 DEF SeenInv, Reading, Resolve
    <3>2. BodyInv(p)' /\ SeenInv(p)'
      BY <2>3, <3>1, Moves DEF Resolve, Goto, Types, Reading
    <3> QED
      BY <2>1, <2>2, <3>2
  <2>4. CASE Count(p) \/ Fail(p)
    <3>1. BodyInv(p)' /\ SeenInv(p)'
      BY <2>4, Moves DEF Count, Fail, Goto, Types, Edit
    <3> QED
      BY <2>1, <2>2, <3>1
  <2> QED
    BY <1>4, <2>3, <2>4
<1>5. ASSUME NEW r \in Record, Insert(p, r)
      PROVE  IInv'
  <2>1. Types'
    BY <1>5 DEF Insert, Goto, Types, PC
  <2>2. RecordInv'
    <3>1. Full(Planned(p))
      BY <1>5, PlannedIsFull DEF Insert
    <3> QED
      BY <1>5, <3>1 DEF Insert, RecordInv, Types
  <2>3. \A q \in Proc \ {p} : BodyInv(q)' /\ SeenInv(q)'
    BY <1>5, Still DEF Insert, Goto, Types
  <2>4. BodyInv(p)' /\ SeenInv(p)'
    BY <1>5, Moves DEF Insert, Goto, Types
  <2> QED
    BY <2>1, <2>2, <2>3, <2>4
<1>6. CASE Update(p)
  <2>0. rec[p] \in Record
    BY <1>6 DEF Update, BodyInv, Edit
  <2>1. Types'
    <3>1. raced' \subseteq Record
      BY <1>6, <2>0 DEF Update, Types
    <3>2. stale' \in [Proc -> BOOLEAN]
      BY <1>6 DEF Update, Types, Outdates
    <3>3. DOMAIN config' = Record
      BY <1>6 DEF Update, Types
    <3> QED
      BY <1>6, <3>1, <3>2, <3>3 DEF Update, Goto, Types, PC
  <2>2. RecordInv'
    <3>1. CASE UNCHANGED config
      BY <1>6, <3>1 DEF Update, RecordInv
    <3>2. CASE /\ Visible(rec[p], user[p])
               /\ config' = [config EXCEPT ![rec[p]] = Overwrite(@, Planned(p))]
      <4>1. rec[p] \in Record /\ Full(config[rec[p]])
        BY <2>0, <3>2 DEF Visible, RecordInv
      <4>2. Full(Overwrite(config[rec[p]], Planned(p)))
        BY <1>6, <4>1, OverwriteIsFull DEF Update, Edit
      <4> QED
        BY <1>6, <3>2, <4>1, <4>2 DEF Update, RecordInv, Types
    <3> QED
      BY <1>6, <3>1, <3>2 DEF Update
  <2>3. \A q \in Proc \ {p} : BodyInv(q)' /\ SeenInv(q)'
    BY <1>6, Still DEF Update, Goto, Types
  <2>4. BodyInv(p)' /\ SeenInv(p)'
    BY <1>6, Moves DEF Update, Goto, Types
  <2> QED
    BY <2>1, <2>2, <2>3, <2>4
<1>7. ASSUME NEW x \in Passenger, SavePassenger(p, x)
      PROVE  IInv'
  <2>1. Types' /\ RecordInv'
    BY <1>7 DEF SavePassenger, Goto, Types, PC, RecordInv
  <2>2. \A q \in Proc \ {p} : BodyInv(q)' /\ SeenInv(q)'
    BY <1>7, Still DEF SavePassenger, Goto, Types
  <2>3. BodyInv(p)' /\ SeenInv(p)'
    BY <1>7, Moves DEF SavePassenger, Goto, Types
  <2> QED
    BY <2>1, <2>2, <2>3
<1>8. CASE Return(p)
  <2>1. Types' /\ RecordInv'
    BY <1>8 DEF Return, Goto, Types, PC, Verb, RecordInv
  <2>2. \A q \in Proc \ {p} : BodyInv(q)' /\ SeenInv(q)'
    BY <1>8, Still DEF Return, Goto, Types
  <2>3. pc'[p] = "idle"
    BY <1>8 DEF Return, Goto, Types
  <2> QED
    BY <2>1, <2>2, <2>3 DEF BodyInv, SeenInv, Reading
<1> QED
  BY <1>1, <1>2, <1>3, <1>4, <1>5, <1>6, <1>7, <1>8 DEF Step

LEMMA NextIInv == IInv /\ HeldInv /\ [Next]_vars => IInv'
<1> SUFFICES ASSUME IInv, HeldInv, [Next]_vars
             PROVE  IInv'
  OBVIOUS
<1> USE DEF table, local
<1>0. mix.users \subseteq User
  BY JourneyAssumption DEF IInv, Types
<1>1. ASSUME NEW p \in Proc, Step(p) \/ \E u \in mix.users : Arrive(p, u)
      PROVE  IInv'
  BY <1>0, <1>1, StepIInv, ArriveIInv
<1>2. ASSUME NEW u \in mix.users, NEW r \in Record, DeleteJourney(u, r) \/ DeleteTemplate(u, r)
      PROVE  IInv'
  <2>1. Delete(u, r)
    BY <1>2 DEF DeleteJourney, DeleteTemplate
  <2>2. Types'
    <3>1. stale' \in [Proc -> BOOLEAN]
      BY <2>1 DEF Delete
    <3> QED
      BY <2>1, <3>1 DEF Delete, Types, IInv
  <2>3. RecordInv'
    BY <2>1 DEF Delete, RecordInv, Types, IInv, Visible
  <2>4. \A q \in Proc : BodyInv(q)' /\ SeenInv(q)'
    BY <2>1, Still DEF Delete, IInv
  <2> QED
    BY <2>2, <2>3, <2>4 DEF IInv
<1>3. ASSUME NEW x \in Passenger, RemovePassenger(x)
      PROVE  IInv'
  <2>1. Types' /\ RecordInv'
    BY <1>3 DEF RemovePassenger, Types, RecordInv, IInv
  <2>2. \A q \in Proc : BodyInv(q)' /\ SeenInv(q)'
    BY <1>3, Still DEF RemovePassenger, IInv
  <2> QED
    BY <2>1, <2>2 DEF IInv
<1>4. CASE UNCHANGED vars
  <2>1. Types' /\ RecordInv'
    BY <1>4 DEF vars, Types, RecordInv, IInv
  <2>2. \A q \in Proc : BodyInv(q)' /\ SeenInv(q)'
    BY <1>4, Still DEF vars, IInv
  <2> QED
    BY <2>1, <2>2 DEF IInv
<1> QED
  BY <1>1, <1>2, <1>3, <1>4 DEF Next

-------------------------------------------------------------------------------
(* Records are held by their owners.                                       *)

\* A record does not disappear, and never changes hands.
Kept == \A r \in Record : status[r] # "absent" =>
            /\ status'[r] # "absent" /\ owner'[r] = owner[r]
            /\ status[r] = "deleted" => status'[r] = "deleted"

\* The steps that leave all records alone, and the three that do not.
LEMMA RecordSteps ==
  ASSUME [Next]_vars
  PROVE  \/ UNCHANGED table
         \/ \E p \in Proc, r \in Record : Insert(p, r)
         \/ \E p \in Proc : Update(p)
         \/ \E u \in mix.users, r \in Record : Delete(u, r)
<1>1. ASSUME NEW p \in Proc, Step(p)
      PROVE  UNCHANGED table \/ (\E r \in Record : Insert(p, r)) \/ Update(p)
  BY <1>1 DEF Step, Load, ReadList, Decide, Resolve, Count, SavePassenger, Fail, Return
<1>2. ASSUME NEW p \in Proc, NEW u, Arrive(p, u)
      PROVE  UNCHANGED table
  BY <1>2 DEF Arrive, Ask, PostJourney, PostTemplate, PostPassenger, PatchJourney,
     PatchTemplate, PutList, AddItem, DropItem, Duplicate, FromTemplate
<1> QED
  BY <1>1, <1>2 DEF Next, DeleteJourney, DeleteTemplate, RemovePassenger, vars

LEMMA NextKept == Types /\ [Next]_vars => Kept
<1> SUFFICES ASSUME Types, [Next]_vars
             PROVE  Kept
  OBVIOUS
<1>1. CASE UNCHANGED table
  BY <1>1 DEF table, Kept
<1>2. ASSUME NEW p \in Proc, NEW r \in Record, Insert(p, r)
      PROVE  Kept
  BY <1>2 DEF Insert, Types, Kept
<1>3. ASSUME NEW p \in Proc, Update(p)
      PROVE  Kept
  BY <1>3 DEF Update, Kept
<1>4. ASSUME NEW u, NEW r \in Record, Delete(u, r)
      PROVE  Kept
  BY <1>4 DEF Delete, Visible, Types, Kept
<1> QED
  BY <1>1, <1>2, <1>3, <1>4, RecordSteps

LEMMA NextHeld == IInv /\ HeldInv /\ [Next]_vars => HeldInv'
<1> SUFFICES ASSUME IInv, HeldInv, [Next]_vars, NEW q \in Proc,
                    pc'[q] \in Reading, verb'[q] \in Edit \cup {"copy"}
             PROVE  status'[rec'[q]] # "absent" /\ owner'[rec'[q]] = user'[q]
  BY DEF HeldInv
<1> USE DEF table, local
<1>1. Kept
  BY NextKept DEF IInv
<1>2. ASSUME pc[q] \in Reading, verb'[q] = verb[q], rec'[q] = rec[q], user'[q] = user[q]
      PROVE  status'[rec'[q]] # "absent" /\ owner'[rec'[q]] = user'[q]
  <2>1. rec[q] \in Record /\ status[rec[q]] # "absent" /\ owner[rec[q]] = user[q]
    BY <1>2 DEF HeldInv, IInv, BodyInv, Reading
  <2> QED
    BY <1>1, <1>2, <2>1 DEF Kept
<1>3. ASSUME NEW p \in Proc, Load(p)
      PROVE  status'[rec'[q]] # "absent" /\ owner'[rec'[q]] = user'[q]
  <2>1. CASE p = q
    BY <1>3, <2>1 DEF Load, Goto, IInv, Types, Visible, Reading
  <2>2. CASE p # q
    BY <1>2, <1>3, <2>2 DEF Load, Goto, IInv, Types
  <2> QED
    BY <2>1, <2>2
<1>4. ASSUME NEW p \in Proc, NEW v, NEW u, NEW r, NEW b, NEW l \in {"count", "load", "resolve"},
             Ask(p, v, u, r, b, l), l = "resolve" => v = "journey"
      PROVE  status'[rec'[q]] # "absent" /\ owner'[rec'[q]] = user'[q]
  <2>1. p # q
    BY <1>4 DEF Ask, Goto, IInv, Types, Reading, Edit
  <2> QED
    BY <1>2, <1>4, <2>1 DEF Ask, Goto, IInv, Types
<1>5. ASSUME NEW p \in Proc, NEW u, Arrive(p, u)
      PROVE  status'[rec'[q]] # "absent" /\ owner'[rec'[q]] = user'[q]
  BY <1>4, <1>5 DEF Arrive, PostJourney, PostTemplate, PostPassenger, PatchJourney,
     PatchTemplate, PutList, AddItem, DropItem, Duplicate, FromTemplate
<1>6. ASSUME NEW p \in Proc,
             \/ \E l \in ListName : ReadList(p, l)
             \/ Decide(p) \/ Resolve(p) \/ Count(p) \/ (\E r \in Record : Insert(p, r))
             \/ Update(p) \/ (\E x \in Passenger : SavePassenger(p, x)) \/ Fail(p)
      PROVE  status'[rec'[q]] # "absent" /\ owner'[rec'[q]] = user'[q]
  <2>1. UNCHANGED <<verb, rec, user>>
    BY <1>6 DEF ReadList, Decide, Resolve, Count, Insert, Update, SavePassenger, Fail
  <2>2. pc[q] \in Reading
    BY <1>6, <2>1 DEF ReadList, Decide, Resolve, Count, Insert, Update, SavePassenger, Fail,
       Goto, IInv, Types, Reading, Edit
  <2> QED
    BY <1>2, <2>1, <2>2
<1>7. ASSUME NEW p \in Proc, Return(p)
      PROVE  status'[rec'[q]] # "absent" /\ owner'[rec'[q]] = user'[q]
  <2>1. p # q
    BY <1>7 DEF Return, Goto, IInv, Types, Reading
  <2> QED
    BY <1>2, <1>7, <2>1 DEF Return, Goto, IInv, Types
<1>8. CASE UNCHANGED <<pc, verb, rec, user>>
  BY <1>2, <1>8
<1> QED
  BY <1>3, <1>5, <1>6, <1>7, <1>8
  DEF Next, Step, DeleteJourney, DeleteTemplate, Delete, RemovePassenger, vars

\* The invariant, from the initial state on.
THEOREM Invariance == Spec => [](IInv /\ HeldInv)
<1>1. Init => HeldInv
  BY DEF Init, HeldInv, Reading
<1> QED
  BY <1>1, InitIInv, NextIInv, NextHeld, PTL DEF Spec

\* Whatever edits race, every journey and template can be booked from.
THEOREM AlwaysWellFormed == Spec => []RecordsWellFormed
<1>1. IInv => RecordsWellFormed
  BY FullIsWellFormed DEF IInv, RecordInv, RecordsWellFormed
<1> QED
  BY <1>1, Invariance, PTL

\* The state always has its type.
THEOREM TypeCorrect == Spec => []TypeOK
<1>1. IInv => TypeOK
  BY FullIsWellFormed DEF IInv, Types, RecordInv, TypeOK, WellFormed
<1> QED
  BY <1>1, Invariance, PTL

\* A deleted record is final, and only its owner's requests change a record.
THEOREM OnlyOwnersWrite == Spec => OwnersOnly
<1>1. Types /\ [Next]_vars => [OthersUntouched]_vars
  <2> SUFFICES ASSUME Types, [Next]_vars
               PROVE  OthersUntouched
    OBVIOUS
  <2>1. CASE UNCHANGED table
    BY <2>1 DEF table, OthersUntouched
  <2>2. ASSUME NEW p \in Proc, NEW r \in Record, Insert(p, r)
        PROVE  OthersUntouched
    BY <2>2 DEF Insert, Types, OthersUntouched
  <2>3. ASSUME NEW p \in Proc, Update(p)
        PROVE  OthersUntouched
    BY <2>3 DEF Update, Visible, Types, OthersUntouched
  <2>4. ASSUME NEW u, NEW r \in Record, Delete(u, r)
        PROVE  OthersUntouched
    BY <2>4 DEF Delete, Visible, Types, OthersUntouched
  <2> QED
    BY <2>1, <2>2, <2>3, <2>4, RecordSteps
<1> QED
  BY <1>1, Invariance, PTL DEF Spec, OwnersOnly, IInv

-------------------------------------------------------------------------------
(* Whose passengers records name.                                          *)

\* Passengers that request p may put into a record: its user's, and none that had
\* been removed when it came.
Fit(p, s) == \A x \in Items(s) : OwnerOf[x] = user[p]
New(p, s) == Items(s) \cap gone[p] = {}

PassengerInv ==
    \A p \in Proc :
        /\ pc[p] # "idle" => \A x \in gone[p] : saved[x] = "removed"
        /\ (pc[p] \in Reading /\ verb[p] \in Edit \cup {"copy"} /\ Has(seen[p], "passengers"))
              => /\ Fit(p, seen[p].passengers)
                 /\ verb[p] = "copy" => New(p, seen[p].passengers)
        /\ (/\ pc[p] = "save" /\ verb[p] \in {"journey", "template", "patch", "put", "add"}
            /\ Has(body[p], "passengers"))
              => Fit(p, body[p].passengers) /\ New(p, body[p].passengers)

\* What is written names nobody else's passengers, and a new record nobody removed.
LEMMA PlannedPassengers ==
  ASSUME IInv, PassengerInv, NEW p \in Proc, pc[p] = "save",
         verb[p] \in Edit \cup {"journey", "template", "copy"},
         Has(Planned(p), "passengers")
  PROVE  /\ Fit(p, Planned(p).passengers)
         /\ verb[p] \in {"journey", "template", "copy"} => New(p, Planned(p).passengers)
<1>1. CASE verb[p] \in {"journey", "template", "put"}
  BY <1>1 DEF Planned, PassengerInv
<1>2. CASE verb[p] = "copy"
  BY <1>2 DEF Planned, PassengerInv, Reading
<1>3. CASE verb[p] = "patch"
  <2>1. Has(body[p], "passengers") /\ Planned(p).passengers = body[p].passengers
    BY <1>3 DEF Planned, Has, Place
  <2> QED
    BY <1>3, <2>1 DEF PassengerInv
<1>4. CASE verb[p] \in {"add", "drop"}
  <2>1. DOMAIN body[p] = {"passengers"} /\ OneItem(body[p])
    BY <1>4 DEF Planned, Has, IInv, BodyInv, OneItem
  <2> DEFINE s == seen[p].passengers
             x == body[p].passengers[1]
  <2>2. Has(seen[p], "passengers") /\ s \in List(Passenger) /\ Sensible(p)
    BY <1>4, <2>1 DEF IInv, SeenInv, Reading, Needs, Edit, FieldOK, Has
  <2>3. Fit(p, s)
    BY <1>4, <2>2 DEF PassengerInv, Reading, Edit
  <2>4. Len(body[p].passengers) = 1 /\ x \in Passenger
    BY <2>1 DEF OneItem, ListOf
  <2>5. CASE verb[p] = "add"
    <3>1. Planned(p).passengers = Append(s, x) /\ x \notin Items(s)
      BY <2>1, <2>2, <2>5 DEF Planned, Sensible
    <3>2. Items(Append(s, x)) = Items(s) \cup {x}
      BY <2>2, <2>4, <3>1, AppendToList
    <3>3. OwnerOf[x] = user[p]
      BY <2>1, <2>4, <2>5 DEF PassengerInv, Fit, Items, Has
    <3> QED
      BY <2>3, <2>5, <3>1, <3>2, <3>3 DEF Fit
  <2>6. CASE verb[p] = "drop"
    <3>1. Planned(p).passengers = Without(s, x) /\ x \in Items(s)
      BY <2>1, <2>2, <2>6 DEF Planned, Sensible
    <3>2. Items(Without(s, x)) \subseteq Items(s)
      BY <2>2, <3>1, DropFromList
    <3> QED
      BY <2>3, <2>6, <3>1, <3>2 DEF Fit
  <2> QED
    BY <1>4, <2>5, <2>6
<1> QED
  BY <1>1, <1>2, <1>3, <1>4 DEF Edit

LEMMA NextOwned ==
  IInv /\ HeldInv /\ PassengerInv /\ PassengersOwned /\ [Next]_vars => PassengersOwned'
<1> SUFFICES ASSUME IInv, HeldInv, PassengerInv, PassengersOwned, [Next]_vars
             PROVE  PassengersOwned'
  OBVIOUS
<1>1. CASE UNCHANGED table
  BY <1>1 DEF table, PassengersOwned
<1>2. ASSUME NEW p \in Proc, NEW r \in Record, Insert(p, r)
      PROVE  PassengersOwned'
  <2>1. Full(Planned(p))
    BY <1>2, PlannedIsFull DEF Insert, IInv
  <2>2. Has(Planned(p), "passengers")
    BY <2>1 DEF Full, Has, Field, ListName
  <2>3. Fit(p, Planned(p).passengers)
    BY <1>2, <2>2, PlannedPassengers DEF Insert
  <2> QED
    BY <1>2, <2>3 DEF Insert, PassengersOwned, Fit, IInv, Types
<1>3. ASSUME NEW p \in Proc, Update(p)
      PROVE  PassengersOwned'
  <2>1. CASE UNCHANGED config
    BY <1>3, <2>1 DEF Update, PassengersOwned
  <2>2. CASE /\ Visible(rec[p], user[p])
             /\ config' = [config EXCEPT ![rec[p]] = Overwrite(@, Planned(p))]
    <3>1. rec[p] \in Record /\ Full(config[rec[p]])
      BY <1>3, <2>2 DEF Update, Visible, IInv, BodyInv, RecordInv, Edit
    <3>2. Overwrite(config[rec[p]], Planned(p)).passengers
            = IF Has(Planned(p), "passengers") THEN Planned(p).passengers
              ELSE config[rec[p]].passengers
      BY <3>1 DEF Overwrite, Full, Field, ListName
    <3>3. Has(Planned(p), "passengers") => Fit(p, Planned(p).passengers)
      BY <1>3, PlannedPassengers DEF Update, Edit
    <3>4. \A x \in Items(config'[rec[p]].passengers) : OwnerOf[x] = owner[rec[p]]
      BY <2>2, <3>1, <3>2, <3>3 DEF Fit, Visible, PassengersOwned, IInv, Types
    <3> QED
      BY <1>3, <2>2, <3>4 DEF Update, PassengersOwned, IInv, Types
  <2> QED
    BY <1>3, <2>1, <2>2 DEF Update
<1>4. ASSUME NEW u, NEW r \in Record, Delete(u, r)
      PROVE  PassengersOwned'
  BY <1>4 DEF Delete, Visible, PassengersOwned, IInv, Types
<1> QED
  BY <1>1, <1>2, <1>3, <1>4, RecordSteps

\* The part of the invariant that speaks of one request.
PassengerInvOf(p) ==
    /\ pc[p] # "idle" => \A x \in gone[p] : saved[x] = "removed"
    /\ (pc[p] \in Reading /\ verb[p] \in Edit \cup {"copy"} /\ Has(seen[p], "passengers"))
          => /\ Fit(p, seen[p].passengers)
             /\ verb[p] = "copy" => New(p, seen[p].passengers)
    /\ (/\ pc[p] = "save" /\ verb[p] \in {"journey", "template", "patch", "put", "add"}
        /\ Has(body[p], "passengers"))
          => Fit(p, body[p].passengers) /\ New(p, body[p].passengers)

\* A passenger that has been removed stays so.
LEMMA RemovedForGood ==
  ASSUME Types, [Next]_vars
  PROVE  \A x \in Passenger : saved[x] = "removed" => saved'[x] = "removed"
<1> SUFFICES ASSUME NEW x \in Passenger, saved[x] = "removed"
             PROVE  saved'[x] = "removed"
  OBVIOUS
<1>1. ASSUME NEW p \in Proc, NEW u, Arrive(p, u)
      PROVE  saved'[x] = "removed"
  BY <1>1 DEF Arrive, Ask, PostJourney, PostTemplate, PostPassenger, PatchJourney,
     PatchTemplate, PutList, AddItem, DropItem, Duplicate, FromTemplate
<1>2. ASSUME NEW p \in Proc, Step(p)
      PROVE  saved'[x] = "removed"
  BY <1>2 DEF Step, Load, ReadList, Decide, Resolve, Count, Insert, Update, SavePassenger,
     Fail, Return, Types
<1> QED
  BY <1>1, <1>2
  DEF Next, DeleteJourney, DeleteTemplate, Delete, RemovePassenger, vars, Types

LEMMA NextPassengers ==
  IInv /\ HeldInv /\ PassengerInv /\ PassengersOwned /\ [Next]_vars => PassengerInv'
<1> SUFFICES ASSUME IInv, HeldInv, PassengerInv, PassengersOwned, [Next]_vars, NEW q \in Proc
             PROVE  PassengerInvOf(q)'
  BY DEF PassengerInv, PassengerInvOf
<1> USE DEF table, local
<1>0. PassengerInvOf(q) /\ Types
  BY DEF PassengerInv, PassengerInvOf, IInv
<1>1. \A x \in Passenger : saved[x] = "removed" => saved'[x] = "removed"
  BY <1>0, RemovedForGood
<1>2. ASSUME pc'[q] = pc[q], verb'[q] = verb[q], body'[q] = body[q], seen'[q] = seen[q],
             user'[q] = user[q], gone'[q] = gone[q]
      PROVE  PassengerInvOf(q)'
  BY <1>0, <1>1, <1>2 DEF PassengerInvOf, Fit, New, Types
<1>3. ASSUME verb'[q] = verb[q], body'[q] = body[q], seen'[q] = seen[q],
             user'[q] = user[q], gone'[q] = gone[q], pc[q] # "idle",
             pc'[q] \in Reading => verb[q] \in {"journey", "template", "passenger"} \/ pc[q] \in Reading,
             pc'[q] = "save" => \/ verb[q] \in {"copy", "drop", "passenger"}
                                \/ ~Has(body[q], "passengers")
                                \/ Fit(q, body[q].passengers) /\ New(q, body[q].passengers)
      PROVE  PassengerInvOf(q)'
  BY <1>0, <1>1, <1>3 DEF PassengerInvOf, Fit, New, Types, Edit
<1>4. ASSUME NEW p \in Proc, NEW u, Arrive(p, u)
      PROVE  PassengerInvOf(q)'
  <2>1. CASE p = q
    <3>1. /\ pc'[q] \in {"load", "count", "resolve"} /\ saved' = saved
          /\ pc'[q] = "resolve" => verb'[q] = "journey"
          /\ gone'[q] = {x \in Passenger : saved[x] = "removed"}
      BY <1>0, <1>4, <2>1 DEF Arrive, Ask, Goto, PostJourney, PostTemplate, PostPassenger,
         PatchJourney, PatchTemplate, PutList, AddItem, DropItem, Duplicate, FromTemplate, Types
    <3> QED
      BY <3>1 DEF PassengerInvOf, Reading, Edit
  <2>2. CASE p # q
    <3>1. /\ pc'[q] = pc[q] /\ verb'[q] = verb[q] /\ body'[q] = body[q] /\ seen'[q] = seen[q]
          /\ user'[q] = user[q] /\ gone'[q] = gone[q]
      BY <1>0, <1>4, <2>2 DEF Arrive, Ask, Goto, PostJourney, PostTemplate, PostPassenger,
         PatchJourney, PatchTemplate, PutList, AddItem, DropItem, Duplicate, FromTemplate, Types
    <3> QED
      BY <1>2, <3>1
  <2> QED
    BY <2>1, <2>2
<1>5. ASSUME NEW p \in Proc, Load(p)
      PROVE  PassengerInvOf(q)'
  <2>1. CASE p = q
    <3>1. pc'[q] = "done" \/ (pc'[q] = "lists" /\ DOMAIN seen'[q] = Place \cup {"quota"})
      BY <1>0, <1>5, <2>1 DEF Load, Goto, Types
    <3>2. UNCHANGED <<saved, gone>> /\ pc[q] # "idle"
      BY <1>5, <2>1 DEF Load
    <3> QED
      BY <1>0, <3>1, <3>2 DEF PassengerInvOf, Has, Place, Reading
  <2>2. CASE p # q
    BY <1>0, <1>2, <1>5, <2>2 DEF Load, Goto, Types
  <2> QED
    BY <2>1, <2>2
<1>6. ASSUME NEW p \in Proc, NEW l \in ListName, ReadList(p, l)
      PROVE  PassengerInvOf(q)'
  <2>0. UNCHANGED <<saved, pc, verb, user, body, gone>>
    BY <1>6 DEF ReadList
  <2>1. CASE p = q /\ verb[q] \in Edit \cup {"copy"}
    <3> DEFINE s == config[rec[q]].passengers
    <3>1. rec[q] \in Record /\ Fit(q, s)
      BY <1>6, <2>1 DEF ReadList, HeldInv, Reading, IInv, BodyInv, PassengersOwned, Fit
    <3>2. CASE l # "passengers"
      <4>1. Has(seen'[q], "passengers") =>
               Has(seen[q], "passengers") /\ seen'[q].passengers = seen[q].passengers
        BY <1>0, <1>6, <2>1, <3>2 DEF ReadList, Extend, Has, Types
      <4> QED
        BY <1>0, <2>0, <4>1 DEF PassengerInvOf, Fit, New
    <3>3. CASE l = "passengers" /\ verb[q] # "copy"
      <4>1. seen'[q].passengers = s
        BY <1>0, <1>6, <2>1, <3>3 DEF ReadList, Extend, Types
      <4> QED
        BY <1>0, <2>0, <3>1, <3>3, <4>1 DEF PassengerInvOf, Fit, New
    <3>4. CASE l = "passengers" /\ verb[q] = "copy"
      <4>1. Items(seen'[q].passengers) = Items(s) \cap Alive
        BY <1>0, <1>6, <2>1, <3>4 DEF ReadList, Extend, Types, IsFilter
      <4>2. Items(seen'[q].passengers) \cap gone[q] = {}
        BY <1>0, <1>6, <2>1, <4>1 DEF ReadList, PassengerInvOf, Alive
      <4> QED
        BY <1>0, <1>6, <2>0, <2>1, <3>1, <4>1, <4>2 DEF PassengerInvOf, Fit, New, ReadList
    <3> QED
      BY <3>2, <3>3, <3>4
  <2>2. CASE verb[q] \notin Edit \cup {"copy"}
    BY <1>0, <2>0, <2>2 DEF PassengerInvOf, Fit, New
  <2>3. CASE p # q
    BY <1>0, <1>2, <1>6, <2>0, <2>3 DEF ReadList, Types
  <2> QED
    BY <2>1, <2>2, <2>3
<1>7. ASSUME NEW p \in Proc, Decide(p)
      PROVE  PassengerInvOf(q)'
  <2>1. UNCHANGED <<verb, user, body, seen, gone>>
    BY <1>7 DEF Decide
  <2>2. CASE p = q
    <3>1. /\ pc[q] = "lists"
          /\ pc'[q] = "save" => verb[q] = "drop" \/ ~Has(body[q], "passengers")
      BY <1>0, <1>7, <2>2 DEF Decide, Goto, Resolves, Types
    <3> QED
      BY <1>3, <2>1, <3>1 DEF Reading
  <2>3. CASE p # q
    BY <1>0, <1>2, <1>7, <2>1, <2>3 DEF Decide, Goto, Types
  <2> QED
    BY <2>2, <2>3
<1>8. ASSUME NEW p \in Proc, Resolve(p)
      PROVE  PassengerInvOf(q)'
  <2>1. UNCHANGED <<verb, user, body, seen, gone>>
    BY <1>8 DEF Resolve
  <2>2. CASE p = q
    <3>1. /\ pc[q] = "resolve"
          /\ pc'[q] = "save" =>
                \A x \in Items(body[q].passengers) : x \in Alive /\ OwnerOf[x] = user[q]
      BY <1>0, <1>8, <2>2 DEF Resolve, Goto, Types
    <3>2. pc'[q] = "save" => Fit(q, body[q].passengers) /\ New(q, body[q].passengers)
      BY <1>0, <3>1 DEF Fit, New, Alive, PassengerInvOf
    <3> QED
      BY <1>3, <2>1, <3>1, <3>2 DEF Reading
  <2>3. CASE p # q
    BY <1>0, <1>2, <1>8, <2>1, <2>3 DEF Resolve, Goto, Types
  <2> QED
    BY <2>2, <2>3
<1>9. ASSUME NEW p \in Proc,
             \/ Count(p) \/ (\E r \in Record : Insert(p, r)) \/ Update(p)
             \/ (\E x \in Passenger : SavePassenger(p, x)) \/ Fail(p)
      PROVE  PassengerInvOf(q)'
  <2>1. UNCHANGED <<verb, user, body, seen, gone>>
    BY <1>9 DEF Count, Insert, Update, SavePassenger, Fail
  <2>2. CASE p = q
    <3>1. pc[q] # "idle" /\ \/ pc'[q] = "done"
                            \/ pc'[q] = "resolve" /\ verb[q] = "template"
                            \/ pc'[q] = "save" /\ verb[q] = "passenger"
      BY <1>0, <1>9, <2>2 DEF Count, Insert, Update, SavePassenger, Fail, Goto, Types
    <3> QED
      BY <1>3, <2>1, <3>1 DEF Reading
  <2>3. CASE p # q
    BY <1>0, <1>2, <1>9, <2>1, <2>3
    DEF Count, Insert, Update, SavePassenger, Fail, Goto, Types
  <2> QED
    BY <2>2, <2>3
<1>10. ASSUME NEW p \in Proc, Return(p)
      PROVE  PassengerInvOf(q)'
  <2>1. CASE p = q
    <3>1. pc'[q] = "idle"
      BY <1>0, <1>10, <2>1 DEF Return, Goto, Types
    <3> QED
      BY <3>1 DEF PassengerInvOf, Reading
  <2>2. CASE p # q
    BY <1>0, <1>2, <1>10, <2>2 DEF Return, Goto, Types
  <2> QED
    BY <2>1, <2>2
<1>11. CASE UNCHANGED <<pc, verb, user, body, seen, gone>>
  BY <1>2, <1>11
<1> QED
  BY <1>4, <1>5, <1>6, <1>7, <1>8, <1>9, <1>10, <1>11
  DEF Next, Step, DeleteJourney, DeleteTemplate, Delete, RemovePassenger, vars

LEMMA InitPassengers == Init => PassengerInv /\ PassengersOwned
  BY DEF Init, PassengerInv, PassengersOwned, Reading

LEMMA PassengersInvariant == Spec => [](PassengerInv /\ PassengersOwned)
  BY InitPassengers, NextOwned, NextPassengers, Invariance, PTL DEF Spec

\* Nobody's journey or template ever names somebody else's passenger.
THEOREM PassengersAreTheOwners == Spec => []PassengersOwned
  BY PassengersInvariant, PTL

\* A new record names nobody who had been removed when the request came.
THEOREM NoRemovedPassengers == Spec => NewRecordsSkipRemoved
<1> DEFINE Skips ==
       \A p \in Proc, r \in Record :
         (pc[p] = "save" /\ pc'[p] = "done" /\ status[r] = "absent" /\ status'[r] = "live")
             => Items(config'[r].passengers) \cap gone[p] = {}
<1>1. IInv /\ PassengerInv /\ [Next]_vars => [Skips]_vars
  <2> SUFFICES ASSUME IInv, PassengerInv, [Next]_vars, NEW p \in Proc, NEW r \in Record,
                      pc[p] = "save", pc'[p] = "done", status[r] = "absent", status'[r] = "live"
               PROVE  Items(config'[r].passengers) \cap gone[p] = {}
    OBVIOUS
  <2>0. Types
    BY DEF IInv
  <2>1. PICK q \in Proc, t \in Record : Insert(q, t)
    <3>1. status' # status
      OBVIOUS
    <3>2. ~UNCHANGED table
      BY <3>1 DEF table
    <3>3. \A q \in Proc : ~Update(q)
      BY <3>1 DEF Update
    <3>4. \A u \in mix.users, t \in Record : ~Delete(u, t)
      BY <2>0 DEF Delete, Types
    <3> QED
      BY <3>2, <3>3, <3>4, RecordSteps
  <2>2. q = p /\ t = r
    BY <2>0, <2>1 DEF Insert, Goto, Types
  <2>3. Full(Planned(p))
    BY <2>1, <2>2, PlannedIsFull DEF Insert, IInv
  <2>4. Has(Planned(p), "passengers")
    BY <2>3 DEF Full, Has, Field, ListName
  <2>5. New(p, Planned(p).passengers)
    BY <2>1, <2>2, <2>4, PlannedPassengers DEF Insert
  <2>6. config'[r] = Planned(p)
    BY <2>0, <2>1, <2>2 DEF Insert, Types
  <2> QED
    BY <2>5, <2>6 DEF New
<1> QED
  BY <1>1, Invariance, PassengersInvariant, PTL DEF Spec, NewRecordsSkipRemoved

-------------------------------------------------------------------------------
(* The limit of passengers per booking.                                    *)

\* What an edit that has not been overtaken has read is what the record holds, and
\* what is about to be written is within the limit.
FreshInv ==
    \A p \in Proc :
        /\ (pc[p] \in Reading /\ verb[p] \in Edit /\ ~stale[p]) =>
              \A f \in DOMAIN seen[p] : seen[p][f] = config[rec[p]][f]
        /\ (pc[p] = "save" /\ verb[p] # "passenger") => WithinLimit(p)

\* An edit that has not been overtaken stays within the limit.
LEMMA UpdateWithinLimit ==
  ASSUME IInv, FreshInv, NEW p \in Proc, pc[p] = "save", verb[p] \in Edit, ~stale[p],
         NEW c, c = config[rec[p]], Full(c), Len(c.passengers) <= Limit[c.quota],
         NEW d, d = Overwrite(c, Planned(p))
  PROVE  Len(d.passengers) <= Limit[d.quota]
<1> DEFINE n == Planned(p)
<1>1. /\ d.passengers = IF Has(n, "passengers") THEN n.passengers ELSE c.passengers
      /\ d.quota = IF Has(n, "quota") THEN n.quota ELSE c.quota
  BY DEF Overwrite, Full, Field, ListName
<1>2. WithinLimit(p)
  BY DEF FreshInv, Edit
<1>3. \A f \in DOMAIN seen[p] : seen[p][f] = c[f]
  BY DEF FreshInv, Reading
<1>4. /\ "quota" \in DOMAIN seen[p]
      /\ DOMAIN seen[p] = Place \cup {"quota"} \cup Needs(verb[p], body[p])
  BY DEF IInv, SeenInv, Reading
<1>5. seen[p].quota = c.quota
  BY <1>3, <1>4
<1>6. CASE Limited(p)
  <2>1. verb[p] = "patch" => seen[p].passengers = c.passengers
    BY <1>3, <1>4 DEF Needs
  <2>2. verb[p] # "patch" => Has(n, "passengers")
    BY <1>6 DEF Limited, Edit, Planned, Has
  <2> HIDE DEF n
  <2> QED
    BY <1>1, <1>2, <1>5, <1>6, <2>1, <2>2 DEF WithinLimit, n
<1>7. CASE ~Limited(p) /\ verb[p] = "patch"
  <2>1. ~Has(body[p], "passengers") /\ ~Has(body[p], "quota")
    BY <1>7 DEF Limited
  <2>2. ~Has(n, "passengers") /\ (Has(n, "quota") => n.quota = seen[p].quota)
    BY <1>7, <2>1 DEF Planned, Has, Place
  <2> HIDE DEF n
  <2> QED
    BY <1>1, <1>5, <2>2
<1>8. CASE ~Limited(p) /\ verb[p] # "patch"
  <2>1. ~Has(n, "quota")
    <3>1. DOMAIN n = DOMAIN body[p] /\ "quota" \notin DOMAIN body[p]
      BY <1>8 DEF Planned, IInv, BodyInv, OneItem, ListName, Edit
    <3> QED
      BY <3>1 DEF Has
  <2>2. CASE verb[p] # "drop"
    <3>1. ~Has(n, "passengers")
      BY <1>8, <2>2 DEF Planned, Limited, Has, Edit
    <3> QED
      BY <1>1, <2>1, <3>1
  <2>3. CASE verb[p] = "drop" /\ Has(n, "passengers")
    <3> DEFINE s == seen[p].passengers
               x == body[p].passengers[1]
    <3>1. DOMAIN body[p] = {"passengers"}
      BY <2>3 DEF Planned, Has, IInv, BodyInv, OneItem
    <3>2. Has(seen[p], "passengers") /\ s \in List(Passenger) /\ Sensible(p)
      BY <2>3, <3>1 DEF IInv, SeenInv, Reading, Needs, Edit, FieldOK, Has
    <3>3. n.passengers = Without(s, x) /\ x \in Items(s)
      BY <2>3, <3>1, <3>2 DEF Planned, Sensible
    <3>4. Len(n.passengers) = Len(s) - 1
      BY <3>2, <3>3, DropFromList
    <3>5. s = c.passengers /\ Len(s) \in Nat
      BY <1>3, <3>2 DEF Has, List
    <3>6. Limit[c.quota] \in Nat
      BY JourneyAssumption DEF Full, FieldOK, Field
    <3> HIDE DEF n
    <3> QED
      BY <1>1, <2>1, <2>3, <3>4, <3>5, <3>6
  <2>4. CASE ~Has(n, "passengers")
    BY <1>1, <2>1, <2>4
  <2> QED
    BY <2>2, <2>3, <2>4
<1> QED
  BY <1>6, <1>7, <1>8

LEMMA NextLimit ==
  IInv /\ HeldInv /\ FreshInv /\ LimitHoldsUnlessRaced /\ [Next]_vars => LimitHoldsUnlessRaced'
<1> SUFFICES ASSUME IInv, HeldInv, FreshInv, LimitHoldsUnlessRaced, [Next]_vars
             PROVE  LimitHoldsUnlessRaced'
  OBVIOUS
<1>1. raced \subseteq raced'
  <2>1. ASSUME NEW p \in Proc, Step(p)
        PROVE  raced \subseteq raced'
    BY <2>1 DEF Step, Load, ReadList, Decide, Resolve, Count, Insert, Update, SavePassenger,
       Fail, Return
  <2>2. ASSUME NEW p \in Proc, NEW u, Arrive(p, u)
        PROVE  raced \subseteq raced'
    BY <2>2 DEF Arrive, Ask, PostJourney, PostTemplate, PostPassenger, PatchJourney,
       PatchTemplate, PutList, AddItem, DropItem, Duplicate, FromTemplate
  <2> QED
    BY <2>1, <2>2 DEF Next, DeleteJourney, DeleteTemplate, Delete, RemovePassenger, vars
<1>2. CASE UNCHANGED table
  BY <1>1, <1>2 DEF table, LimitHoldsUnlessRaced
<1>3. ASSUME NEW p \in Proc, NEW r \in Record, Insert(p, r)
      PROVE  LimitHoldsUnlessRaced'
  <2>1. Full(Planned(p)) /\ WithinLimit(p) /\ Limited(p)
    BY <1>3, PlannedIsFull DEF Insert, IInv, FreshInv, Limited
  <2>2. Has(Planned(p), "passengers") /\ Has(Planned(p), "quota")
    BY <2>1 DEF Full, Has, Field, ListName
  <2>3. Len(Planned(p).passengers) <= Limit[Planned(p).quota]
    BY <2>1, <2>2 DEF WithinLimit
  <2> QED
    BY <1>1, <1>3, <2>3 DEF Insert, LimitHoldsUnlessRaced, IInv, Types
<1>4. ASSUME NEW p \in Proc, Update(p)
      PROVE  LimitHoldsUnlessRaced'
  <2>1. CASE UNCHANGED config
    BY <1>1, <1>4, <2>1 DEF Update, LimitHoldsUnlessRaced
  <2>2. CASE /\ Visible(rec[p], user[p])
             /\ config' = [config EXCEPT ![rec[p]] = Overwrite(@, Planned(p))]
             /\ raced' = IF stale[p] THEN raced \cup {rec[p]} ELSE raced
    <3>1. rec[p] \in Record /\ Full(config[rec[p]]) /\ verb[p] \in Edit /\ pc[p] = "save"
      BY <1>4, <2>2 DEF Update, Visible, IInv, BodyInv, RecordInv, Edit
    <3>2. config'[rec[p]] = Overwrite(config[rec[p]], Planned(p))
          /\ \A r \in Record \ {rec[p]} : config'[r] = config[r]
      BY <2>2, <3>1 DEF IInv, Types
    <3>3. rec[p] \notin raced' =>
             Len(config'[rec[p]].passengers) <= Limit[config'[rec[p]].quota]
      BY <2>2, <3>1, <3>2, UpdateWithinLimit DEF Visible, LimitHoldsUnlessRaced
    <3> QED
      BY <1>1, <1>4, <3>2, <3>3 DEF Update, LimitHoldsUnlessRaced
  <2> QED
    BY <1>4, <2>1, <2>2 DEF Update
<1>5. ASSUME NEW u, NEW r \in Record, Delete(u, r)
      PROVE  LimitHoldsUnlessRaced'
  BY <1>1, <1>5 DEF Delete, Visible, LimitHoldsUnlessRaced, IInv, Types
<1> QED
  BY <1>2, <1>3, <1>4, <1>5, RecordSteps

\* The part of the invariant that speaks of one request.
FreshOf(p) ==
    /\ (pc[p] \in Reading /\ verb[p] \in Edit /\ ~stale[p]) =>
          \A f \in DOMAIN seen[p] : seen[p][f] = config[rec[p]][f]
    /\ (pc[p] = "save" /\ verb[p] # "passenger") => WithinLimit(p)

LEMMA SameLimit ==
  ASSUME NEW q \in Proc, verb'[q] = verb[q], body'[q] = body[q], seen'[q] = seen[q]
  PROVE  WithinLimit(q)' <=> WithinLimit(q)
  BY DEF WithinLimit, Limited, Planned

LEMMA NextFresh == IInv /\ HeldInv /\ FreshInv /\ [Next]_vars => FreshInv'
<1> SUFFICES ASSUME IInv, HeldInv, FreshInv, [Next]_vars, NEW q \in Proc
             PROVE  FreshOf(q)'
  BY DEF FreshInv, FreshOf
<1> USE DEF table, local
<1>0. Types /\ FreshOf(q)
  BY DEF IInv, FreshInv, FreshOf
<1>1. ASSUME verb'[q] = verb[q], body'[q] = body[q], seen'[q] = seen[q], rec'[q] = rec[q],
             pc'[q] \in Reading => pc[q] \in Reading \/ verb[q] \notin Edit,
             stale[q] => stale'[q],
             (pc[q] \in Reading /\ verb[q] \in Edit /\ ~stale'[q])
                => config'[rec[q]] = config[rec[q]],
             pc'[q] = "save" => pc[q] = "save" \/ WithinLimit(q) \/ verb[q] = "passenger"
      PROVE  FreshOf(q)'
  BY <1>0, <1>1, SameLimit DEF FreshOf
<1>2. ASSUME NEW p \in Proc, NEW u, Arrive(p, u)
      PROVE  FreshOf(q)'
  <2>1. CASE p = q
    <3>1. /\ pc'[q] \in {"load", "count", "resolve"}
          /\ pc'[q] = "resolve" => verb'[q] = "journey"
      BY <1>0, <1>2, <2>1 DEF Arrive, Ask, Goto, PostJourney, PostTemplate, PostPassenger,
         PatchJourney, PatchTemplate, PutList, AddItem, DropItem, Duplicate, FromTemplate, Types
    <3> QED
      BY <3>1 DEF FreshOf, Reading, Edit
  <2>2. CASE p # q
    <3>1. /\ pc'[q] = pc[q] /\ verb'[q] = verb[q] /\ body'[q] = body[q] /\ seen'[q] = seen[q]
          /\ rec'[q] = rec[q] /\ stale'[q] = stale[q] /\ config' = config
      BY <1>0, <1>2, <2>2 DEF Arrive, Ask, Goto, PostJourney, PostTemplate, PostPassenger,
         PatchJourney, PatchTemplate, PutList, AddItem, DropItem, Duplicate, FromTemplate, Types
    <3> QED
      BY <1>1, <3>1
  <2> QED
    BY <2>1, <2>2
<1>3. ASSUME NEW p \in Proc, Load(p)
      PROVE  FreshOf(q)'
  <2>1. UNCHANGED <<verb, body, rec, config, stale>>
    BY <1>3 DEF Load
  <2>2. CASE p = q
    <3>1. \/ pc'[q] = "done"
          \/ /\ pc'[q] = "lists"
             /\ seen'[q] = [f \in Place \cup {"quota"} |-> config[rec[q]][f]]
      BY <1>0, <1>3, <2>2 DEF Load, Goto, Types
    <3> QED
      BY <2>1, <3>1 DEF FreshOf, Reading
  <2>3. CASE p # q
    BY <1>0, <1>1, <1>3, <2>1, <2>3 DEF Load, Goto, Types
  <2> QED
    BY <2>2, <2>3
<1>4. ASSUME NEW p \in Proc, NEW l \in ListName, ReadList(p, l)
      PROVE  FreshOf(q)'
  <2>1. UNCHANGED <<pc, verb, body, rec, config, stale>>
    BY <1>4 DEF ReadList
  <2>2. CASE p = q /\ verb[q] \in Edit
    <3>1. pc[q] = "lists" /\ seen'[q] = Extend(seen[q], l, config[rec[q]][l])
      BY <1>0, <1>4, <2>2 DEF ReadList, Edit, Types
    <3>2. ~stale[q] => \A f \in DOMAIN seen[q] : seen[q][f] = config[rec[q]][f]
      BY <1>0, <2>2, <3>1 DEF FreshOf, Reading
    <3> QED
      BY <2>1, <3>1, <3>2 DEF FreshOf, Extend
  <2>3. CASE p = q /\ verb[q] \notin Edit
    BY <1>4, <2>1, <2>3 DEF FreshOf, ReadList
  <2>4. CASE p # q
    BY <1>0, <1>1, <1>4, <2>1, <2>4 DEF ReadList, Types
  <2> QED
    BY <2>2, <2>3, <2>4
<1>5. ASSUME NEW p \in Proc, Decide(p) \/ Resolve(p) \/ Count(p)
      PROVE  FreshOf(q)'
  <2>1. UNCHANGED <<verb, body, seen, rec, config, stale>>
    BY <1>5 DEF Decide, Resolve, Count
  <2>2. CASE p = q
    <3>1. pc'[q] = "save" => WithinLimit(q) \/ verb[q] = "passenger"
      BY <1>0, <1>5, <2>2 DEF Decide, Resolve, Count, Goto, Types
    <3>2. pc'[q] \in Reading => pc[q] \in Reading \/ verb[q] \notin Edit
      BY <1>0, <1>5, <2>2 DEF Decide, Resolve, Count, Goto, Types, Reading, Edit
    <3> QED
      BY <1>1, <2>1, <3>1, <3>2
  <2>3. CASE p # q
    BY <1>0, <1>1, <1>5, <2>1, <2>3 DEF Decide, Resolve, Count, Goto, Types
  <2> QED
    BY <2>2, <2>3
<1>6. ASSUME NEW p \in Proc, NEW r \in Record, Insert(p, r)
      PROVE  FreshOf(q)'
  <2>1. UNCHANGED <<verb, body, seen, rec, stale>>
    BY <1>6 DEF Insert
  <2>2. pc'[q] = IF p = q THEN "done" ELSE pc[q]
    BY <1>0, <1>6 DEF Insert, Goto, Types
  <2>3. (pc[q] \in Reading /\ verb[q] \in Edit) => config'[rec[q]] = config[rec[q]]
    BY <1>0, <1>6 DEF Insert, HeldInv, IInv, BodyInv, Reading, Types
  <2> QED
    BY <1>1, <2>1, <2>2, <2>3 DEF Reading
<1>7. ASSUME NEW p \in Proc, Update(p)
      PROVE  FreshOf(q)'
  <2>1. UNCHANGED <<verb, body, seen, rec>>
    BY <1>7 DEF Update
  <2>2. pc'[q] = IF p = q THEN "done" ELSE pc[q]
    BY <1>0, <1>7 DEF Update, Goto, Types
  <2>3. CASE p = q
    BY <2>2, <2>3 DEF FreshOf, Reading
  <2>4. CASE p # q
    <3>1. stale[q] => stale'[q]
      BY <1>7 DEF Update, Outdates
    <3>2. (pc[q] \in Reading /\ verb[q] \in Edit /\ ~stale'[q])
             => config'[rec[q]] = config[rec[q]]
      <4>1. rec[q] = rec[p] /\ pc[q] \in Reading => UNCHANGED config \/ stale'[q]
        BY <1>7, <2>4 DEF Update, Outdates, Reading
      <4>2. rec[q] \in Record /\ rec[q] # rec[p] => config'[rec[q]] = config[rec[q]]
        BY <1>0, <1>7 DEF Update, Types
      <4>3. (pc[q] \in Reading /\ verb[q] \in Edit) => rec[q] \in Record
        BY DEF IInv, BodyInv, Reading
      <4> QED
        BY <4>1, <4>2, <4>3
    <3> QED
      BY <1>1, <2>1, <2>2, <2>4, <3>1, <3>2
  <2> QED
    BY <2>3, <2>4
<1>8. ASSUME NEW u, NEW r \in Record, Delete(u, r)
      PROVE  FreshOf(q)'
  <2>1. UNCHANGED <<pc, verb, body, seen, rec, config>> /\ (stale[q] => stale'[q])
    BY <1>8 DEF Delete
  <2> QED
    BY <1>1, <2>1
<1>9. ASSUME NEW p \in Proc, (\E x \in Passenger : SavePassenger(p, x)) \/ Fail(p)
      PROVE  FreshOf(q)'
  <2>1. UNCHANGED <<verb, body, seen, rec, config, stale>>
    BY <1>9 DEF SavePassenger, Fail
  <2>2. pc'[q] = IF p = q THEN "done" ELSE pc[q]
    BY <1>0, <1>9 DEF SavePassenger, Fail, Goto, Types
  <2> QED
    BY <1>1, <2>1, <2>2 DEF Reading
<1>10. ASSUME NEW p \in Proc, Return(p)
      PROVE  FreshOf(q)'
  <2>1. CASE p = q
    <3>1. pc'[q] = "idle"
      BY <1>0, <1>10, <2>1 DEF Return, Goto, Types
    <3> QED
      BY <3>1 DEF FreshOf, Reading
  <2>2. CASE p # q
    BY <1>0, <1>1, <1>10, <2>2 DEF Return, Goto, Types
  <2> QED
    BY <2>1, <2>2
<1>11. CASE UNCHANGED <<pc, verb, body, seen, rec, config, stale>>
  BY <1>1, <1>11
<1> QED
  BY <1>2, <1>3, <1>4, <1>5, <1>6, <1>7, <1>8, <1>9, <1>10, <1>11
  DEF Next, Step, DeleteJourney, DeleteTemplate, RemovePassenger, vars

\* The limit of a booking's quota is exceeded only after edits that raced.
THEOREM LimitIsKept == Spec => []LimitHoldsUnlessRaced
<1>1. Init => FreshInv /\ LimitHoldsUnlessRaced
  BY DEF Init, FreshInv, LimitHoldsUnlessRaced, Reading
<1> QED
  BY <1>1, NextLimit, NextFresh, Invariance, PTL DEF Spec

-------------------------------------------------------------------------------
(* What an edit that raced with no other does.                             *)

\* Where an item was dropped, the list can be put together again.
LEMMA DroppedItem ==
  ASSUME NEW S, NEW s \in List(S), NEW x \in Items(s)
  PROVE  LET t == Without(s, x) IN
         \E i \in 0..Len(t) : s = SubSeq(t, 1, i) \o <<x>> \o SubSeq(t, i + 1, Len(t))
<1> DEFINE k == CHOOSE i \in 1..Len(s) : s[i] = x
           n == Len(s) - 1
           t == Without(s, x)
           a == SubSeq(t, 1, k - 1)
           b == SubSeq(t, k, n)
           u == a \o <<x>> \o b
<1>1. s \in Seq(S) /\ Len(s) \in Nat /\ x \in S
  BY DEF List, Items
<1>2. k \in 1..Len(s) /\ s[k] = x /\ n \in Nat
  <2>1. \E i \in 1..Len(s) : s[i] = x
    BY DEF Items
  <2>2. k \in 1..Len(s) /\ s[k] = x
    BY <2>1
  <2> HIDE DEF k
  <2> QED
    BY <1>1, <2>2
<1>3. t = [i \in 1..n |-> IF i < k THEN s[i] ELSE s[i + 1]]
  BY DEF Without
<1>4. t \in Seq(S) /\ Len(t) = n
  BY DropFromList DEF List
<1> HIDE DEF k, t, n
<1>5. a \in Seq(S) /\ Len(a) = k - 1 /\ \A i \in 1..(k - 1) : a[i] = s[i]
  <2>1. k - 1 <= n /\ k - 1 \in Nat /\ k \in Int
    BY <1>1, <1>2 DEF n
  <2>2. a \in Seq(S) /\ Len(a) = k - 1 /\ \A i \in 1..(k - 1) : a[i] = t[i]
    BY <1>4, <2>1
  <2>3. \A i \in 1..(k - 1) : i \in 1..n /\ i < k
    BY <1>2, <2>1
  <2>4. \A i \in 1..(k - 1) : t[i] = s[i]
    BY <1>3, <2>3
  <2> HIDE DEF a
  <2> QED
    BY <2>2, <2>4
<1>6. b \in Seq(S) /\ Len(b) = n - k + 1 /\ \A i \in 1..(n - k + 1) : b[i] = s[k + i]
  <2>1. k <= n + 1 /\ k \in Nat \ {0}
    BY <1>1, <1>2 DEF n
  <2>2. b \in Seq(S) /\ Len(b) = n - k + 1 /\ \A i \in 1..(n - k + 1) : b[i] = t[k + i - 1]
    BY <1>2, <1>4, <2>1
  <2>3. \A i \in 1..(n - k + 1) : k + i - 1 \in 1..n /\ ~(k + i - 1 < k) /\ (k + i - 1) + 1 = k + i
    BY <1>2, <2>1
  <2> QED
    BY <1>3, <2>2, <2>3
<1> HIDE DEF a, b
<1>7. <<x>> \in Seq(S) /\ Len(<<x>>) = 1 /\ <<x>>[1] = x
  BY <1>1
<1>8. /\ a \o <<x>> \in Seq(S) /\ Len(a \o <<x>>) = k
      /\ \A i \in 1..k : (a \o <<x>>)[i] = s[i]
  <2>1. /\ a \o <<x>> \in Seq(S) /\ Len(a \o <<x>>) = Len(a) + 1
        /\ \A i \in 1..(Len(a) + 1) : (a \o <<x>>)[i] = IF i <= Len(a) THEN a[i] ELSE <<x>>[i - Len(a)]
    BY <1>5, <1>7, ConcatProperties
  <2>2. Len(a) + 1 = k /\ k \in Int
    BY <1>1, <1>2, <1>5
  <2>3. \A i \in 1..k : i <= k - 1 \/ i = k
    BY <2>2
  <2> QED
    BY <1>2, <1>5, <1>7, <2>1, <2>2, <2>3
<1>9. u \in Seq(S) /\ Len(u) = Len(s) /\ \A i \in 1..Len(s) : u[i] = s[i]
  <2> DEFINE h == a \o <<x>>
  <2>0. h \in Seq(S) /\ Len(h) = k /\ \A i \in 1..k : h[i] = s[i]
    BY <1>8
  <2> HIDE DEF h
  <2>1. /\ h \o b \in Seq(S) /\ Len(h \o b) = Len(h) + Len(b)
        /\ \A i \in 1..(Len(h) + Len(b)) : (h \o b)[i] = IF i <= Len(h) THEN h[i] ELSE b[i - Len(h)]
    BY <1>6, <2>0, ConcatProperties
  <2>2. Len(h) + Len(b) = Len(s)
    BY <1>1, <1>2, <1>6, <2>0 DEF n
  <2>3. \A i \in 1..Len(s) : (h \o b)[i] = s[i]
    <3> SUFFICES ASSUME NEW i \in 1..Len(s)
                 PROVE  (h \o b)[i] = s[i]
      OBVIOUS
    <3>1. CASE i <= k
      BY <1>1, <1>2, <2>0, <2>1, <2>2, <3>1
    <3>2. CASE ~(i <= k)
      <4>1. i - k \in 1..(n - k + 1) /\ k + (i - k) = i
        BY <1>1, <1>2, <3>2 DEF n
      <4> QED
        BY <1>6, <2>0, <2>1, <2>2, <3>2, <4>1
    <3> QED
      BY <3>1, <3>2
  <2> QED
    BY <2>1, <2>2, <2>3 DEF h
<1>10. u = s
  <2> HIDE DEF u
  <2> QED
    BY <1>1, <1>9, SeqEqual
<1>11. k - 1 \in 0..Len(t) /\ (k - 1) + 1 = k
  BY <1>1, <1>2, <1>4 DEF n
<1>12. s = SubSeq(t, 1, k - 1) \o <<x>> \o SubSeq(t, (k - 1) + 1, Len(t))
  BY <1>4, <1>10, <1>11 DEF a, b, u
<1> QED
  BY <1>11, <1>12 DEF t

\* Of what it read, an edit writes back only what is still there, and of what it was
\* asked for, all.
LEMMA UpdateEdits ==
  ASSUME IInv, FreshInv, NEW p \in Proc, pc[p] = "save", verb[p] \in Edit, ~stale[p],
         NEW c, c = config[rec[p]], Full(c),
         NEW d, d = Overwrite(c, Planned(p))
  PROVE  Edited(c, d, verb[p], body[p])
<1> DEFINE n == Planned(p)
           b == body[p]
<1>1. \A f \in Field : d[f] = IF Has(n, f) THEN n[f] ELSE c[f]
  BY DEF Overwrite, Full
<1>2. \A f \in DOMAIN seen[p] : seen[p][f] = c[f]
  BY DEF FreshInv, Reading
<1>3. /\ Place \cup {"quota"} \subseteq DOMAIN seen[p]
      /\ DOMAIN seen[p] = Place \cup {"quota"} \cup Needs(verb[p], b)
      /\ Sensible(p)
  BY DEF IInv, SeenInv, Reading
<1>4. CASE verb[p] = "put"
  <2>1. n = b
    BY <1>4 DEF Planned
  <2> HIDE DEF n
  <2> QED
    BY <1>1, <1>4, <2>1 DEF Edited
<1>5. CASE verb[p] = "patch"
  <2> DEFINE from == Sent(b, "from", c.from)
             D == Place \cup {"quota"} \cup DOMAIN b
  <2>1. n = [f \in D |-> IF f = "boarding"
                         THEN NormaliseBoarding(Sent(b, "from", seen[p].from), Sent(b, f, seen[p][f]))
                         ELSE IF Has(b, f) THEN b[f] ELSE seen[p][f]]
    BY <1>5 DEF Planned
  <2>2. \A f \in Place \cup {"quota"} : seen[p][f] = c[f]
    BY <1>2, <1>3
  <2>3. seen[p].from = c.from
    BY <2>2 DEF Place
  <2>4. /\ Has(n, "boarding")
        /\ n.boarding = NormaliseBoarding(from, Sent(b, "boarding", c.boarding))
    BY <2>1, <2>2, <2>3 DEF Has, Place
  <2>5. \A f \in Field \ {"boarding"} :
           /\ Has(b, f) => Has(n, f) /\ n[f] = b[f]
           /\ ~Has(b, f) => ~Has(n, f) \/ n[f] = c[f]
    BY <2>1, <2>2 DEF Has
  <2> HIDE DEF n
  <2>6. \A f \in Field \ {"boarding"} : d[f] = IF Has(b, f) THEN b[f] ELSE c[f]
    BY <1>1, <2>5
  <2>7. d.from = from /\ d.boarding = NormaliseBoarding(from, Sent(b, "boarding", c.boarding))
    BY <1>1, <2>4, <2>6 DEF Field, Place, Sent
  <2> HIDE DEF from
  <2> QED
    BY <1>5, <2>6, <2>7 DEF Edited, NormaliseBoarding, Sent
<1>6. CASE verb[p] \in {"add", "drop"}
  <2>1. PICK l \in ListName : DOMAIN b = {l} /\ \E y \in ListOf[l] : b[l] = <<y>>
    BY <1>6 DEF IInv, BodyInv, OneItem
  <2>2. PICK x \in ListOf[l] : b[l] = <<x>>
    BY <2>1
  <2>3. seen[p][l] = c[l] /\ l \in Field
    BY <1>2, <1>3, <1>6, <2>1 DEF Needs, Field
  <2>4. c[l] \in List(ListOf[l])
    BY <2>1, <2>3 DEF Full, FieldOK, ListOf, ListName
  <2>5. DOMAIN n = {l} /\ b[l][1] = x
    BY <1>6, <2>1, <2>2 DEF Planned
  <2>6. \A f \in Field : Has(n, f) <=> f = l
    BY <2>5 DEF Has
  <2>7. \A f \in Field : Has(b, f) <=> f = l
    BY <2>1 DEF Has
  <2>8. CASE verb[p] = "add"
    <3>1. n[l] = Append(c[l], x)
      BY <2>1, <2>3, <2>5, <2>8 DEF Planned
    <3>2. Append(c[l], x) = c[l] \o <<x>>
      <4>1. c[l] \in Seq(ListOf[l])
        BY <2>4 DEF List
      <4> HIDE DEF n, b
      <4> QED
        BY <4>1, AppendIsConcat
    <3>3. d[l] = c[l] \o b[l] /\ \A f \in Field \ {l} : d[f] = c[f]
      <4> HIDE DEF n, b
      <4> QED
        BY <1>1, <2>2, <2>3, <2>6, <3>1, <3>2
    <3> HIDE DEF n
    <3> QED
      BY <2>3, <2>7, <2>8, <3>3 DEF Edited
  <2>9. CASE verb[p] = "drop"
    <3>1. n[l] = Without(c[l], x)
      BY <2>1, <2>3, <2>5, <2>9 DEF Planned
    <3>2. x \in Items(c[l])
      BY <1>3, <2>1, <2>3, <2>5, <2>9 DEF Sensible
    <3>3. \E i \in 0..Len(n[l]) :
             c[l] = SubSeq(n[l], 1, i) \o <<x>> \o SubSeq(n[l], i + 1, Len(n[l]))
      <4> DEFINE s == c[l]
                 T == ListOf[l]
      <4>1. s \in List(T) /\ x \in Items(s) /\ n[l] = Without(s, x)
        BY <2>4, <3>1, <3>2
      <4> HIDE DEF n, s, T
      <4>2. \E i \in 0..Len(Without(s, x)) :
               s = SubSeq(Without(s, x), 1, i) \o <<x>> \o SubSeq(Without(s, x), i + 1, Len(Without(s, x)))
        BY ONLY <4>1, DroppedItem
      <4>3. \E i \in 0..Len(n[l]) : s = SubSeq(n[l], 1, i) \o <<x>> \o SubSeq(n[l], i + 1, Len(n[l]))
        BY ONLY <4>1, <4>2
      <4> QED
        BY ONLY <4>3 DEF s
    <3>4. d[l] = n[l] /\ \A f \in Field \ {l} : d[f] = c[f]
      <4> HIDE DEF n, b
      <4> QED
        BY <1>1, <2>3, <2>6
    <3>5. \E i \in 0..Len(d[l]) : c[l] = SubSeq(d[l], 1, i) \o b[l] \o SubSeq(d[l], i + 1, Len(d[l]))
      <4> HIDE DEF n, b
      <4> QED
        BY <2>2, <3>3, <3>4
    <3> HIDE DEF n
    <3> QED
      BY <2>3, <2>7, <2>9, <3>4, <3>5 DEF Edited
  <2> QED
    BY <1>6, <2>8, <2>9
<1> QED
  BY <1>4, <1>5, <1>6 DEF Edit

\* A request for something new has no record; one for a copy names no fields.
NewInv ==
    \A p \in Proc : /\ verb[p] \in {"journey", "template", "passenger"} => rec[p] = NoRecord
                    /\ verb[p] = "copy" => body[p] = EmptyBody

LEMMA NextNew == Types /\ NewInv /\ [Next]_vars => NewInv'
<1> SUFFICES ASSUME Types, NewInv, [Next]_vars
             PROVE  NewInv'
  OBVIOUS
<1>1. CASE UNCHANGED <<verb, rec, body>>
  BY <1>1 DEF NewInv
<1>2. ASSUME NEW p \in Proc, NEW v, NEW u, NEW r, NEW b, NEW l, Ask(p, v, u, r, b, l),
             v \in {"journey", "template", "passenger"} => r = NoRecord,
             v = "copy" => b = EmptyBody
      PROVE  NewInv'
  BY <1>2 DEF Ask, NewInv, Types
<1>3. ASSUME NEW p \in Proc, NEW u, Arrive(p, u)
      PROVE  NewInv'
  BY <1>2, <1>3 DEF Arrive, PostJourney, PostTemplate, PostPassenger, PatchJourney,
     PatchTemplate, PutList, AddItem, DropItem, Duplicate, FromTemplate
<1>4. ASSUME NEW p \in Proc, Return(p)
      PROVE  NewInv'
  BY <1>4 DEF Return, NewInv, Types
<1>5. ASSUME NEW p \in Proc, Step(p), ~Return(p)
      PROVE  UNCHANGED <<verb, rec, body>>
  BY <1>5 DEF Step, Load, ReadList, Decide, Resolve, Count, Insert, Update, SavePassenger, Fail,
     local
<1>6. ASSUME NEW u, NEW r, DeleteJourney(u, r) \/ DeleteTemplate(u, r) \/ RemovePassenger(r)
      PROVE  UNCHANGED <<verb, rec, body>>
  BY <1>6 DEF DeleteJourney, DeleteTemplate, Delete, RemovePassenger, local
<1> QED
  BY <1>1, <1>3, <1>4, <1>5, <1>6 DEF Next, vars, local

\* An edit that raced with no other does what it says and nothing else
\* (journey.service.ts): the rest of the record is as it was.
THEOREM EditsDoWhatTheySay == Spec => UnracedEditsApply
<1> DEFINE A == \A p \in Proc :
         (pc[p] = "save" /\ config' # config /\ pc'[p] = "done" /\ rec[p] \in Record /\ ~stale[p])
             => Edited(config[rec[p]], config'[rec[p]], verb[p], body[p])
<1>1. ASSUME IInv, HeldInv, FreshInv, NewInv, [Next]_vars
      PROVE  A
  <2> SUFFICES ASSUME NEW p \in Proc, pc[p] = "save", config' # config, pc'[p] = "done",
                      rec[p] \in Record, ~stale[p]
               PROVE  Edited(config[rec[p]], config'[rec[p]], verb[p], body[p])
    OBVIOUS
  <2>0. Types
    BY <1>1 DEF IInv
  <2>1. \/ \E q \in Proc, r \in Record : Insert(q, r)
        \/ \E q \in Proc : Update(q)
    <3>1. ~UNCHANGED table
      BY DEF table
    <3>2. \A u \in mix.users, r \in Record : ~Delete(u, r)
      BY DEF Delete
    <3> QED
      BY <1>1, <3>1, <3>2, RecordSteps
  <2>2. ASSUME NEW q \in Proc, NEW r \in Record, Insert(q, r)
        PROVE  Edited(config[rec[p]], config'[rec[p]], verb[p], body[p])
    <3>1. q = p
      BY <2>0, <2>2 DEF Insert, Goto, Types
    <3>2. verb[p] = "copy"
      BY <1>1, <2>2, <3>1, JourneyAssumption DEF Insert, NewInv
    <3>3. rec[p] # r
      BY <1>1, <2>2, <3>2 DEF Insert, HeldInv, Reading
    <3>4. config'[rec[p]] = config[rec[p]]
      BY <2>0, <2>2, <3>3 DEF Insert, Types
    <3>5. DOMAIN body[p] = {}
      BY <1>1, <3>2 DEF NewInv, EmptyBody
    <3> QED
      BY <3>4, <3>5 DEF Edited, Has
  <2>3. ASSUME NEW q \in Proc, Update(q)
        PROVE  Edited(config[rec[p]], config'[rec[p]], verb[p], body[p])
    <3>1. q = p
      BY <2>0, <2>3 DEF Update, Goto, Types
    <3>2. /\ Visible(rec[p], user[p]) /\ verb[p] \in Edit
          /\ config' = [config EXCEPT ![rec[p]] = Overwrite(@, Planned(p))]
      BY <2>3, <3>1 DEF Update, Edit
    <3>3. config'[rec[p]] = Overwrite(config[rec[p]], Planned(p))
      BY <2>0, <3>2 DEF Types
    <3>4. Full(config[rec[p]])
      BY <1>1, <3>2 DEF Visible, IInv, RecordInv
    <3> QED
      BY <1>1, <3>2, <3>3, <3>4, UpdateEdits
  <2> QED
    BY <2>1, <2>2, <2>3
<1> HIDE DEF A
<1>2. IInv /\ HeldInv /\ FreshInv /\ NewInv /\ [Next]_vars => [A]_vars
  BY <1>1
<1>3. Init => FreshInv /\ NewInv
  BY DEF Init, FreshInv, NewInv, Reading
<1>4. IInv => Types
  BY DEF IInv
<1>5. Spec => [][A]_vars
  BY <1>2, <1>3, <1>4, NextFresh, NextNew, Invariance, PTL DEF Spec
<1> QED
  BY <1>5 DEF UnracedEditsApply, A

-------------------------------------------------------------------------------
(* The caps.                                                               *)

\* What is capped, and the requests that have been let through to make one more.
TemplatesOf(u) == {r \in Template : Visible(r, u)}
SavedOf(u)     == {x \in Alive : OwnerOf[x] = u}
Making(v, u)   == {p \in Proc : verb[p] = v /\ user[p] = u /\ pc[p] \in {"resolve", "save"}}

\* Among the rows and the requests for more, at most one request per slot has not been
\* counted.
Capped(S, M, max) == IsFiniteSet(S) /\ Cardinality(S) + Cardinality(M) < max + Cardinality(Proc)

CapInv ==
    \A u \in User : /\ Capped(TemplatesOf(u), Making("template", u), MaxTemplates)
                    /\ Capped(SavedOf(u), Making("passenger", u), MaxSaved)

\* What makes something new does not read a record.
CountedInv == \A p \in Proc : pc[p] \in {"load", "lists"} => verb[p] \notin {"template", "passenger"}

LEMMA CappedStep ==
  ASSUME NEW S, NEW M \in SUBSET Proc, NEW max \in Nat, Capped(S, M, max),
         NEW T, NEW N \in SUBSET Proc,
         \/ T \subseteq S /\ N \subseteq M
         \/ T = S /\ Cardinality(S) < max
  PROVE  Capped(T, N, max)
<1> DEFINE k == Cardinality(Proc)
<1>0. IsFiniteSet(Proc) /\ k \in Nat
  BY CapAssumption, FS_CardinalityType
<1>1. IsFiniteSet(S) /\ Cardinality(S) \in Nat /\ Cardinality(S) + Cardinality(M) < max + k
  BY FS_CardinalityType DEF Capped
<1>2. /\ IsFiniteSet(M) /\ Cardinality(M) \in Nat
      /\ IsFiniteSet(N) /\ Cardinality(N) \in Nat /\ Cardinality(N) <= k
  BY <1>0, FS_Subset, FS_CardinalityType
<1> HIDE DEF k
<1>3. CASE T \subseteq S /\ N \subseteq M
  <2>1. IsFiniteSet(T) /\ Cardinality(T) <= Cardinality(S)
    BY <1>1, <1>3, FS_Subset
  <2>2. Cardinality(N) <= Cardinality(M)
    BY <1>2, <1>3, FS_Subset
  <2>3. Cardinality(T) \in Nat
    BY <2>1, FS_CardinalityType
  <2> QED
    BY <1>0, <1>1, <1>2, <2>1, <2>2, <2>3 DEF Capped, k
<1>4. CASE T = S /\ Cardinality(S) < max
  BY <1>0, <1>1, <1>2, <1>4 DEF Capped, k
<1> QED
  BY <1>3, <1>4

\* Only a count lets a request through.
LEMMA LetThrough ==
  ASSUME Types, CountedInv, [Next]_vars, NEW v \in {"template", "passenger"}, NEW u,
         NEW q \in Proc, verb'[q] = v, user'[q] = u, pc'[q] \in {"resolve", "save"},
         q \notin Making(v, u)
  PROVE  Count(q) /\ verb[q] = v /\ user[q] = u
<1> USE DEF Types
<1>1. ASSUME UNCHANGED <<pc, verb, user>> PROVE FALSE
  BY <1>1 DEF Making
<1>2. ASSUME NEW p \in Proc, NEW w, Arrive(p, w)
      PROVE  FALSE
  <2>1. pc'[p] \in {"load", "count"} \/ (pc'[p] = "resolve" /\ verb'[p] = "journey")
    BY <1>2 DEF Arrive, Ask, Goto, PostJourney, PostTemplate, PostPassenger,
       PatchJourney, PatchTemplate, PutList, AddItem, DropItem, Duplicate, FromTemplate
  <2>2. \A o \in Proc \ {p} : pc'[o] = pc[o] /\ verb'[o] = verb[o] /\ user'[o] = user[o]
    BY <1>2 DEF Arrive, Ask, Goto, PostJourney, PostTemplate, PostPassenger,
       PatchJourney, PatchTemplate, PutList, AddItem, DropItem, Duplicate, FromTemplate
  <2> QED
    BY <2>1, <2>2 DEF Making
<1>3. ASSUME NEW p \in Proc, Step(p), ~Count(p), ~Return(p)
      PROVE  FALSE
  <2>1. UNCHANGED <<verb, user>> /\ \A o \in Proc \ {p} : pc'[o] = pc[o]
    BY <1>3 DEF Step, Load, ReadList, Decide, Resolve, Insert, Update, SavePassenger, Fail, Goto, local
  <2>2. pc'[p] \in {"resolve", "save"} => pc[p] \in {"lists", "resolve"}
    BY <1>3 DEF Step, Load, ReadList, Decide, Resolve, Insert, Update, SavePassenger, Fail, Goto, local
  <2> QED
    BY <2>1, <2>2 DEF Making, CountedInv
<1>4. ASSUME NEW p \in Proc, Return(p)
      PROVE  FALSE
  <2>1. pc'[p] = "idle"
        /\ \A o \in Proc \ {p} : pc'[o] = pc[o] /\ verb'[o] = verb[o] /\ user'[o] = user[o]
    BY <1>4 DEF Return, Goto
  <2> QED
    BY <2>1 DEF Making
<1>5. ASSUME NEW p \in Proc, Count(p)
      PROVE  Count(q) /\ verb[q] = v /\ user[q] = u
  <2>1. UNCHANGED <<verb, user>> /\ \A o \in Proc \ {p} : pc'[o] = pc[o]
    BY <1>5 DEF Count, Goto, local
  <2> QED
    BY <1>5, <2>1 DEF Making
<1>6. ASSUME NEW w, NEW r, DeleteJourney(w, r) \/ DeleteTemplate(w, r) \/ RemovePassenger(r)
      PROVE  FALSE
  BY <1>1, <1>6 DEF DeleteJourney, DeleteTemplate, Delete, RemovePassenger, local
<1> QED
  BY <1>1, <1>2, <1>3, <1>4, <1>5, <1>6 DEF Next, vars, local

\* One more row, by one of the requests that were on their way.
Made(S, M, T, N, x, p) == T \subseteq S \cup {x} /\ p \in M /\ N \subseteq M \ {p}

LEMMA OneMore ==
  ASSUME NEW S, NEW M \in SUBSET Proc, NEW max \in Nat, Capped(S, M, max),
         NEW T, NEW N \in SUBSET Proc, NEW x, NEW p, Made(S, M, T, N, x, p)
  PROVE  Capped(T, N, max)
<1> DEFINE k == Cardinality(Proc)
           U == S \cup {x}
           L == M \ {p}
<1>0. IsFiniteSet(Proc) /\ k \in Nat
  BY CapAssumption, FS_CardinalityType
<1>1. IsFiniteSet(S) /\ Cardinality(S) \in Nat /\ Cardinality(S) + Cardinality(M) < max + k
  BY FS_CardinalityType DEF Capped
<1>2. IsFiniteSet(M) /\ Cardinality(M) \in Nat /\ IsFiniteSet(N) /\ Cardinality(N) \in Nat
  BY <1>0, FS_Subset, FS_CardinalityType
<1>3. IsFiniteSet(U) /\ Cardinality(U) = IF x \in S THEN Cardinality(S) ELSE Cardinality(S) + 1
  BY ONLY <1>1, FS_AddElement
<1>4. IsFiniteSet(L) /\ Cardinality(L) = Cardinality(M) - 1
  BY <1>2, FS_RemoveElement DEF Made
<1> HIDE DEF k, U, L
<1>5. IsFiniteSet(T) /\ Cardinality(T) \in Nat /\ Cardinality(T) <= Cardinality(U)
  BY <1>3, FS_Subset, FS_CardinalityType DEF U, Made
<1>6. Cardinality(N) <= Cardinality(L)
  BY <1>4, FS_Subset DEF L, Made
<1> QED
  BY <1>0, <1>1, <1>2, <1>3, <1>4, <1>5, <1>6 DEF Capped, k

\* A new template or passenger is made by a request that was let through.
LEMMA NewTemplate ==
  ASSUME Types, [Next]_vars, NEW u \in User, NEW r \in TemplatesOf(u)', r \notin TemplatesOf(u)
  PROVE  \E p \in Making("template", u) :
            p \notin Making("template", u)' /\ TemplatesOf(u)' \subseteq TemplatesOf(u) \cup {r}
<1>0. status'[r] = "live" /\ owner'[r] = u /\ r \in Template
  BY DEF TemplatesOf, Visible
<1>1. ASSUME UNCHANGED <<status, owner>> PROVE FALSE
  BY <1>0, <1>1 DEF TemplatesOf, Visible
<1>2. ASSUME NEW v, NEW t, Delete(v, t) PROVE FALSE
  BY <1>0, <1>2 DEF Delete, Types, TemplatesOf, Visible
<1>3. PICK p \in Proc, t \in Record : Insert(p, t)
  BY <1>1, <1>2, RecordSteps DEF table, Update
<1>4. /\ status' = [status EXCEPT ![t] = "live"] /\ owner' = [owner EXCEPT ![t] = user[p]]
      /\ pc[p] = "save" /\ pc'[p] = "done"
      /\ verb[p] = "template" \/ t \in Journey
  BY <1>3 DEF Insert, Goto, Types
<1>5. t = r /\ user[p] = u
  BY <1>0, <1>4 DEF Types, TemplatesOf, Visible, Record
<1>6. verb[p] = "template"
  BY <1>0, <1>4, <1>5, JourneyAssumption
<1>7. p \in Making("template", u) /\ p \notin Making("template", u)'
  BY <1>4, <1>5, <1>6 DEF Making
<1>8. TemplatesOf(u)' \subseteq TemplatesOf(u) \cup {r}
  BY <1>4, <1>5 DEF Types, TemplatesOf, Visible, Record
<1> QED
  BY <1>7, <1>8

LEMMA NewPassenger ==
  ASSUME Types, [Next]_vars, NEW u \in User, NEW x \in SavedOf(u)', x \notin SavedOf(u)
  PROVE  \E p \in Making("passenger", u) :
            p \notin Making("passenger", u)' /\ SavedOf(u)' \subseteq SavedOf(u) \cup {x}
<1>0. saved'[x] = "saved" /\ saved[x] # "saved" /\ OwnerOf[x] = u /\ x \in Passenger
  BY DEF SavedOf, Alive
<1>1. ASSUME UNCHANGED saved PROVE FALSE
  BY <1>0, <1>1
<1>2. ASSUME NEW y \in Passenger, RemovePassenger(y) PROVE FALSE
  BY <1>0, <1>2 DEF RemovePassenger, Types
<1>3. ASSUME NEW p \in Proc, NEW w, Arrive(p, w) PROVE UNCHANGED saved
  BY <1>3 DEF Arrive, Ask, PostJourney, PostTemplate, PostPassenger,
     PatchJourney, PatchTemplate, PutList, AddItem, DropItem, Duplicate, FromTemplate
<1>4. ASSUME NEW p \in Proc, Step(p), \A y \in Passenger : ~SavePassenger(p, y)
      PROVE  UNCHANGED saved
  BY <1>4 DEF Step, Load, ReadList, Decide, Resolve, Count, Insert, Update, Fail, Return
<1>5. PICK p \in Proc, y \in Passenger : SavePassenger(p, y)
  BY <1>1, <1>2, <1>3, <1>4 DEF Next, DeleteJourney, DeleteTemplate, Delete, vars
<1>6. /\ saved' = [saved EXCEPT ![y] = "saved"] /\ OwnerOf[y] = user[p]
      /\ pc[p] = "save" /\ pc'[p] = "done" /\ verb[p] = "passenger"
  BY <1>5 DEF SavePassenger, Goto, Types
<1>7. y = x /\ user[p] = u
  BY <1>0, <1>6 DEF Types
<1>8. p \in Making("passenger", u) /\ p \notin Making("passenger", u)'
  BY <1>6, <1>7 DEF Making
<1>9. SavedOf(u)' \subseteq SavedOf(u) \cup {x}
  BY <1>6, <1>7 DEF Types, SavedOf, Alive
<1> QED
  BY <1>8, <1>9

LEMMA NextCap == Types /\ CountedInv /\ CapInv /\ [Next]_vars => CapInv'
<1> SUFFICES ASSUME Types, CountedInv, CapInv, [Next]_vars, NEW u \in User
             PROVE  /\ Capped(TemplatesOf(u)', Making("template", u)', MaxTemplates)
                    /\ Capped(SavedOf(u)', Making("passenger", u)', MaxSaved)
  BY DEF CapInv, Capped
<1>0. /\ Capped(TemplatesOf(u), Making("template", u), MaxTemplates) /\ MaxTemplates \in Nat
      /\ Capped(SavedOf(u), Making("passenger", u), MaxSaved) /\ MaxSaved \in Nat
      /\ \A v : Making(v, u) \in SUBSET Proc /\ Making(v, u)' \in SUBSET Proc
  BY JourneyAssumption DEF CapInv, Making
<1>1. ASSUME NEW v \in {"template", "passenger"}, NEW q \in Making(v, u)', q \notin Making(v, u)
      PROVE  Count(q) /\ verb[q] = v /\ user[q] = u /\ q \in Proc /\ pc'[q] \in {"resolve", "save"}
  <2>1. q \in Proc /\ verb'[q] = v /\ user'[q] = u /\ pc'[q] \in {"resolve", "save"}
    BY <1>1 DEF Making
  <2> QED
    BY <1>1, <2>1, LetThrough
<1>2. Capped(TemplatesOf(u)', Making("template", u)', MaxTemplates)
  <2>1. CASE Making("template", u)' \subseteq Making("template", u)
    <3>1. CASE TemplatesOf(u)' \subseteq TemplatesOf(u)
      BY <1>0, <2>1, <3>1, CappedStep
    <3>2. CASE \E r \in TemplatesOf(u)' : r \notin TemplatesOf(u)
      <4>1. PICK r \in TemplatesOf(u)' : r \notin TemplatesOf(u)
        BY <3>2
      <4>2. PICK p \in Making("template", u) :
               p \notin Making("template", u)' /\ TemplatesOf(u)' \subseteq TemplatesOf(u) \cup {r}
        BY <4>1, NewTemplate
      <4>3. Making("template", u)' \subseteq Making("template", u) \ {p}
        BY <2>1, <4>2
      <4> DEFINE S == TemplatesOf(u)
                 T == TemplatesOf(u)'
                 M == Making("template", u)
                 N == Making("template", u)'
      <4>4. /\ Capped(S, M, MaxTemplates) /\ MaxTemplates \in Nat
            /\ M \in SUBSET Proc /\ N \in SUBSET Proc
            /\ Made(S, M, T, N, r, p)
        BY <1>0, <4>2, <4>3 DEF Made
      <4> HIDE DEF S, T, M, N
      <4>5. Capped(T, N, MaxTemplates)
        BY ONLY <4>4, OneMore
      <4> QED
        BY <4>5 DEF T, N
    <3> QED
      BY <3>1, <3>2
  <2>2. CASE \E q \in Making("template", u)' : q \notin Making("template", u)
    <3>1. PICK q \in Making("template", u)' : q \notin Making("template", u)
      BY <2>2
    <3>2. Count(q) /\ verb[q] = "template" /\ user[q] = u /\ pc'[q] \in {"resolve", "save"} /\ q \in Proc
      BY <1>1, <3>1
    <3>3. ~(Cardinality(TemplatesOf(u)) >= MaxTemplates)
      BY <3>2 DEF Count, Goto, Types, TemplatesOf
    <3>4. TemplatesOf(u)' = TemplatesOf(u)
      BY <3>2 DEF Count, table, TemplatesOf, Visible
    <3>5. Cardinality(TemplatesOf(u)) < MaxTemplates
      BY <1>0, <3>3, FS_CardinalityType DEF Capped
    <3> QED
      BY <1>0, <3>4, <3>5, CappedStep
  <2> QED
    BY <2>1, <2>2
<1>3. Capped(SavedOf(u)', Making("passenger", u)', MaxSaved)
  <2>1. CASE Making("passenger", u)' \subseteq Making("passenger", u)
    <3>1. CASE SavedOf(u)' \subseteq SavedOf(u)
      BY <1>0, <2>1, <3>1, CappedStep
    <3>2. CASE \E x \in SavedOf(u)' : x \notin SavedOf(u)
      <4>1. PICK x \in SavedOf(u)' : x \notin SavedOf(u)
        BY <3>2
      <4>2. PICK p \in Making("passenger", u) :
               p \notin Making("passenger", u)' /\ SavedOf(u)' \subseteq SavedOf(u) \cup {x}
        BY <4>1, NewPassenger
      <4>3. Making("passenger", u)' \subseteq Making("passenger", u) \ {p}
        BY <2>1, <4>2
      <4> DEFINE S == SavedOf(u)
                 T == SavedOf(u)'
                 M == Making("passenger", u)
                 N == Making("passenger", u)'
      <4>4. /\ Capped(S, M, MaxSaved) /\ MaxSaved \in Nat
            /\ M \in SUBSET Proc /\ N \in SUBSET Proc
            /\ Made(S, M, T, N, x, p)
        BY <1>0, <4>2, <4>3 DEF Made
      <4> HIDE DEF S, T, M, N
      <4>5. Capped(T, N, MaxSaved)
        BY ONLY <4>4, OneMore
      <4> QED
        BY <4>5 DEF T, N
    <3> QED
      BY <3>1, <3>2
  <2>2. CASE \E q \in Making("passenger", u)' : q \notin Making("passenger", u)
    <3>1. PICK q \in Making("passenger", u)' : q \notin Making("passenger", u)
      BY <2>2
    <3>2. Count(q) /\ verb[q] = "passenger" /\ user[q] = u /\ pc'[q] \in {"resolve", "save"} /\ q \in Proc
      BY <1>1, <3>1
    <3>3. ~(Cardinality(SavedOf(u)) >= MaxSaved)
      BY <3>2 DEF Count, Goto, Types, SavedOf
    <3>4. SavedOf(u)' = SavedOf(u)
      BY <3>2 DEF Count, SavedOf, Alive
    <3>5. Cardinality(SavedOf(u)) < MaxSaved
      BY <1>0, <3>3, FS_CardinalityType DEF Capped
    <3> QED
      BY <1>0, <3>4, <3>5, CappedStep
  <2> QED
    BY <2>1, <2>2
<1> QED
  BY <1>2, <1>3

LEMMA NextCounted == Types /\ CountedInv /\ [Next]_vars => CountedInv'
<1> SUFFICES ASSUME Types, CountedInv, [Next]_vars, NEW q \in Proc, pc'[q] \in {"load", "lists"}
             PROVE  verb'[q] \notin {"template", "passenger"}
  BY DEF CountedInv
<1> USE DEF Types
<1>1. ASSUME verb'[q] = verb[q], pc[q] \in {"load", "lists"}
      PROVE  verb'[q] \notin {"template", "passenger"}
  BY <1>1 DEF CountedInv
<1>2. ASSUME NEW p \in Proc, NEW w, Arrive(p, w)
      PROVE  verb'[q] \notin {"template", "passenger"}
  <2>1. pc'[p] = "load" => verb'[p] \in {"patch", "put", "add", "drop", "copy"}
    BY <1>2 DEF Arrive, Ask, Goto, PostJourney, PostTemplate, PostPassenger,
       PatchJourney, PatchTemplate, PutList, AddItem, DropItem, Duplicate, FromTemplate
  <2>2. pc'[p] \in {"load", "count", "resolve"}
        /\ \A o \in Proc \ {p} : pc'[o] = pc[o] /\ verb'[o] = verb[o]
    BY <1>2 DEF Arrive, Ask, Goto, PostJourney, PostTemplate, PostPassenger,
       PatchJourney, PatchTemplate, PutList, AddItem, DropItem, Duplicate, FromTemplate
  <2> QED
    BY <1>1, <2>1, <2>2
<1>3. ASSUME NEW p \in Proc, Step(p), ~Return(p)
      PROVE  verb'[q] \notin {"template", "passenger"}
  <2>1. UNCHANGED verb /\ \A o \in Proc \ {p} : pc'[o] = pc[o]
    BY <1>3 DEF Step, Load, ReadList, Decide, Resolve, Count, Insert, Update, SavePassenger, Fail,
       Goto, local
  <2>2. pc'[p] \in {"load", "lists"} => pc[p] \in {"load", "lists"}
    BY <1>3 DEF Step, Load, ReadList, Decide, Resolve, Count, Insert, Update, SavePassenger, Fail,
       Goto, local
  <2> QED
    BY <1>1, <2>1, <2>2
<1>4. ASSUME NEW p \in Proc, Return(p)
      PROVE  verb'[q] \notin {"template", "passenger"}
  <2>1. pc'[p] = "idle" /\ \A o \in Proc \ {p} : pc'[o] = pc[o] /\ verb'[o] = verb[o]
    BY <1>4 DEF Return, Goto
  <2> QED
    BY <1>1, <2>1
<1>5. CASE UNCHANGED <<pc, verb>>
  BY <1>1, <1>5
<1> QED
  BY <1>2, <1>3, <1>4, <1>5
  DEF Next, DeleteJourney, DeleteTemplate, Delete, RemovePassenger, vars, local

\* The caps are counted before the insert, not with it (templates.routes.ts:41): requests
\* pass them together, but by less than one row for each request at a time.
THEOREM CapsHold == Spec => []CapsHoldUpToConcurrency
<1>1. Init => CountedInv /\ CapInv
  <2> SUFFICES ASSUME Init, NEW u \in User
               PROVE  /\ CountedInv
                      /\ Capped(TemplatesOf(u), Making("template", u), MaxTemplates)
                      /\ Capped(SavedOf(u), Making("passenger", u), MaxSaved)
    BY DEF CapInv, CountedInv, Init
  <2>1. /\ CountedInv /\ TemplatesOf(u) = {}
        /\ Making("template", u) = {} /\ Making("passenger", u) = {}
    BY DEF Init, CountedInv, TemplatesOf, Visible, Record, Making
  <2>2. SavedOf(u) = {} \/ SavedOf(u) \subseteq {x \in Earlier : OwnerOf[x] = u}
    BY DEF Init, SavedOf, Alive
  <2>3. IsFiniteSet({}) /\ Cardinality({}) = 0
    BY FS_EmptySet
  <2>4. Cardinality(Proc) \in Nat /\ Cardinality(Proc) # 0 /\ MaxTemplates \in Nat /\ MaxSaved \in Nat
    BY CapAssumption, JourneyAssumption, FS_CardinalityType, FS_EmptySet
  <2>5. Capped({}, {}, MaxTemplates) /\ Capped({}, {}, MaxSaved)
    BY <2>3, <2>4 DEF Capped
  <2>6. ASSUME SavedOf(u) \subseteq {x \in Earlier : OwnerOf[x] = u}
        PROVE  Capped(SavedOf(u), {}, MaxSaved)
    <3> DEFINE E == {x \in Earlier : OwnerOf[x] = u}
    <3>1. IsFiniteSet(E) /\ Cardinality(E) < MaxSaved + Cardinality(Proc)
      BY CapAssumption
    <3> HIDE DEF E
    <3>2. IsFiniteSet(SavedOf(u)) /\ Cardinality(SavedOf(u)) <= Cardinality(E)
      BY <2>6, <3>1, FS_Subset DEF E
    <3>3. Cardinality(SavedOf(u)) \in Nat /\ Cardinality(E) \in Nat
      BY <3>1, <3>2, FS_CardinalityType
    <3> QED
      BY <2>3, <2>4, <3>1, <3>2, <3>3 DEF Capped
  <2> QED
    BY <2>1, <2>2, <2>5, <2>6
<1>2. Types /\ CapInv => CapsHoldUpToConcurrency
  <2> SUFFICES ASSUME CapInv, NEW u \in User
               PROVE  /\ Cardinality(TemplatesOf(u)) < MaxTemplates + Cardinality(Proc)
                      /\ Cardinality(SavedOf(u)) < MaxSaved + Cardinality(Proc)
    BY DEF CapsHoldUpToConcurrency, TemplatesOf, SavedOf
  <2>1. ASSUME NEW S, NEW M \in SUBSET Proc, NEW max \in Nat, Capped(S, M, max)
        PROVE  Cardinality(S) < max + Cardinality(Proc)
    <3>1. Cardinality(S) \in Nat /\ Cardinality(M) \in Nat /\ Cardinality(Proc) \in Nat
      BY <2>1, CapAssumption, FS_Subset, FS_CardinalityType DEF Capped
    <3> QED
      BY <2>1, <3>1 DEF Capped
  <2>2. Making("template", u) \in SUBSET Proc /\ Making("passenger", u) \in SUBSET Proc
    BY DEF Making
  <2> QED
    BY <2>1, <2>2, JourneyAssumption DEF CapInv
<1>3. IInv => Types
  BY DEF IInv
<1> QED
  BY <1>1, <1>2, <1>3, NextCap, NextCounted, Invariance, PTL DEF Spec
=============================================================================
