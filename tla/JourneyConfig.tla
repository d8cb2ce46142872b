----------------------------- MODULE JourneyConfig -----------------------------
(***************************************************************************)
(* Journeys, journey templates and saved passengers:                       *)
(* apps/api/src/modules/journeys and modules/passengers.                   *)
(*                                                                         *)
(* A handler reads the record it was asked to change, then the lists of    *)
(* the record, each with a SELECT of its own, decides, and writes in one   *)
(* transaction.  Between those steps other requests run, so what it has    *)
(* read may be stale when it writes.  The row lock of the first UPDATE     *)
(* makes a transaction one step.                                           *)
(*                                                                         *)
(* A journey and a template have the same configuration; a request names   *)
(* some of its fields.  Dates, the stations' and trains' existence and the *)
(* boolean options do not matter here: a request that a check of these     *)
(* refuses changes nothing, like one that is abandoned.                    *)
(***************************************************************************)
EXTENDS Integers, Sequences, FiniteSets

CONSTANTS
    User, NoUser,
    Journey, Template,         \* identities of rows
    NoRecord,
    Passenger, Train, Class,   \* the items of lists
    OwnerOf,                   \* the user of a passenger
    Station, NoStation, Quota,
    DefaultQuota, DefaultClasses,   \* JOURNEY_DEFAULTS, DEFAULT_CLASS_PRIORITY
    Limit,        \* passengers per booking, from the rule of each quota
    MaxTrains,    \* MAX_PREFERRED_TRAINS
    MaxPassengers,             \* MAX_JOURNEY_PASSENGERS
    MaxTemplates, \* MAX_JOURNEY_TEMPLATES
    MaxSaved,     \* MAX_SAVED_PASSENGERS
    Proc,         \* request slots
    Earlier,      \* passengers that may have been saved before
    Mix           \* who asks for what: records of users, verbs, bodies and rows

Record == Journey \cup Template

ASSUME JourneyAssumption ==
    /\ NoUser \notin User /\ NoStation \notin Station /\ NoRecord \notin Record
    /\ Journey \cap Template = {}
    /\ DefaultQuota \in Quota /\ DefaultClasses \in Seq(Class) /\ DefaultClasses # <<>>
    /\ \A i, j \in 1..Len(DefaultClasses) : DefaultClasses[i] = DefaultClasses[j] => i = j
    /\ OwnerOf \in [Passenger -> User]
    /\ Limit \in [Quota -> Nat] /\ MaxTrains \in Nat /\ MaxPassengers \in Nat
    /\ MaxTemplates \in Nat /\ MaxSaved \in Nat
    /\ \A m \in Mix : m.users \subseteq User

\* A bounded number of requests at a time; nobody begins with more than they can save.
ASSUME CapAssumption ==
    /\ IsFiniteSet(Proc) /\ Proc # {}
    /\ \A u \in User :
          /\ IsFiniteSet({x \in Earlier : OwnerOf[x] = u})
          /\ Cardinality({x \in Earlier : OwnerOf[x] = u}) < MaxSaved + Cardinality(Proc)

\* Lists without duplicates: array order is the priority.
List(S) == {s \in Seq(S) : \A i, j \in 1..Len(s) : s[i] = s[j] => i = j}
Items(s) == {s[i] : i \in 1..Len(s)}

ListOf == [passengers |-> Passenger, trains |-> Train, classes |-> Class]
ListName == {"passengers", "trains", "classes"}
Place  == {"from", "to", "boarding"}
Field  == Place \cup {"quota"} \cup ListName

Config == [from : Station, to : Station, boarding : Station \cup {NoStation},
           quota : Quota, passengers : List(Passenger), trains : List(Train),
           classes : List(Class)]

VARIABLES
    mix,        \* what the requests of this behaviour ask for; it never changes
    status, owner, config,      \* rows of journeys and of templates
    saved,      \* rows of passengers: "absent", "saved" or "removed"
    pc, verb, user, rec,        \* where a request is, what it does, whose, to what
    body,       \* what it asks for
    unread,     \* the lists it has still to read
    seen,       \* what it has read
    stale,      \* history: the record has changed since it began to read
    raced,      \* history: records a stale request has written
    gone        \* history: the passengers already removed when it arrived

table == <<status, owner, config>>
local == <<verb, user, rec, body, unread, seen, stale, gone>>
vars  == <<mix, table, saved, pc, local, raced>>

Verb == {"journey", "template", "copy", "patch", "put", "add", "drop", "passenger"}
PC   == {"idle", "count", "load", "lists", "resolve", "save", "done"}

EmptyBody == [f \in {} |-> 0]

Init ==
    /\ mix \in Mix
    /\ status = [r \in Record |-> "absent"] /\ owner = [r \in Record |-> NoUser]
    /\ config = [r \in Record |-> EmptyBody]
    /\ \E S \in {{}, Earlier} :
          saved = [x \in Passenger |-> IF x \in S THEN "saved" ELSE "absent"]
    /\ pc = [p \in Proc |-> "idle"] /\ verb = [p \in Proc |-> "journey"]
    /\ user = [p \in Proc |-> NoUser] /\ rec = [p \in Proc |-> NoRecord]
    /\ body = [p \in Proc |-> EmptyBody] /\ unread = [p \in Proc |-> {}]
    /\ seen = [p \in Proc |-> EmptyBody]
    /\ stale = [p \in Proc |-> FALSE] /\ gone = [p \in Proc |-> {}]
    /\ raced = {}

-------------------------------------------------------------------------------
(* What the schemas and the service require.                               *)

Has(b, f) == f \in DOMAIN b

\* checkRoute: only the fields that were sent are compared.
CheckRoute(b) ==
    /\ Has(b, "from") /\ Has(b, "to") => b.from # b.to
    /\ Has(b, "boarding") /\ Has(b, "to") => b.boarding # b.to

\* configFields and the schemas built from it.
Parses(b) ==
    /\ CheckRoute(b)
    /\ Has(b, "from") => b.from \in Station
    /\ Has(b, "to") => b.to \in Station
    /\ Has(b, "boarding") => b.boarding \in Station \cup {NoStation}
    /\ Has(b, "quota") => b.quota \in Quota
    /\ Has(b, "passengers") => b.passengers \in List(Passenger) /\ Len(b.passengers) <= MaxPassengers
    /\ Has(b, "trains") => b.trains \in List(Train) /\ Len(b.trains) <= MaxTrains
    /\ Has(b, "classes") => b.classes \in List(Class) /\ b.classes # <<>>

\* Boarding at the origin is no separate boarding point.
NormaliseBoarding(from, boarding) == IF boarding = from THEN NoStation ELSE boarding

Sent(b, f, default) == IF Has(b, f) THEN b[f] ELSE default

\* The input schemas of POST: what is not sent gets its default.
WithDefaults(b) ==
    [from |-> b.from, to |-> b.to,
     boarding |-> NormaliseBoarding(b.from, Sent(b, "boarding", NoStation)),
     quota |-> Sent(b, "quota", DefaultQuota),
     passengers |-> Sent(b, "passengers", <<>>), trains |-> Sent(b, "trains", <<>>),
     classes |-> Sent(b, "classes", DefaultClasses)]

RouteValid(c) == c.from # c.to /\ c.boarding \notin {c.from, c.to}

\* The lists without one item, which leaves no gap.
Without(s, x) ==
    LET k == CHOOSE i \in 1..Len(s) : s[i] = x
    IN [i \in 1..(Len(s) - 1) |-> IF i < k THEN s[i] ELSE s[i + 1]]

SubLists(s) == UNION {[1..n -> Items(s)] : n \in 0..Len(s)}

\* t is s without the items that are not in S.
IsFilter(t, s, S) ==
    /\ Items(t) = Items(s) \cap S
    /\ \A i, j \in 1..Len(t) : i < j =>
          \E k, l \in 1..Len(s) : k < l /\ s[k] = t[i] /\ s[l] = t[j]

-------------------------------------------------------------------------------
(* A request arrives.                                                      *)

Goto(p, l) == pc' = [pc EXCEPT ![p] = l]

Ask(p, v, u, r, b, l) ==
    /\ pc[p] = "idle" /\ v \in mix.verbs
    /\ Goto(p, l)
    /\ verb' = [verb EXCEPT ![p] = v]
    /\ user' = [user EXCEPT ![p] = u]
    /\ rec' = [rec EXCEPT ![p] = r]
    /\ body' = [body EXCEPT ![p] = b]
    /\ unread' = [unread EXCEPT ![p] = {}]
    /\ seen' = [seen EXCEPT ![p] = EmptyBody]
    /\ stale' = [stale EXCEPT ![p] = FALSE]
    /\ gone' = [gone EXCEPT ![p] = {x \in Passenger : saved[x] = "removed"}]
    /\ UNCHANGED <<mix, table, saved, raced>>

\* POST /api/journeys: a journey starts with a passenger.
PostJourney(p, u, b) ==
    /\ {"from", "to", "passengers"} \subseteq DOMAIN b /\ b.passengers # <<>> /\ Parses(b)
    /\ Ask(p, "journey", u, NoRecord, WithDefaults(b), "resolve")

\* POST /api/journey-templates.
PostTemplate(p, u, b) ==
    /\ {"from", "to"} \subseteq DOMAIN b /\ Parses(b)
    /\ Ask(p, "template", u, NoRecord, WithDefaults(b), "count")

\* PATCH: any of the fields.
PatchJourney(p, u, r, b)  == r \in Journey /\ Parses(b) /\ Ask(p, "patch", u, r, b, "load")
PatchTemplate(p, u, r, b) == r \in Template /\ Parses(b) /\ Ask(p, "patch", u, r, b, "load")

\* PUT, POST and DELETE of the items of one list.
PutList(p, u, r, b) ==
    /\ \E l \in ListName : DOMAIN b = {l}
    /\ Parses(b)
    /\ Ask(p, "put", u, r, b, "load")

OneItem(b) == \E l \in ListName : DOMAIN b = {l} /\ \E x \in ListOf[l] : b[l] = <<x>>

AddItem(p, u, r, b)  == OneItem(b) /\ Ask(p, "add", u, r, b, "load")
DropItem(p, u, r, b) == OneItem(b) /\ Ask(p, "drop", u, r, b, "load")

\* POST /api/journeys/:id/duplicate and /api/journey-templates/:id/journeys: both
\* make a new journey.
Duplicate(p, u, r)    == r \in Journey /\ Ask(p, "copy", u, r, EmptyBody, "load")
FromTemplate(p, u, r) == r \in Template /\ Ask(p, "copy", u, r, EmptyBody, "load")

\* POST /api/passengers.
PostPassenger(p, u) == Ask(p, "passenger", u, NoRecord, EmptyBody, "count")

-------------------------------------------------------------------------------
(* It reads the record ...                                                 *)

Visible(r, u) == status[r] = "live" /\ owner[r] = u

\* The lists whose content it depends on.
Needs(v, b) == CASE v = "copy" -> ListName
                 [] v = "patch" -> {"passengers"}
                 [] v \in {"add", "drop"} -> DOMAIN b
                 [] OTHER -> {}

\* findJourney, findTemplate: the row, if it is the user's and not deleted ...
Load(p) ==
    /\ pc[p] = "load"
    /\ \/ /\ Visible(rec[p], user[p])
          /\ seen' = [seen EXCEPT ![p] = [f \in Place \cup {"quota"} |-> config[rec[p]][f]]]
          /\ unread' = [unread EXCEPT ![p] = Needs(verb[p], body[p])]
          /\ Goto(p, "lists")
       \/ ~Visible(rec[p], user[p]) /\ Goto(p, "done") /\ UNCHANGED <<seen, unread>>
    /\ UNCHANGED <<mix, table, saved, verb, user, rec, body, stale, gone, raced>>

\* ... and its lists in any order.  A copy leaves out the passengers that are no
\* longer saved.
Extend(c, l, s) == [f \in DOMAIN c \cup {l} |-> IF f = l THEN s ELSE c[f]]

Alive == {x \in Passenger : saved[x] = "saved"}

\* Fault: a copy takes removed passengers along.
ReadList_all(p, l) ==
    /\ pc[p] = "lists" /\ l \in unread[p]
    /\ seen' = [seen EXCEPT ![p] = Extend(@, l, config[rec[p]][l])]
    /\ unread' = [unread EXCEPT ![p] = @ \ {l}]
    /\ UNCHANGED <<mix, table, saved, pc, verb, user, rec, body, stale, gone, raced>>

ReadList(p, l) ==
    /\ pc[p] = "lists" /\ l \in unread[p]
    /\ LET s == config[rec[p]][l] IN
       \/ /\ ~(verb[p] = "copy" /\ l = "passengers")
          /\ seen' = [seen EXCEPT ![p] = Extend(@, l, s)]
       \/ /\ verb[p] = "copy" /\ l = "passengers"
          /\ \E t \in SubLists(s) :
                /\ t \in List(Passenger) /\ IsFilter(t, s, Alive)
                /\ seen' = [seen EXCEPT ![p] = Extend(@, l, t)]
    /\ unread' = [unread EXCEPT ![p] = @ \ {l}]
    /\ UNCHANGED <<mix, table, saved, pc, verb, user, rec, body, stale, gone, raced>>

-------------------------------------------------------------------------------
(* ... decides ...                                                         *)

\* Fault: a PATCH writes only the places it was sent.
Planned_sentOnly(p) ==
    LET b == body[p]
        c == seen[p]
    IN CASE verb[p] \in {"journey", "template", "put"} -> b
         [] verb[p] = "copy" -> c
         [] verb[p] = "patch" -> b
         [] verb[p] = "add" -> [l \in DOMAIN b |-> Append(c[l], b[l][1])]
         [] verb[p] = "drop" -> [l \in DOMAIN b |-> Without(c[l], b[l][1])]

\* Fault: a PATCH without a quota resets it.
Planned_quota(p) ==
    LET b == body[p]
        c == seen[p]
        from == Sent(b, "from", c.from)
    IN CASE verb[p] \in {"journey", "template", "put"} -> b
         [] verb[p] = "copy" -> c
         [] verb[p] = "patch" ->
              [f \in Place \cup {"quota"} \cup DOMAIN b |->
                 IF f = "boarding" THEN NormaliseBoarding(from, Sent(b, f, c[f]))
                 ELSE IF f = "quota" THEN Sent(b, f, DefaultQuota)
                 ELSE IF Has(b, f) THEN b[f] ELSE c[f]]
         [] verb[p] = "add" -> [l \in DOMAIN b |-> Append(c[l], b[l][1])]
         [] verb[p] = "drop" -> [l \in DOMAIN b |-> Without(c[l], b[l][1])]

\* What will be written.  A PATCH always writes the whole route and the quota, as
\* merged with what was read.
Planned(p) ==
    LET b == body[p]
        c == seen[p]
        from == Sent(b, "from", c.from)
    IN CASE verb[p] \in {"journey", "template", "put"} -> b
         [] verb[p] = "copy" -> c
         [] verb[p] = "patch" ->
              [f \in Place \cup {"quota"} \cup DOMAIN b |->
                 IF f = "boarding" THEN NormaliseBoarding(from, Sent(b, f, c[f]))
                 ELSE IF Has(b, f) THEN b[f] ELSE c[f]]
         [] verb[p] = "add" -> [l \in DOMAIN b |-> Append(c[l], b[l][1])]
         [] verb[p] = "drop" -> [l \in DOMAIN b |-> Without(c[l], b[l][1])]

\* The 400, 404 and 409 of an edit.
Sensible(p) ==
    LET b == body[p] IN
    /\ verb[p] = "patch" =>
          LET to == Sent(b, "to", seen[p].to)
          IN to # Sent(b, "from", seen[p].from) /\ to # Sent(b, "boarding", seen[p].boarding)
    /\ verb[p] = "add" => \A l \in DOMAIN b :
          /\ b[l][1] \notin Items(seen[p][l])
          /\ l = "trains" => Len(seen[p][l]) < MaxTrains
    /\ verb[p] = "drop" => \A l \in DOMAIN b :
          /\ b[l][1] \in Items(seen[p][l])
          /\ l = "classes" => Len(seen[p][l]) # 1

\* assertPassengerLimit, where it is called.
Limited(p) ==
    \/ verb[p] \in {"journey", "template", "copy"}
    \/ verb[p] \in {"put", "add"} /\ Has(body[p], "passengers")
    \/ verb[p] = "patch" /\ (Has(body[p], "passengers") \/ Has(body[p], "quota"))

\* Fault: the limit is that of the quota the record had.
WithinLimit_oldQuota(p) ==
    (Limited(p) /\ verb[p] # "journey" /\ verb[p] # "template") =>
        Len(Sent(Planned(p), "passengers", seen[p].passengers)) <= Limit[seen[p].quota]

WithinLimit(p) ==
    Limited(p) =>
        LET quota == IF Has(Planned(p), "quota") THEN Planned(p).quota ELSE seen[p].quota
            list  == IF Has(Planned(p), "passengers") THEN Planned(p).passengers
                     ELSE seen[p].passengers
        IN Len(list) <= Limit[quota]

Resolves(p) == verb[p] # "drop" /\ Has(body[p], "passengers")

Decide(p) ==
    /\ pc[p] = "lists" /\ unread[p] = {}
    /\ Goto(p, IF ~Sensible(p) THEN "done"
               ELSE IF Resolves(p) THEN "resolve"
               ELSE IF WithinLimit(p) THEN "save" ELSE "done")
    /\ UNCHANGED <<mix, table, saved, local, raced>>

\* resolvePassengers: those that were sent are the user's and not removed.
Resolve(p) ==
    /\ pc[p] = "resolve"
    /\ Goto(p, IF /\ \A x \in Items(body[p].passengers) : x \in Alive /\ OwnerOf[x] = user[p]
                  /\ WithinLimit(p)
               THEN "save" ELSE "done")
    /\ UNCHANGED <<mix, table, saved, local, raced>>

\* Fault: one more than the cap is let through.
Count_late(p) ==
    /\ pc[p] = "count"
    /\ \/ /\ verb[p] = "template"
          /\ Goto(p, IF Cardinality({r \in Template : Visible(r, user[p])}) > MaxTemplates
                     THEN "done" ELSE "resolve")
       \/ verb[p] = "passenger" /\ Goto(p, "save")
    /\ UNCHANGED <<mix, table, saved, local, raced>>

\* The product caps on templates and on saved passengers.
Count(p) ==
    /\ pc[p] = "count"
    /\ \/ /\ verb[p] = "template"
          /\ Goto(p, IF Cardinality({r \in Template : Visible(r, user[p])}) >= MaxTemplates
                     THEN "done" ELSE "resolve")
       \/ /\ verb[p] = "passenger"
          /\ Goto(p, IF Cardinality({x \in Alive : OwnerOf[x] = user[p]}) >= MaxSaved
                     THEN "done" ELSE "save")
    /\ UNCHANGED <<mix, table, saved, local, raced>>

-------------------------------------------------------------------------------
(* ... and writes.                                                         *)

\* Others that have begun to read r now hold something old.
Outdates(p, r) ==
    stale' = [q \in Proc |-> stale[q] \/ (q # p /\ rec[q] = r /\ pc[q] \in {"lists", "resolve", "save"})]

\* The transaction of a new journey or template.
Insert(p, r) ==
    /\ pc[p] = "save" /\ verb[p] \in {"journey", "template", "copy"}
    /\ status[r] = "absent" /\ r \in mix.rows /\ r \in IF verb[p] = "template" THEN Template ELSE Journey
    /\ status' = [status EXCEPT ![r] = "live"]
    /\ owner' = [owner EXCEPT ![r] = user[p]]
    /\ config' = [config EXCEPT ![r] = Planned(p)]
    /\ Goto(p, "done")
    /\ UNCHANGED <<mix, saved, local, raced>>

Overwrite(c, b) == [f \in DOMAIN c |-> IF Has(b, f) THEN b[f] ELSE c[f]]

\* The transaction of an edit looks for the record again, takes its row lock and
\* replaces the fields and lists it was given.
Update(p) ==
    LET r == rec[p] IN
    /\ pc[p] = "save" /\ verb[p] \in {"patch", "put", "add", "drop"}
    /\ \/ /\ Visible(r, user[p])
          /\ config' = [config EXCEPT ![r] = Overwrite(@, Planned(p))]
          /\ raced' = IF stale[p] THEN raced \cup {r} ELSE raced
          /\ Outdates(p, r)
       \/ ~Visible(r, user[p]) /\ UNCHANGED <<config, raced, stale>>
    /\ Goto(p, "done")
    /\ UNCHANGED <<mix, status, owner, saved, verb, user, rec, body, unread, seen, gone>>

\* A soft delete.
Delete(u, r) ==
    /\ "remove" \in mix.verbs /\ Visible(r, u)
    /\ status' = [status EXCEPT ![r] = "deleted"]
    /\ stale' = [q \in Proc |-> stale[q] \/ (rec[q] = r /\ pc[q] \in {"lists", "resolve", "save"})]
    /\ UNCHANGED <<mix, owner, config, saved, pc, verb, user, rec, body, unread, seen, gone, raced>>

DeleteJourney(u, r)  == r \in Journey /\ Delete(u, r)
DeleteTemplate(u, r) == r \in Template /\ Delete(u, r)

SavePassenger(p, x) ==
    /\ pc[p] = "save" /\ verb[p] = "passenger"
    /\ saved[x] = "absent" /\ OwnerOf[x] = user[p]
    /\ saved' = [saved EXCEPT ![x] = "saved"]
    /\ Goto(p, "done")
    /\ UNCHANGED <<mix, table, local, raced>>

\* DELETE of a passenger: journeys and templates keep it in their lists.
RemovePassenger(x) ==
    /\ "forget" \in mix.verbs /\ OwnerOf[x] \in mix.users /\ saved[x] = "saved"
    /\ saved' = [saved EXCEPT ![x] = "removed"]
    /\ UNCHANGED <<mix, table, pc, local, raced>>

\* The request is refused by a check that is not modelled, fails or is abandoned.
Fail(p) ==
    /\ pc[p] \notin {"idle", "done"}
    /\ Goto(p, "done")
    /\ UNCHANGED <<mix, table, saved, local, raced>>

Return(p) ==
    /\ pc[p] = "done"
    /\ Goto(p, "idle")
    /\ verb' = [verb EXCEPT ![p] = "journey"]
    /\ user' = [user EXCEPT ![p] = NoUser]
    /\ rec' = [rec EXCEPT ![p] = NoRecord]
    /\ body' = [body EXCEPT ![p] = EmptyBody]
    /\ unread' = [unread EXCEPT ![p] = {}]
    /\ seen' = [seen EXCEPT ![p] = EmptyBody]
    /\ stale' = [stale EXCEPT ![p] = FALSE]
    /\ gone' = [gone EXCEPT ![p] = {}]
    /\ UNCHANGED <<mix, table, saved, raced>>

-------------------------------------------------------------------------------
Arrive(p, u) ==
    \/ PostPassenger(p, u)
    \/ \E b \in mix.bodies : PostJourney(p, u, b) \/ PostTemplate(p, u, b)
    \/ \E r \in Record :
          /\ status[r] # "absent"
          /\ \/ Duplicate(p, u, r) \/ FromTemplate(p, u, r)
             \/ \E b \in mix.bodies :
                   \/ PatchJourney(p, u, r, b) \/ PatchTemplate(p, u, r, b)
                   \/ PutList(p, u, r, b) \/ AddItem(p, u, r, b) \/ DropItem(p, u, r, b)

Step(p) ==
    \/ Load(p) \/ \E l \in ListName : ReadList(p, l)
    \/ Decide(p) \/ Resolve(p) \/ Count(p)
    \/ \E r \in Record : Insert(p, r)
    \/ Update(p)
    \/ \E x \in Passenger : SavePassenger(p, x)
    \/ Fail(p) \/ Return(p)

Next == \/ \E p \in Proc : Step(p) \/ \E u \in mix.users : Arrive(p, u)
        \/ \E u \in mix.users, r \in Record : DeleteJourney(u, r) \/ DeleteTemplate(u, r)
        \/ \E x \in Passenger : RemovePassenger(x)

Spec == Init /\ [][Next]_vars

-------------------------------------------------------------------------------
(* What the handlers promise.                                              *)

TypeOK ==
    /\ mix \in Mix
    /\ status \in [Record -> {"absent", "live", "deleted"}]
    /\ owner \in [Record -> User \cup {NoUser}]
    /\ saved \in [Passenger -> {"absent", "saved", "removed"}]
    /\ pc \in [Proc -> PC] /\ verb \in [Proc -> Verb]
    /\ user \in [Proc -> User \cup {NoUser}] /\ rec \in [Proc -> Record \cup {NoRecord}]
    /\ unread \in [Proc -> SUBSET ListName]
    /\ stale \in [Proc -> BOOLEAN] /\ gone \in [Proc -> SUBSET Passenger]
    /\ raced \subseteq Record
    /\ \A r \in Record : status[r] # "absent" => config[r] \in Config

\* However edits race, every journey and template stays one that could be booked
\* from: two different stations, a boarding point that is neither, at least one
\* class, no item twice, no more trains than allowed.
WellFormed(c) ==
    /\ c \in Config
    /\ RouteValid(c)
    /\ c.classes # <<>> /\ Len(c.trains) <= MaxTrains

RecordsWellFormed == \A r \in Record : status[r] # "absent" => WellFormed(config[r])

\* "Every passenger must be this user's" (journey.service.ts:143): nobody's journey
\* names somebody else's passenger.
PassengersOwned ==
    \A r \in Record : status[r] # "absent" =>
        \A x \in Items(config[r].passengers) : OwnerOf[x] = owner[r]

\* A deleted record is final, and only its owner's requests change a record.
OthersUntouched ==
    \A r \in Record :
        /\ config'[r] # config[r] =>
              /\ status[r] # "deleted" /\ status'[r] = "live"
              /\ \E p \in Proc : pc[p] = "save" /\ owner'[r] = user[p]
        /\ status[r] = "deleted" => status'[r] = "deleted"

OwnersOnly == [][OthersUntouched]_vars

\* "When a limit is configured it is enforced" (journey.service.ts:164): a record
\* exceeds the limit of its quota only after an edit that raced with another.
LimitHoldsUnlessRaced ==
    \A r \in Record : (status[r] # "absent" /\ r \notin raced) =>
        Len(config[r].passengers) <= Limit[config[r].quota]

\* An edit that raced with no other does what it says and nothing else: what was
\* sent is there, an added item is last, a dropped one is gone with the order of
\* the others kept, and all other fields are as they were.
Edited(c, d, v, b) ==
    \A f \in Field :
        IF ~Has(b, f) THEN d[f] = c[f] \/ (f = "boarding" /\ c[f] = d.from /\ d[f] = NoStation)
        ELSE CASE v = "add" -> d[f] = c[f] \o b[f]
               [] v = "drop" -> \E i \in 0..Len(d[f]) :
                     c[f] = SubSeq(d[f], 1, i) \o b[f] \o SubSeq(d[f], i + 1, Len(d[f]))
               [] OTHER -> d[f] = b[f] \/ (f = "boarding" /\ b[f] = d.from /\ d[f] = NoStation)

UnracedEditsApply ==
    [][\A p \in Proc :
         (pc[p] = "save" /\ config' # config /\ pc'[p] = "done" /\ rec[p] \in Record /\ ~stale[p])
             => Edited(config[rec[p]], config'[rec[p]], verb[p], body[p])]_vars

\* "Passengers since removed from the saved list are not carried over"
\* (journeys.routes.ts:211): a new record names nobody who had been removed when
\* the request came.
NewRecordsSkipRemoved ==
    [][\A p \in Proc, r \in Record :
         (pc[p] = "save" /\ pc'[p] = "done" /\ status[r] = "absent" /\ status'[r] = "live")
             => Items(config'[r].passengers) \cap gone[p] = {}]_vars

\* The caps are counted before the insert, not with it: concurrent requests can
\* pass them together, but no further than one row each.
CapsHoldUpToConcurrency ==
    \A u \in User :
        /\ Cardinality({r \in Template : Visible(r, u)}) < MaxTemplates + Cardinality(Proc)
        /\ Cardinality({x \in Alive : OwnerOf[x] = u}) < MaxSaved + Cardinality(Proc)
=============================================================================
