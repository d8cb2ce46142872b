----------------------------- MODULE JourneyEditor -----------------------------
(***************************************************************************)
(* The journey and template editor of the web app                          *)
(* (apps/web/src/features/journeys/editor) with the pages it is opened     *)
(* from, the cached answers of the API it works with, and the requests it  *)
(* sends.                                                                  *)
(*                                                                         *)
(* A draft is made of the cached record, changed step by step, checked and *)
(* sent as a whole.  Meanwhile the facts on the server change: midnight    *)
(* passes, rules and stations change, passengers are removed, another      *)
(* device saves or deletes the same record.  A request is handled in one step: what   *)
(* can happen in the middle of it is the matter of JourneyConfig.          *)
(* What is saved is looked at by Readiness.                                *)
(***************************************************************************)
EXTENDS Readiness

CONSTANTS
    Station, Date, Quota, Passenger, Train, Class,
    Blank, Own,                \* names: none, and one the user has typed
    DefaultQuota, DefaultClasses,
    MaxTrains, MaxPassengers,  \* MAX_PREFERRED_TRAINS, MAX_JOURNEY_PASSENGERS
    MaxTemplates,              \* MAX_JOURNEY_TEMPLATES
    NoRecord,
    Scene                      \* what happens in a behaviour

Unique(s) == \A i, j \in DOMAIN s : s[i] = s[j] => i = j

Drafts ==
    [name : {Blank, Own} \cup (Station \X Station), from : Station \cup {NoStation},
     to : Station \cup {NoStation}, boarding : Station \cup {NoStation},
     date : Date \cup {NoDate}, quota : Quota, passengers : Seq(Passenger),
     trains : Seq(Train), any : BOOLEAN, classes : Seq(Class)]

\* Lists as the API keeps them and the editor makes them.
ListsValid(c) ==
    /\ Unique(c.passengers) /\ Unique(c.trains) /\ Unique(c.classes)
    /\ Len(c.trains) <= MaxTrains /\ c.classes # <<>>

\* A record of the API: boarding is not at the origin, only journeys have a date.
IsRecord(c, mode) ==
    /\ c \in Drafts /\ ListsValid(c) /\ c.from # NoStation /\ c.boarding # c.from
    /\ mode = "template" => c.date = NoDate

\* What is configured as rule k; ruleValueSchemas bounds the limits.
RuleOf(k) == {NoRule} \cup UNION {{f.rules[k] : f \in z.facts}
                                 \cup {x[2] : x \in {y \in z.rules : y[1] = k}} : z \in Scene}
IsRules(R) == DOMAIN R = RuleKey /\ \A k \in RuleKey : R[k] \in RuleOf(k)

\* The facts of Readiness, how many templates the user has, and whether the record is
\* deleted.
IsFacts(f) ==
    /\ DOMAIN f = {"today", "active", "alive", "linked", "stops", "rules", "templates", "deleted"}
    /\ f.today \in Date /\ f.active \subseteq Station /\ f.alive \subseteq Passenger
    /\ f.linked \in BOOLEAN /\ IsRules(f.rules)
    /\ f.templates \in Nat /\ f.deleted \in BOOLEAN

ASSUME EditorAssumption ==
    /\ NoStation \notin Station /\ Quota = TatkalQuota \cup {General} /\ DefaultQuota \in Quota
    /\ Date \subseteq Int /\ NoDate \notin Date /\ Senior \subseteq Passenger
    /\ DefaultClasses \in Seq(Class) /\ DefaultClasses # <<>> /\ Unique(DefaultClasses)
    /\ NameLength \in [Passenger -> Nat] /\ MaxTrains \in Nat /\ MaxPassengers \in Nat
    /\ MaxTemplates \in Nat /\ NoRecord \notin Drafts

ASSUME SceneAssumption ==
    /\ \A k \in {"tatkal.max", "general.max"} : \A r \in RuleOf(k) \ {NoRule} :
          r.value \in 1..MaxPassengers
    /\ \A z \in Scene :
          /\ z.mode \in {"journey", "template"} /\ z.creates \in BOOLEAN /\ z.losses \in Nat
          /\ \A f \in z.facts : IsFacts(f) /\ ~f.deleted
          /\ \A x \in z.rules : x[1] \in RuleKey
          /\ IF z.creates THEN z.stored = {NoRecord} ELSE \A c \in z.stored : IsRecord(c, z.mode)
          /\ \A c \in z.elsewhere : IsRecord(c, z.mode)

Steps == <<"route", "trains", "classes", "passengers", "preferences", "review">>

VARIABLES
    scene,      \* what the users, the server and its administrators do; never changes
    facts,      \* what the server knows besides the record
    stored, snapshot,          \* the record, and its ruleSnapshot
    created,    \* how many records the editor has created since it was opened
    held,       \* the cached answers: of the record, the passengers and the options,
                \* and the day on which the page was last rendered
    phase,      \* "away", "editing", "saving"
    draft, step, visited, errors,
    wire,       \* requests under way
    answer,     \* the answer under way, if any: {"saved"}, the fields it complains of, or
                \* {"refused"}: an error that names no field
    touched, raced,            \* history: fields changed here; elsewhere since opened
    lost        \* history: answers lost since the editor was opened

server == <<facts, stored, snapshot, created>>
editor == <<phase, draft, step, visited, errors>>
vars   == <<scene, server, held, editor, wire, answer, touched, raced, lost>>

-------------------------------------------------------------------------------
(* draft.ts: records and drafts.                                           *)

\* The items of s that are in S, in the order of s (Array.prototype.filter): the k-th
\* stands where k - 1 of them stand before it.
Filtered(s, S) ==
    LET I == {i \in DOMAIN s : s[i] \in S}
        Place(k) == CHOOSE i \in I : Cardinality({j \in I : j < i}) = k - 1
    IN [k \in 1..Cardinality(I) |-> s[Place(k)]]

\* passengerLimitFor: from the options; NoRule if not configured.
LimitOf(R, q) == IF R[PassengerLimitRuleKey(q)] = NoRule THEN NoRule
                 ELSE R[PassengerLimitRuleKey(q)].value

EmptyDraft ==
    [name |-> Blank, from |-> NoStation, to |-> NoStation, boarding |-> NoStation,
     date |-> NoDate, quota |-> DefaultQuota, passengers |-> <<>>, trains |-> <<>>,
     any |-> FALSE, classes |-> DefaultClasses]

\* Fault: the draft forgets the boarding point.
DraftFromConfig_route(c, alive) ==
    [c EXCEPT !.boarding = NoStation,
              !.passengers = Filtered(@, alive)]

\* draftFromConfig, which leaves out removed passengers.
DraftFromConfig(c, alive) == [c EXCEPT !.passengers = Filtered(@, alive)]

\* configPayload, toJourneyCreate, toJourneyUpdate and toTemplateInput: the draft as a
\* whole, with the passenger limit it was checked against (history).  A blank name is
\* not sent, see Stored.
Payload(d) == [d |-> [d EXCEPT !.date = IF scene.mode = "journey" THEN @ ELSE NoDate],
               limit |-> LimitOf(held.rules, d.quota)]

When(cond, key) == IF cond THEN {key} ELSE {}

\* Fault: the boarding point is not compared with the destination.
ValidateStep_boarding(i, d) ==
    IF Steps[i] = "route"
    THEN When(d.from = NoStation, "from") \cup When(d.to = NoStation \/ d.to = d.from, "to")
         \cup When(scene.mode = "journey" /\ d.date = NoDate, "journeyDate")
    ELSE {}

\* validateStep.
ValidateStep(i, d) ==
    LET journey == scene.mode = "journey"
        limit   == LimitOf(held.rules, d.quota)
    IN CASE Steps[i] = "route" ->
              When(~journey /\ d.name = Blank, "name")
              \cup When(d.from = NoStation, "from")
              \cup When(d.to = NoStation \/ d.to = d.from, "to")
              \cup When(d.boarding # NoStation /\ d.boarding = d.to, "boarding")
              \cup When(journey /\ (d.date = NoDate \/ d.date < held.today), "journeyDate")
         [] Steps[i] = "classes" -> When(d.classes = <<>>, "classes")
         [] Steps[i] = "passengers" ->
              When(journey /\ d.passengers = <<>>, "passengers")
              \cup When(limit # NoRule /\ Len(d.passengers) > limit, "passengers")
         [] OTHER -> {}

StepForField(f) ==
    CASE f \in {"name", "from", "to", "boarding", "journeyDate"} -> 1
      [] f = "trains" -> 2 [] f \in {"classes", "quota"} -> 3 [] f = "passengers" -> 4
      [] OTHER -> 5

-------------------------------------------------------------------------------
Init ==
    /\ scene \in Scene /\ facts \in scene.facts
    /\ stored \in scene.stored /\ snapshot = BuildRuleSnapshot(facts.rules)
    /\ created = 0
    /\ held = [record |-> IF stored = NoRecord THEN NoRecord ELSE DraftFromConfig(stored, facts.alive),
               passengers |-> facts.alive, rules |-> facts.rules, today |-> facts.today]
    /\ phase = "away" /\ draft = EmptyDraft /\ step = 1 /\ visited = 1 /\ errors = {}
    /\ wire = <<>> /\ answer = {} /\ touched = {} /\ raced = FALSE /\ lost = 0

(* The pages that open the editor.                                         *)

\* A page is rendered: ctx of the editor has the day of that moment.
Rendered == held' = [held EXCEPT !.today = facts.today]

\* NewTrip and TemplateEditorPage with an empty draft; EditTrip and TemplateEditorPage
\* with a draft of the cached answer, which later answers do not change.  The editor is
\* not opened again while an earlier save is under way (a bound of the model).
Open ==
    /\ phase = "away" /\ wire = <<>> /\ answer = {} /\ scene.fields # {}
    /\ phase' = "editing" /\ step' = 1 /\ visited' = 1 /\ errors' = {}
    /\ draft' = IF scene.creates THEN EmptyDraft ELSE held.record
    /\ touched' = {} /\ created' = 0 /\ lost' = 0
    /\ raced' = (~scene.creates /\ held.record # DraftFromConfig(stored, facts.alive))
    /\ Rendered
    /\ UNCHANGED <<scene, facts, stored, snapshot, wire, answer>>

\* The user goes to another page; a save under way goes on.
Leave == phase' = "away" /\ draft' = EmptyDraft /\ errors' = {} /\ step' = 1 /\ visited' = 1

Close ==
    /\ phase # "away" /\ Leave
    /\ UNCHANGED <<scene, server, held, wire, answer, touched, raced, lost>>

-------------------------------------------------------------------------------
(* The steps, steps.tsx, StationPicker, TrainPicker and OrderedList.       *)

\* update: the errors of the fields it names are cleared.
Update(d, fields) ==
    /\ phase # "away" /\ fields \subseteq scene.fields
    /\ draft' = d /\ touched' = IF scene.creates THEN {} ELSE touched \cup fields
    /\ Rendered
    /\ errors' = errors \ {IF f = "date" THEN "journeyDate" ELSE f : f \in fields}
    /\ UNCHANGED <<scene, server, phase, step, visited, wire, answer, raced, lost>>

\* A station picker shows a field to choose from when there is no station yet (what it
\* finds is the matter of Stations); the
\* boarding switch clears the boarding point.
PickStation(place, s) ==
    /\ step = 1 /\ s \in scene.places /\ draft[place] = NoStation
    /\ s # IF place = "to" THEN draft.from ELSE draft.to
    /\ Update([draft EXCEPT ![place] = s], {place})

ClearStation(place) ==
    step = 1 /\ draft[place] # NoStation /\ Update([draft EXCEPT ![place] = NoStation], {place})

Swap == /\ step = 1 /\ draft.from # draft.to
        /\ Update([draft EXCEPT !.from = draft.to, !.to = draft.from], {"from", "to"})

SetDate(d) ==
    step = 1 /\ scene.mode = "journey" /\ d \in scene.dates /\ draft.date # d
    /\ Update([draft EXCEPT !.date = d], {"date"})
SetName(n) == step = 1 /\ draft.name # n /\ Update([draft EXCEPT !.name = n], {"name"})
SetQuota(q) == step = 3 /\ draft.quota # q /\ Update([draft EXCEPT !.quota = q], {"quota"})
SetAny == step = 2 /\ Update([draft EXCEPT !.any = ~@], {"any"})

\* OrderedList over trains and classes; classes keep one.
StepOfList(l) == IF l = "trains" THEN 2 ELSE 3

MoveItem(l, i) ==
    LET s == draft[l] IN
    /\ step = StepOfList(l) /\ i + 1 <= Len(s)
    /\ Update([draft EXCEPT ![l] = [s EXCEPT ![i] = s[i + 1], ![i + 1] = s[i]]], {l})

RemoveItem(l, i) ==
    LET s == draft[l] IN
    /\ step = StepOfList(l) /\ i <= Len(s) /\ (l = "classes" => Len(s) > 1)
    /\ Update([draft EXCEPT ![l] = SubSeq(s, 1, i - 1) \o SubSeq(s, i + 1, Len(s))], {l})

\* authoritative and available are the same for both providers of train data; the one that
\* is has the stops of every train it knows.
TrainKnown(x) == DOMAIN facts.stops # {} => x \in DOMAIN facts.stops

\* Only what is not listed yet, no more trains than allowed, and of those the provider's.
AddItem(l, x) ==
    /\ step = StepOfList(l) /\ x \notin Elems(draft[l])
    /\ l = "trains" => Len(draft[l]) < MaxTrains /\ TrainKnown(x)
    /\ Update([draft EXCEPT ![l] = Append(@, x)], {l})

\* A passenger can be selected and deselected while it is listed.
TogglePassenger(p) ==
    /\ step = 4 /\ p \in held.passengers
    /\ Update([draft EXCEPT !.passengers = IF p \in Elems(@) THEN Filtered(@, Passenger \ {p})
                                           ELSE Append(@, p)], {"passengers"})

-------------------------------------------------------------------------------
(* JourneyEditor.tsx: moving on, and saving.                               *)

Show(i) == step' = i /\ visited' = IF i > visited THEN i ELSE visited

GoTo(i) ==
    /\ phase # "away" /\ i <= visited /\ i # step
    /\ Show(i) /\ Rendered
    /\ UNCHANGED <<scene, server, phase, draft, errors, wire, answer, touched, raced, lost>>

NextStep ==
    /\ phase # "away" /\ step < Len(Steps)
    /\ errors' = ValidateStep(step, draft)
    /\ IF errors' = {} THEN Show(step + 1) ELSE UNCHANGED <<step, visited>>
    /\ Rendered
    /\ UNCHANGED <<scene, server, phase, draft, wire, answer, touched, raced, lost>>

\* Fault: the button can be pressed again while a save is under way.
Save_again ==
    /\ phase # "away" /\ step = Len(Steps)
    /\ \A i \in DOMAIN Steps : ValidateStep(i, draft) = {}
    /\ phase' = "saving" /\ wire' = Append(wire, Payload(draft)) /\ Rendered
    /\ UNCHANGED <<scene, server, draft, step, visited, errors, answer, touched, raced, lost>>

\* Every step is checked again; the first with a problem is shown.
Save ==
    LET bad == {i \in DOMAIN Steps : ValidateStep(i, draft) # {}} IN
    /\ phase = "editing" /\ step = Len(Steps)
    /\ \/ /\ bad = {}
          /\ phase' = "saving" /\ wire' = Append(wire, Payload(draft))
          /\ UNCHANGED <<step, visited, errors>>
       \/ /\ bad # {}
          /\ \E i \in bad : (\A j \in bad : i <= j) /\ Show(i) /\ errors' = ValidateStep(i, draft)
          /\ UNCHANGED <<phase, wire>>
    /\ Rendered
    /\ UNCHANGED <<scene, server, draft, answer, touched, raced, lost>>

-------------------------------------------------------------------------------
(* The server, as far as it is modelled in JourneyConfig.                  *)

\* The fields the schema complains of: first the lists, and then the route.
SchemaFields(w) ==
    LET lists == When(Len(w.passengers) > MaxPassengers \/ ~Unique(w.passengers), "passengers")
                 \cup When(Len(w.trains) > MaxTrains \/ ~Unique(w.trains), "trains")
                 \cup When(w.classes = <<>> \/ ~Unique(w.classes), "classes")
        route == When(w.from = w.to, "to")
                 \cup When(w.boarding # NoStation /\ w.boarding = w.to, "boarding")
                 \cup When(scene.mode = "journey" /\ scene.creates /\ w.passengers = <<>>, "passengers")
    IN IF lists # {} THEN lists ELSE route

\* Then the record must be there (404), or a template still fit in (409).
NoPlace == facts.deleted \/ (/\ scene.mode = "template" /\ scene.creates
                            /\ facts.templates >= MaxTemplates)

\* assertNotPast is the only check of the services that names a field ...
BadFields(w) ==
    IF SchemaFields(w) # {} THEN SchemaFields(w)
    ELSE When(scene.mode = "journey" /\ ~NoPlace /\ w.date < facts.today, "journeyDate")

\* ... the others do not: UNKNOWN_STATION, passengers that are not found,
\* TOO_MANY_PASSENGERS, UNKNOWN_TRAIN.
Refuses(w) ==
    \/ NoPlace
    \/ ~({w.from, w.to, w.boarding} \subseteq facts.active \cup {NoStation})
    \/ ~(Elems(w.passengers) \subseteq facts.alive)
    \/ LimitOf(facts.rules, w.quota) # NoRule /\ Len(w.passengers) > LimitOf(facts.rules, w.quota)
    \/ \E x \in Elems(w.trains) : ~TrainKnown(x)

Accepts(w) == BadFields(w) = {} /\ ~Refuses(w)

\* What is stored: a blank name becomes that of the route, or stays as it was, and
\* boarding at the origin is no boarding point.
Stored(w) ==
    [w EXCEPT !.boarding = IF @ = w.from THEN NoStation ELSE @,
              !.name = IF @ # Blank THEN @
                       ELSE IF scene.creates THEN <<w.from, w.to>> ELSE stored.name]

Handle ==
    /\ wire # <<>> /\ answer = {}
    /\ wire' = Tail(wire)
    /\ LET w == Head(wire).d IN
       \/ /\ Accepts(w)
          /\ stored' = Stored(w)
          /\ IF scene.creates THEN created' = created + 1 /\ snapshot' = BuildRuleSnapshot(facts.rules)
                              ELSE UNCHANGED <<created, snapshot>>
          /\ facts' = IF scene.creates /\ scene.mode = "template"
                      THEN [facts EXCEPT !.templates = @ + 1] ELSE facts
          /\ answer' = {"saved"}
       \/ /\ ~Accepts(w)
          /\ answer' = IF BadFields(w) = {} THEN {"refused"} ELSE BadFields(w)
          /\ UNCHANGED <<facts, stored, snapshot, created>>
    /\ UNCHANGED <<scene, held, editor, touched, raced, lost>>

\* The page moves on to what was saved; errors are shown where their field is; any
\* other error, and a lost answer, leaves the editor as it is.  On a page that the user
\* has left an error changes nothing; a success takes the user to the record's page all
\* the same (navigate in onSubmit), which here is "away" like any other page.
Answer ==
    /\ answer # {} /\ answer' = {}
    /\ \/ /\ answer = {"saved"} \/ phase = "away"
          /\ Leave
          /\ UNCHANGED lost
       \/ /\ answer # {"saved"} /\ phase = "saving" /\ phase' = "editing"
          /\ IF answer # {"refused"} THEN /\ errors' = answer \ {"trains"}
                                 /\ \E f \in answer : Show(StepForField(f))
                            ELSE UNCHANGED <<errors, step, visited>>
          /\ UNCHANGED <<draft, lost>>
       \/ /\ phase = "saving" /\ lost < scene.losses /\ lost' = lost + 1
          /\ phase' = "editing" /\ UNCHANGED <<draft, step, visited, errors>>
    /\ Rendered
    /\ UNCHANGED <<scene, server, wire, touched, raced>>

-------------------------------------------------------------------------------
(* Meanwhile.                                                              *)

Meanwhile(f) ==
    /\ f # facts
    /\ facts' = f
    /\ UNCHANGED <<scene, stored, snapshot, created, editor, wire, answer, touched, raced, lost>>

Midnight ==
    /\ "midnight" \in scene.events /\ facts.today + 1 \in Date
    /\ Meanwhile([facts EXCEPT !.today = @ + 1]) /\ UNCHANGED held

SetRule(k, r) ==
    /\ <<k, r>> \in scene.rules
    /\ Meanwhile([facts EXCEPT !.rules[k] = r]) /\ UNCHANGED held

DropStation(s) ==
    /\ "stations" \in scene.events /\ s \in facts.active \cap scene.places
    /\ Meanwhile([facts EXCEPT !.active = @ \ {s}]) /\ UNCHANGED held

SetLinked ==
    "irctc" \in scene.events /\ Meanwhile([facts EXCEPT !.linked = ~@]) /\ UNCHANGED held

\* useDeletePassenger in this browser refreshes the list of passengers only.
RemovePassenger(p) ==
    /\ "remove" \in scene.events /\ p \in facts.alive
    /\ Meanwhile([facts EXCEPT !.alive = @ \ {p}])
    /\ held' = [held EXCEPT !.passengers = @ \ {p}]

\* Another device saves the record,
SaveElsewhere(c) ==
    /\ ~scene.creates /\ ~facts.deleted /\ stored # c
    /\ Elems(c.passengers) \subseteq facts.alive
    /\ stored' = c /\ raced' = TRUE
    /\ UNCHANGED <<scene, facts, snapshot, created, held, editor, wire, answer, touched, lost>>

\* ... deletes it (deletedAt),
DeleteElsewhere ==
    /\ "delete" \in scene.events /\ ~scene.creates /\ ~facts.deleted
    /\ Meanwhile([facts EXCEPT !.deleted = TRUE]) /\ UNCHANGED held

\* ... or saves or deletes a template (the bound is one more than there may be).
CountElsewhere(n) ==
    /\ "templates" \in scene.events /\ n \in {facts.templates - 1, facts.templates + 1}
    /\ Meanwhile([facts EXCEPT !.templates = n]) /\ UNCHANGED held

\* A cached answer is replaced: it is stale, or a mutation has said so.  The 404 of a
\* deleted record is no answer, and the last one stays.
Refetch ==
    /\ held' = [record |-> IF stored = NoRecord THEN NoRecord
                           ELSE IF facts.deleted THEN held.record
                           ELSE DraftFromConfig(stored, facts.alive),
                passengers |-> facts.alive, rules |-> facts.rules, today |-> facts.today]
    /\ held' # held
    /\ UNCHANGED <<scene, server, editor, wire, answer, touched, raced, lost>>

Next ==
    \/ Open \/ Close \/ Swap \/ SetAny \/ NextStep \/ Save \/ Handle \/ Answer
    \/ \E place \in {"from", "to", "boarding"} :
          ClearStation(place) \/ \E s \in Station : PickStation(place, s)
    \/ \E d \in Date : SetDate(d)
    \/ \E n \in {Blank, Own} : SetName(n)
    \/ \E q \in Quota : SetQuota(q)
    \/ \E i \in 1..Len(Steps) :
          \/ GoTo(i)
          \/ \E l \in {"trains", "classes"} : MoveItem(l, i) \/ RemoveItem(l, i)
    \/ \E x \in Train : AddItem("trains", x)
    \/ \E x \in Class : AddItem("classes", x)
    \/ \E p \in Passenger : TogglePassenger(p) \/ RemovePassenger(p)
    \/ Midnight \/ SetLinked \/ DeleteElsewhere \/ Refetch
    \/ \E n \in 0..(MaxTemplates + 1) : CountElsewhere(n)
    \/ \E x \in scene.rules : SetRule(x[1], x[2])
    \/ \E s \in Station : DropStation(s)
    \/ \E c \in scene.elsewhere : SaveElsewhere(c)

Spec == Init /\ [][Next]_vars

-------------------------------------------------------------------------------
\* The state is of its type: no list of the draft, the record or a request has an item
\* twice, too many trains or no class.
TypeOK ==
    /\ scene \in Scene /\ IsFacts(facts)
    /\ stored = NoRecord \/ IsRecord(stored, scene.mode)
    /\ created \in Nat /\ lost \in Nat /\ raced \in BOOLEAN
    /\ DOMAIN held = {"record", "passengers", "rules", "today"}
    /\ held.record = NoRecord \/ IsRecord(held.record, scene.mode)
    /\ ~scene.creates => held.record # NoRecord /\ stored # NoRecord
    /\ held.passengers \subseteq Passenger /\ IsRules(held.rules) /\ held.today \in Date
    /\ phase \in {"away", "editing", "saving"}
    /\ draft \in Drafts /\ ListsValid(draft) /\ visited \in 1..Len(Steps) /\ step \in 1..visited
    /\ errors \subseteq {"name", "from", "to", "boarding", "journeyDate", "classes", "passengers"}
    /\ wire \in Seq([d : Drafts, limit : Nat \cup {NoRule}])
    /\ \A i \in DOMAIN wire : ListsValid(wire[i].d)
    /\ answer \subseteq {"passengers", "trains", "classes", "to", "boarding", "journeyDate"}
       \/ answer \in {{"saved"}, {"refused"}}

\* What the editor lets through, the server accepts (validateStep, draft.ts:104, against
\* the schemas, journey-config.ts:66-137, and the services), but for what validateStep
\* does not ask or cannot know: the day, the stations, the passengers and the rules have
\* changed since; the record has been deleted; the templates are at their cap; a train,
\* once entered without a provider, is not one of the provider's; there is no limit.
Known(w) ==
    /\ ~NoPlace
    /\ \A x \in Elems(w.d.trains) : TrainKnown(x)
    /\ w.d.date # NoDate => w.d.date >= facts.today
    /\ {w.d.from, w.d.to, w.d.boarding} \subseteq facts.active \cup {NoStation}
    /\ Elems(w.d.passengers) \subseteq facts.alive
    /\ LimitOf(facts.rules, w.d.quota) = w.limit /\ w.limit # NoRule

Handled == Len(wire') < Len(wire)

AcceptedIfKnown == [][(Handled /\ Known(Head(wire))) => answer' = {"saved"}]_vars

\* Saving a draft changes only what the user has touched, if the record is still the
\* one the draft was made of: but for passengers removed since, and for a boarding point
\* that an earlier save, whose answer was lost, left out because it was the origin then.
EditKeepsTheRest ==
    [][(Handled /\ stored' # stored /\ ~scene.creates /\ ~raced) =>
         \A f \in DOMAIN stored \ touched :
             \/ stored'[f] = stored[f]
             \/ f = "passengers" /\ Elems(stored'[f]) \subseteq Elems(stored[f])
             \/ /\ f = "boarding" /\ "from" \in touched
                /\ stored[f] = stored'.from \/ (stored[f] = NoStation /\ lost > 0)]_vars

\* A save creates one record, and a second only if the answer to the first was lost.
OneRecordPerSave == created <= lost + 1

\* "It can never be READY while a rule it depends on is missing or unverified"
\* (readiness.ts:13): what is ready has everything a booking needs.
ReadyIsSafe ==
    (stored # NoRecord /\ Overall(ComputeReadiness(stored, facts, snapshot)) = "READY") =>
        LET R == facts.rules
            limit == R[PassengerLimitRuleKey(stored.quota)]
        IN /\ {stored.from, stored.to} \subseteq facts.active /\ facts.linked
           /\ Elems(stored.passengers) \subseteq facts.alive
           /\ Settled(R, PassengerLimitRuleKey(stored.quota))
           /\ 0 < Len(stored.passengers) /\ Len(stored.passengers) <= limit.value
           /\ stored.quota \in TatkalQuota =>
                \A x \in Elems(stored.classes) :
                    \/ Lists(R, "ac_classes", x) /\ Settled(R, "ac_classes") /\ Settled(R, "ac.opening")
                    \/ /\ Lists(R, "non_ac_classes", x) /\ Settled(R, "non_ac_classes")
                       /\ Settled(R, "non_ac.opening")

\* "Rules this particular journey relies on" (readiness.ts:124) are all of them: a
\* change of any other rule leaves the judgement as it is.
OthersDontMatter ==
    [][(/\ stored # NoRecord /\ stored' = stored /\ facts'.rules # facts.rules
        /\ \A k \in RelevantRuleKeys(stored, facts.rules) : facts'.rules[k] = facts.rules[k]) =>
             Overall(ComputeReadiness(stored, facts', snapshot))
                 = Overall(ComputeReadiness(stored, facts, snapshot))]_vars

\* "Removed passengers can't be re-saved onto a list; the editor leaves them out"
\* (draft.ts:84).
RemovedLeftOut ==
    [][phase = "away" /\ phase' = "editing" => Elems(draft'.passengers) \subseteq facts.alive]_vars
=============================================================================
