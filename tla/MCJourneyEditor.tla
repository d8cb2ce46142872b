---------------------------- MODULE MCJourneyEditor ----------------------------
(* A small instance of JourneyEditor. *)
EXTENDS JourneyEditor, TLC

CONSTANTS A, B, C, p1, p2, t1, t2, k1, k2, TATKAL, general

Names == p1 :> 1 @@ p2 :> 3
KeyClasses == <<k1>>

Rule(id, value, status) ==
    [id |-> id, value |-> value, status |-> status, verified |-> status = "VERIFIED", due |-> FALSE]

Settings == [k \in RuleKey |->
    CASE k = "tatkal.max" -> Rule(1, 1, "VERIFIED")
      [] k = "general.max" -> Rule(1, 2, "VERIFIED")
      [] k = "name.max" -> Rule(1, 2, "VERIFIED")
      [] k = "ac_classes" -> Rule(1, {k1}, "VERIFIED")
      [] k = "non_ac_classes" -> Rule(1, {k2}, "VERIFIED")
      [] k = "senior" -> Rule(1, FALSE, "VERIFIED")
      [] OTHER -> Rule(1, 1, "VERIFIED")]

Known1 == [today |-> 1, active |-> {A, B, C}, alive |-> {p1, p2}, linked |-> TRUE,
           stops |-> t1 :> <<A, C, B>> @@ t2 :> <<B, A>>, rules |-> Settings,
           templates |-> 0, deleted |-> FALSE]

Trip == [name |-> Own, from |-> A, to |-> B, boarding |-> NoStation, date |-> 1,
         quota |-> TATKAL, passengers |-> <<p1>>, trains |-> <<t1>>, any |-> FALSE,
         classes |-> <<k1>>]

Quiet == [mode |-> "journey", creates |-> FALSE, facts |-> {Known1}, stored |-> {Trip},
          fields |-> {}, places |-> {A, B}, dates |-> {1, 2}, events |-> {}, rules |-> {},
          elsewhere |-> {}, losses |-> 0]

Changes == {
    <<"tatkal.max", NoRule>>, <<"tatkal.max", Rule(1, 1, "VERIFIED")>>,
    <<"ac_classes", Rule(1, {k1}, "VERIFIED")>>, <<"ac_classes", Rule(2, {}, "VERIFIED")>>,
    <<"ac_classes", Rule(1, {k1}, "UNVERIFIED")>>,
    <<"non_ac_classes", Rule(1, {k2}, "VERIFIED")>>, <<"non_ac_classes", NoRule>>,
    <<"non_ac.opening", Rule(1, 1, "VERIFIED")>>, <<"non_ac.opening", Rule(2, 1, "UNVERIFIED")>>,
    <<"senior", NoRule>>, <<"general.max", [Rule(1, 2, "VERIFIED") EXCEPT !.due = TRUE]>>}

Scenes == {
    \* A new journey: where, when and who.
    [Quiet EXCEPT !.creates = TRUE, !.stored = {NoRecord}, !.events = {"midnight"}, !.losses = 1,
                  !.fields = {"from", "to", "date", "passengers"}, !.dates = {1},
                  !.facts = {[Known1 EXCEPT !.alive = {p1}]}],
    \* A new template has a name, and its place among the others, saved twice or not.
    [Quiet EXCEPT !.mode = "template", !.creates = TRUE, !.stored = {NoRecord}, !.losses = 1,
                  !.events = {"templates"}, !.fields = {"name", "from", "to"}],
    \* Another route, while a station is dropped; another day, while the days go by.
    [Quiet EXCEPT !.stored = {[Trip EXCEPT !.boarding = C]}, !.events = {"stations"},
                  !.losses = 1, !.places = {A, C}, !.fields = {"from"}],
    [Quiet EXCEPT !.places = {B, C}, !.fields = {"to", "boarding"}],
    [Quiet EXCEPT !.events = {"midnight"}, !.fields = {"name", "date"}],
    \* Another choice of trains and classes.
    [Quiet EXCEPT !.fields = {"trains", "any"}],
    \* Trains entered without a provider, and now there is one.
    [Quiet EXCEPT !.facts = {[Known1 EXCEPT !.stops = <<>>], [Known1 EXCEPT !.stops = t2 :> <<A, B>>]},
                  !.fields = {"trains"}],
    \* On another device the journey, or the template, is deleted.
    [Quiet EXCEPT !.events = {"delete", "midnight"}, !.fields = {"date"}, !.losses = 1],
    [Quiet EXCEPT !.mode = "template", !.stored = {[Trip EXCEPT !.date = NoDate]},
                  !.events = {"delete"}, !.fields = {"quota"}],
    [Quiet EXCEPT !.fields = {"classes"}, !.losses = 1],
    \* On this device a passenger is removed, on another the journey is changed.
    [Quiet EXCEPT !.stored = {[Trip EXCEPT !.quota = general, !.passengers = <<p1, p2>>]},
                  !.events = {"remove"}, !.fields = {"passengers"}],
    [Quiet EXCEPT !.fields = {"quota", "passengers"}],
    [Quiet EXCEPT !.elsewhere = {[Trip EXCEPT !.classes = <<k2, k1>>]}, !.fields = {"quota"},
                  !.rules = {<<"general.max", NoRule>>, <<"general.max", Rule(2, 1, "VERIFIED")>>}],
    \* What was saved is looked at while the rules change.
    [Quiet EXCEPT !.stored = {Trip, [Trip EXCEPT !.classes = <<k2, k1>>, !.passengers = <<p2>>],
                              [Trip EXCEPT !.quota = general, !.passengers = <<p1, p2>>]},
                  !.events = {"irctc"}, !.rules = Changes] }

\* A passenger of the journey is removed on this device.
Removal == {[Quiet EXCEPT !.events = {"remove"}, !.fields = {"passengers"}]}
=============================================================================
