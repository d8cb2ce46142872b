----------------------------- MODULE StationPicker -----------------------------
(***************************************************************************)
(* apps/web/src/features/stations/StationPicker.tsx: the combobox in which *)
(* a user picks a station, the query cache it reads                        *)
(* (apps/web/src/lib/queries.ts, useStationSearch) and the API behind it.  *)
(*                                                                         *)
(* The text is searched for once it has rested for 150 ms.  Nothing aborts *)
(* a search: its answer goes to the cache whenever it comes.  While there  *)
(* is none for the current text, the list shows what the one before has.   *)
(***************************************************************************)
EXTENDS Stations

CONSTANTS
    NoStation, NoData, NoFetch,
    StaleTime           \* staleTime of a search, in ticks

\* A text of the picker is not one of the others' (a bound): requests are told apart by it.
ASSUME PickerAssumption ==
    /\ StaleTime \in Nat /\ NoFetch \notin Request
    /\ \A z \in Scene :
          z.texts \subseteq Seq(Letter) \ {<<>>} /\ z.texts \cap z.elsewhere = {}

VARIABLES
    text, debounced,    \* query.trim(), and as it was when it last rested
    cache,              \* of each text: [data, at, failed, fetch]
    last,               \* the text whose data the list has had last
    open, active,       \* is the list open; the option that is marked, from 0
    chosen              \* value, a code or NoStation

picker == <<text, debounced, cache, last, open, active, chosen>>
vars   == <<server, picker>>
backend == <<scene, now, row, dataset, imports, index, userStation, history>>

NotAsked == [data |-> NoData, at |-> 0, failed |-> FALSE, fetch |-> NoFetch]

Init ==
    /\ StationsInit
    /\ text = <<>> /\ debounced = <<>>
    /\ cache = [q \in scene.texts |-> NotAsked] /\ last = <<>>
    /\ open = FALSE /\ active = 0 /\ chosen = NoStation

\* The observer of a text without data shows what it showed before (placeholderData).
Known(q) == IF q = <<>> THEN FALSE ELSE cache[q].data # NoData
IsPlaceholder ==
    /\ ~Known(debounced) /\ last # <<>>
    /\ debounced # <<>> => ~cache[debounced].failed
IsFetched(q) == IF q = <<>> THEN FALSE ELSE cache[q].fetch # NoFetch
IsFetching   == IsFetched(debounced)

Data == IF Known(debounced) THEN cache[debounced].data
        ELSE IF IsPlaceholder THEN cache[last].data ELSE <<>>

\* Favourites and recent stations, or the results, without the other end of the route.
Options ==
    Without(IF debounced = <<>> THEN scene.suggested ELSE Data, scene.exclude)

\* Fault: the results of the text before count.
Fresh_placeholder == ~IsFetching \/ IsPlaceholder

Fresh == ~IsPlaceholder /\ ~IsFetching

-------------------------------------------------------------------------------
(* The searches.                                                           *)

Stale(q) ==
    IF q = <<>> \/ IsFetched(q) THEN FALSE
    ELSE cache[q].data # NoData => now - cache[q].at >= StaleTime

Search(q) ==
    /\ Stale(q)
    /\ \E s \in Request :
          Ask(s, q) /\ cache' = [cache EXCEPT ![q].fetch = s, ![q].failed = FALSE]

\* A text that comes to be observed is searched for, if what there is of it is stale.
Observe(q) == Search(q) \/ (~Stale(q) /\ UNCHANGED <<search, cache>>)

Debounce ==
    /\ debounced # text /\ debounced' = text
    /\ active' = 0
    /\ last' = IF Known(text) THEN text ELSE last
    /\ Observe(text)
    /\ UNCHANGED <<backend, text, open, chosen>>

\* The window has the focus again.
Refocus ==
    /\ debounced # <<>> /\ debounced \in scene.refocused
    /\ Search(debounced)
    /\ UNCHANGED <<backend, text, debounced, last, open, active, chosen>>

CodesOf(stations) == [i \in DOMAIN stations |-> stations[i].code]

Deliver(q) ==
    /\ cache[q].fetch # NoFetch
    /\ LET s == cache[q].fetch
       IN /\ search[s].pc = "done"
          /\ cache' = [cache EXCEPT ![q] = [NotAsked EXCEPT !.data = CodesOf(Answered(s)), !.at = now]]
          /\ search' = [search EXCEPT ![s] = Idle]
    /\ last' = IF q = debounced THEN q ELSE last
    /\ UNCHANGED <<backend, text, debounced, open, active, chosen>>

\* The request, or the answer, is lost for good.
Lose(q) ==
    /\ scene.lossy /\ cache[q].fetch # NoFetch
    /\ search' = [search EXCEPT ![cache[q].fetch] = Idle]
    /\ cache' = [cache EXCEPT ![q].fetch = NoFetch, ![q].failed = TRUE]
    /\ UNCHANGED <<backend, text, debounced, last, open, active, chosen>>

-------------------------------------------------------------------------------
(* What the user does.                                                     *)

Type(t) ==
    /\ chosen = NoStation /\ t # text /\ text' = t /\ open' = TRUE
    /\ UNCHANGED <<backend, search, debounced, cache, last, active, chosen>>

Choose(c) ==
    /\ chosen' = c /\ text' = <<>> /\ open' = FALSE
    /\ UNCHANGED <<backend, search, debounced, cache, last, active>>

ArrowDown ==
    /\ chosen = NoStation /\ open' = TRUE
    /\ active' = Min({active + 1, Len(Options) - 1})
    /\ UNCHANGED <<backend, search, text, debounced, cache, last, chosen>>

ArrowUp ==
    /\ chosen = NoStation /\ active' = Max({active - 1, 0})
    /\ UNCHANGED <<backend, search, text, debounced, cache, last, open, chosen>>

\* What Enter chooses: the marked option of a list that is open and fresh.
EnterTakes ==
    IF chosen = NoStation /\ open /\ Fresh /\ active + 1 \in DOMAIN Options
    THEN Options[active + 1] ELSE NoStation

Enter == EnterTakes # NoStation /\ Choose(EnterTakes)

\* The list is shown as it is, fresh or not.
Click(i) == chosen = NoStation /\ open /\ i \in DOMAIN Options /\ Choose(Options[i])

Hover(i) ==
    /\ chosen = NoStation /\ open /\ i \in DOMAIN Options /\ active' = i - 1
    /\ UNCHANGED <<backend, search, text, debounced, cache, last, open, chosen>>

\* Escape, and 120 ms after a blur; the focus opens it.
Close ==
    /\ chosen = NoStation /\ open /\ open' = FALSE
    /\ UNCHANGED <<backend, search, text, debounced, cache, last, active, chosen>>

Focus ==
    /\ chosen = NoStation /\ ~open /\ open' = TRUE
    /\ UNCHANGED <<backend, search, text, debounced, cache, last, active, chosen>>

\* "Change station": the input is there again, and has the focus.
Clear ==
    /\ chosen # NoStation /\ chosen' = NoStation /\ open' = TRUE
    /\ UNCHANGED <<backend, search, text, debounced, cache, last, active>>

Uses ==
    \/ \E t \in scene.texts \cup {<<>>} : Type(t)
    \/ ArrowDown \/ ArrowUp \/ Enter \/ Close \/ Focus \/ Clear
    \/ \E i \in 1..Limit : Click(i) \/ Hover(i)

Next ==
    \/ StationsNext /\ UNCHANGED picker
    \/ Debounce \/ Refocus
    \/ \E q \in scene.texts : Deliver(q) \/ Lose(q)
    \/ scene.texts # {} /\ Uses

Spec == Init /\ [][Next]_vars

-------------------------------------------------------------------------------
\* "Ignore placeholder data (the previous query's result) while a new query loads"
\* (StationPicker.tsx:61): once the text has rested, Enter takes a station that matches
\* it, whatever answers come in whichever order.
EnterMatchesTheText ==
    (EnterTakes # NoStation /\ text # <<>> /\ text = debounced) =>
        \E x \in Content : Score(text, [code |-> EnterTakes, names |-> NamesOf[EnterTakes][x]]) > 0

\* The kind of match, the best first: "exact code > code prefix > name prefix > word
\* prefixes > substring > fuzzy" (search.ts:5).
KindOf(q, names) ==
    IF \E n \in names : IsPrefix(q, n) THEN 3
    ELSE IF \E n \in names : \A w \in Tokens(q) : SomeStartsWith(n, w) THEN 4
    ELSE IF Len(q) >= Enough /\ \E n \in names : Includes(n, q) THEN 5
    ELSE 6

Kind(q, st) ==
    LET qCode == Without(q, Gap)
    IN IF st.code = qCode THEN 1
       ELSE IF Len(qCode) >= 2 /\ IsPrefix(qCode, st.code) THEN 2
       ELSE KindOf(q, ToSet(st.names))

\* The results that an index has for the text it was made for are ranked as documented,
\* aliases or not.
RankedAsDocumented ==
    \A s \in Request : search[s].pc = "store" =>
        LET InOrder(kinds) == \A i, j \in DOMAIN kinds : i < j => kinds[i] <= kinds[j]
            Kinds(found)   == [i \in DOMAIN found |-> Kind(search[s].q, found[i])]
        IN InOrder(Kinds(Answered(s)))

\* "Fuzzy matching tolerates typos per word (1 edit for 4+ letters, 2 for 7+)"
\* (search.ts:6): giving up early never loses a match, and makes none.
TyposAreCounted ==
    \A s \in Request : search[s].pc = "store" =>
        \A w \in Tokens(search[s].q), st \in search[s].rows, max \in 0..2 :
            \A i \in DOMAIN st.names : \A t \in Tokens(st.names[i]) :
                LET d == EditDistance(w, t, max)
                    e == Distances(w, t)[<<Len(w), Len(t)>>]
                IN IF e <= max THEN d = e ELSE d > max
=============================================================================
