---------------------------- MODULE MCStationPicker ----------------------------
(* A small instance of StationPicker. *)
EXTENDS StationPicker, TLC

CONSTANTS x, y, v1, v2, v3, i1, i2, q1, q2

AB  == <<"a", "b">>
ABC == <<"a", "b", "c">>
D   == <<"d">>
E   == <<"e">>
F   == <<"f", "e">>

Ranks == AB :> 1 @@ ABC :> 2 @@ D :> 3 @@ E :> 4 @@ F :> 5

Codes1 == DOMAIN Ranks

Letters == {"a", "b", "c", "d", "e", "f", "x", " "}

Names ==
    [c \in DOMAIN Ranks |-> [z \in {x, y} |->
        CASE c = AB  -> << <<"d", "a", " ", "c">> >>
          [] c = ABC -> IF z = x THEN << <<"d", "c", "a", "b">> >>
                        ELSE << <<"d", "b", "a", "c">> >>
          [] c = D   -> << <<"e", "d">>, <<"a", "b", "d">> >>
          [] c = E   -> << <<"c", " ", "e">>, <<"a", "b", "e", " ", "d", "c">> >>
          [] c = F   -> << <<"c", " ", "a", "b", "c">>, <<"b", "e", "a", "d", "c">> >>]]

Job(version, input) == [version |-> version, input |-> input, force |-> FALSE, small |-> FALSE]

All == Job(v1, << <<AB, x>>, <<ABC, x>>, <<D, x>>, <<E, x>>, <<F, x>> >>)
Two == Job(v1, << <<AB, x>>, <<ABC, x>> >>)

Quiet == [installed |-> All, imports |-> {}, elsewhere |-> {}, mine |-> {}, texts |-> {},
          refocused |-> {}, suggested |-> <<>>, exclude |-> NoStation, lossy |-> FALSE, time |-> 1]

Queries == { <<"a">>, <<"a", "b">>, <<"a", "b", "c">>, <<"b", "a">>, <<"e">>, <<"c", "a">>,
             <<"a", "b", "x">>, <<"b", "a", "d">>, <<"c", "d", "a", "b">>,
             <<"d", "c", "b", "a">>, <<"a", "b", " ", "d">>, <<"c", " ", "e">>,
             <<"b", "e", "a", "c", "d">>, <<"b", "a", "d", "c">>, <<"d", "c", " ", "a", "b", "f">> }

Scenes ==
    \* One text at a time.
    {[Quiet EXCEPT !.elsewhere = {q}] : q \in Queries}
    \cup {
    [Quiet EXCEPT !.elsewhere = {<<"d">>}, !.installed = NoJob],
    \* Imports: the first ones; ones that share stations, or do not.
    [Quiet EXCEPT !.installed = NoJob,
        !.imports = {Two, Job(v2, << <<AB, y>>, <<ABC, x>>, <<D, x>> >>),
                     Job(v1, << <<AB, y>>, <<ABC, x>> >>),
                     Job(v3, << <<D, x>> >>), Job(v3, << <<D, x>>, <<D, y>> >>)}],
    [Quiet EXCEPT !.installed = NoJob,
        !.imports = {[Job(v2, << <<AB, x>> >>) EXCEPT !.small = TRUE],
                     [Job(v2, << <<F, x>> >>) EXCEPT !.small = TRUE],
                     [Job(v3, << <<D, x>>, <<E, x>> >>) EXCEPT !.force = TRUE]}],
    [Quiet EXCEPT !.installed = Two,
        !.imports = {Job(v2, << <<ABC, x>>, <<D, x>>, <<E, x>> >>), Job(v3, << <<D, x>>, <<E, x>> >>),
                     [Job(v2, << <<D, x>> >>) EXCEPT !.force = TRUE, !.small = TRUE],
                     Job(v3, << <<AB, x>>, <<ABC, y>> >>)}],
    \* A station is dropped and comes back as it was, and others change.
    [Quiet EXCEPT !.installed = Job(v1, << <<AB, x>>, <<ABC, x>>, <<D, x>> >>), !.time = 2,
        !.imports = {Job(v2, << <<AB, x>>, <<ABC, x>> >>),
                     Job(v3, << <<AB, y>>, <<ABC, x>>, <<D, x>> >>)}],
    \* The index, while a dataset is imported.
    [Quiet EXCEPT !.installed = Two, !.elsewhere = {<<"d">>}, !.time = 2,
        !.imports = {Job(v2, << <<ABC, y>>, <<D, x>>, <<AB, x>> >>)}],
    \* Favourites and recent stations.
    [Quiet EXCEPT !.installed = Job(v1, << <<AB, x>>, <<ABC, x>>, <<D, x>> >>), !.mine = {AB, ABC, D},
        !.imports = {Job(v2, << <<AB, x>>, <<ABC, x>> >>)}, !.time = 2],
    \* The picker: two texts, with different stations; one that is asked for again.
    [Quiet EXCEPT !.texts = {<<"d">>, <<"e">>}, !.suggested = <<AB, D>>,
                  !.installed = Job(v1, << <<AB, x>>, <<ABC, x>>, <<D, x>> >>),
                  !.exclude = ABC, !.time = 2],
    [Quiet EXCEPT !.texts = {<<"e">>}, !.refocused = {<<"e">>}, !.lossy = TRUE,
                  !.installed = Job(v1, << <<D, x>>, <<E, x>> >>),
                  !.suggested = <<AB>>, !.time = 2]}
=============================================================================
