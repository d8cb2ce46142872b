---------------------------- MODULE MCJourneyConfig ----------------------------
(* A small instance of JourneyConfig. *)
EXTENDS JourneyConfig, TLC

CONSTANTS u1, u2, j1, j2, t1, t2, t3, a1, a2, a3, x, n1, n2, k1, k2, A, B, C, tatkal, general

Owners == a1 :> u1 @@ a2 :> u1 @@ a3 :> u1 @@ x :> u2
Limits == tatkal :> 1 @@ general :> 2
KeyClasses == <<k1>>

Route  == [from |-> A, to |-> B]
Single == [from |-> A, to |-> B, passengers |-> <<a1>>]
Couple == [from |-> A, to |-> B, passengers |-> <<a1, a2>>, quota |-> general]

Mixes == {
    [users |-> {u1}, rows |-> {j1}, verbs |-> {"journey", "patch"},
     bodies |-> {Single, [from |-> A, to |-> A, passengers |-> <<a1>>], [from |-> C],
                 [boarding |-> C], [quota |-> general]}],
    [users |-> {u1}, rows |-> {j1}, verbs |-> {"journey", "patch", "add", "drop"},
     bodies |-> {Couple, [passengers |-> <<a2>>], [quota |-> tatkal]}],
    [users |-> {u1}, rows |-> {t1}, verbs |-> {"template", "put", "add", "drop"},
     bodies |-> {Route, [trains |-> <<n1>>], [trains |-> <<n2>>], [trains |-> <<n1, n1>>]}],
    [users |-> {u1}, rows |-> {t1}, verbs |-> {"template", "put", "add", "drop"},
     bodies |-> {Route, [classes |-> <<k2>>], [classes |-> <<k1>>], [classes |-> <<k1, k1>>]}],
    [users |-> {u1}, rows |-> {t1, j1}, verbs |-> {"template", "journey", "patch", "remove"},
     bodies |-> {Single, [classes |-> <<k2>>]}],
    [users |-> {u1}, rows |-> {t1, j1}, verbs |-> {"template", "copy", "forget"},
     bodies |-> {Couple}],
    [users |-> {u1, u2}, rows |-> {j1, j2}, verbs |-> {"journey", "copy", "put"},
     bodies |-> {Single, [passengers |-> <<x>>]}],
    [users |-> {u1}, rows |-> {t1, t2, t3}, verbs |-> {"template", "remove"}, bodies |-> {Route}],
    [users |-> {u1}, rows |-> {j1}, verbs |-> {"passenger", "journey", "forget"},
     bodies |-> {Single}] }

Alike == Permutations(Proc)
=============================================================================
