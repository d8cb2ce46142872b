----------------------------- MODULE MCRailwayRules -----------------------------
(* A small instance of RailwayRules. *)
EXTENDS RailwayRules, TLC

CONSTANTS k, v, w, s1, s2, q1, q2

E(from, to, value, status, verification) ==
    [id |-> <<k, from>>,
     row |-> [value |-> value, to |-> to, status |-> status, verification |-> verification,
              evidence |-> verification = "VERIFIED"]]

\* A rule without an end; closed, with a successor; with another successor; with
\* a value that has changed; with an overlap; retired.
Open    == <<E(0, Forever, v, "ACTIVE", "VERIFIED")>>
Closed  == <<E(1, Forever, w, "ACTIVE", "UNVERIFIED"), E(0, 1, v, "ACTIVE", "VERIFIED")>>
Later   == <<E(0, 2, v, "ACTIVE", "VERIFIED"), E(2, Forever, w, "ACTIVE", "VERIFIED")>>
Rewrite == <<E(0, Forever, w, "ACTIVE", "VERIFIED")>>
Retired == <<E(0, 1, v, "RETIRED", "VERIFIED"), E(1, Forever, v, "ACTIVE", "VERIFIED")>>

Registries == {Open, Closed, Later, Rewrite, Retired}
Scenes == {
    [syncs |-> {s1, s2}, readers |-> {}, registries |-> Registries],
    [syncs |-> {s1}, readers |-> {q1, q2}, registries |-> {Open, Closed, Later}],
    [syncs |-> {s2}, readers |-> {q1, q2}, registries |-> {Open, Closed, Later}] }
Alike == Permutations(Sync) \cup Permutations(Reader)
=============================================================================
