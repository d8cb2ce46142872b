----------------------------- MODULE StationSearch -----------------------------
(***************************************************************************)
(* The station search of packages/shared/src/stations/search.ts, which the *)
(* API and the offline web app share.                                      *)
(*                                                                         *)
(* Text is normalised already: a text is a sequence of letters, with one   *)
(* Gap between words.  A station has a code, which has no Gap, and names:  *)
(* its name and perhaps aliases.                                           *)
(***************************************************************************)
EXTENDS Integers, SequencesExt, FiniteSetsExt

CONSTANTS
    Letter, Gap,         \* what a text is made of; the space between words
    MidWord, LongWord,   \* letters from which one edit is allowed (4), and two (7)
    Enough,              \* letters from which a part of a name is a match (3)
    Rank                 \* of a code in the alphabet

ASSUME SearchAssumption == MidWord \in Nat /\ LongWord \in Nat /\ Enough \in Nat

\* Where the words of a text begin and end.
Words(t) ==
    {w \in (1..Len(t)) \X (1..Len(t)) :
        /\ w[1] <= w[2]
        /\ \A i \in DOMAIN t \cap (w[1] - 1)..(w[2] + 1) : t[i] # Gap <=> i \in w[1]..w[2]}

Word(t, w) == SubSeq(t, w[1], w[2])

Tokens(t) == {Word(t, w) : w \in Words(t)}

Includes(t, s) == \E i \in 0..(Len(t) - Len(s)) : SubSeq(t, i + 1, i + Len(s)) = s

\* The items of s other than x: the k-th stands where k - 1 of them stand before it.
Without(s, x) ==
    LET I == {i \in DOMAIN s : s[i] # x}
        Place(k) == CHOOSE i \in I : Cardinality({j \in I : j < i}) = k - 1
    IN [k \in 1..Cardinality(I) |-> s[Place(k)]]

-------------------------------------------------------------------------------
(* editDistance: a row for each letter of a, until one is all over max.    *)

\* The distance of the first i letters of a and the first j of b, from those before it.
Cell(a, b, d, i, j) ==
    IF i = 0 \/ j = 0 THEN i + j
    ELSE Min({d[<<i - 1, j>>] + 1, d[<<i, j - 1>>] + 1,
              d[<<i - 1, j - 1>>] + (IF a[i] = b[j] THEN 0 ELSE 1)}
             \cup IF i > 1 /\ j > 1 /\ a[i] = b[j - 1] /\ a[i - 1] = b[j]
                  THEN {d[<<i - 2, j - 2>>] + 1} ELSE {})

Distances(a, b) ==
    LET d[p \in (0..Len(a)) \X (0..Len(b))] == Cell(a, b, d, p[1], p[2]) IN d

\* Fault: it gives up where the bound is reached.
Over_early(d, i, n, max) == \A j \in 1..n : d[<<i, j>>] >= max

Over(d, i, n, max) == \A j \in 1..n : d[<<i, j>>] > max

EditDistance(a, b, max) ==
    LET d == Distances(a, b)
    IN IF \/ Len(a) - Len(b) > max \/ Len(b) - Len(a) > max
          \/ \E i \in 1..Len(a) : Over(d, i, Len(b), max)
       THEN max + 1 ELSE d[<<Len(a), Len(b)>>]

AllowedEdits(n) == IF n >= LongWord THEN 2 ELSE IF n >= MidWord THEN 1 ELSE 0

\* tokenDistance: of a word to a word of a name, or to what of it one has typed so far.
TokenDistance(q, token, max) ==
    Min({EditDistance(q, token, max)} \cup
          {EditDistance(q, SubSeq(token, 1, n), max) :
              n \in {m \in (Len(q) - 1)..(Len(q) + 1) : 0 < m /\ m < Len(token)}})

-------------------------------------------------------------------------------
(* scoreName and searchStations.                                           *)

SomeStartsWith(name, w) == \E t \in Tokens(name) : IsPrefix(w, t)

\* What a word of the query is away from a name: more than it may if there is no match.
WordDistance(w, name, max) ==
    IF max = 0 THEN IF SomeStartsWith(name, w) THEN 0 ELSE 1
    ELSE Min({max + 1} \cup {TokenDistance(w, t, max) : t \in Tokens(name)})

\* Every word is close to the name, or it is no match; each edit of a word costs 40.
Fuzzy(q, name) ==
    LET best == [w \in Words(q) |->
                    WordDistance(Word(q, w), name, AllowedEdits(Len(Word(q, w))))]
    IN IF \E w \in Words(q) : best[w] > AllowedEdits(Len(Word(q, w))) THEN 0
       ELSE 300 - 40 * Cardinality({e \in Words(q) \X (1..2) : e[2] <= best[e[1]]})

ScoreName(q, name) ==
    IF name = q THEN 750
    ELSE IF IsPrefix(q, name) THEN 700 - Min({50, Len(name) - Len(q)})
    ELSE IF \A w \in Tokens(q) : SomeStartsWith(name, w) THEN 600
    ELSE IF Len(q) >= Enough /\ Includes(name, q) THEN 400
    ELSE Fuzzy(q, name)

\* Fault: an alias counts for too little.
AliasPenalty_large == 150

AliasPenalty == 25

ScoreCode(qCode, code) ==
    IF code = qCode THEN 1000
    ELSE IF Len(qCode) >= 2 /\ IsPrefix(qCode, code) THEN 850 - (Len(code) - Len(qCode)) ELSE 0

\* A station is [code, names]: its name first, then its aliases.
Score(q, station) ==
    Max({ScoreCode(Without(q, Gap), station.code)} \cup
        {ScoreName(q, station.names[i]) - (IF i > 1 THEN AliasPenalty ELSE 0) :
            i \in DOMAIN station.names})

\* By score, then the shorter name, then the code; Rank orders the codes.
SortKey(q, station) == <<-Score(q, station), Len(station.names[1]), Rank[station.code]>>

Better(k, l) == \E i \in 1..3 : k[i] < l[i] /\ \A j \in 1..(i - 1) : k[j] = l[j]

\* The stations that match, best first: the k-th is the one that k - 1 are better than.
SearchStations(stations, q, limit) ==
    LET found == {m \in {[station |-> st, key |-> SortKey(q, st)] : st \in stations} :
                     q # <<>> /\ m.key[1] < 0}
        Kth(k) == CHOOSE m \in found :
                     Cardinality({n \in found : Better(n.key, m.key)}) = k - 1
    IN [k \in 1..Min({limit, Cardinality(found)}) |-> Kth(k).station]
=============================================================================
