-------------------------- MODULE JourneyEditorProofs --------------------------
(* Theorems about JourneyEditor and Readiness, for every value of the constants. *)
EXTENDS JourneyEditor, FiniteSetTheorems, SequenceTheorems, TLAPS

Fields == {"name", "from", "to", "boarding", "date", "quota", "passengers", "trains", "any",
           "classes"}

-------------------------------------------------------------------------------
(* Lists.                                                                  *)

\* Among n numbers there is one for every number of smaller ones.
LEMMA Places ==
  ASSUME NEW m \in Nat, NEW I \in SUBSET (1..m), NEW k \in Nat, k < Cardinality(I)
  PROVE  \E i \in I : Cardinality({j \in I : j < i}) = k
<1> DEFINE B(i) == {j \in I : j < i}
           n == Cardinality(I)
<1>1. IsFiniteSet(I) /\ n \in Nat
  <2>1. IsFiniteSet(1..m)
    BY FS_Interval
  <2> QED
    BY <2>1, FS_Subset, FS_CardinalityType
<1>2. \A i \in I : IsFiniteSet(B(i)) /\ Cardinality(B(i)) \in 0..(n - 1)
  <2> SUFFICES ASSUME NEW i \in I
               PROVE  IsFiniteSet(B(i)) /\ Cardinality(B(i)) \in 0..(n - 1)
    OBVIOUS
  <2>1. B(i) \in SUBSET (I \ {i})
    OBVIOUS
  <2>2. IsFiniteSet(I \ {i}) /\ Cardinality(I \ {i}) = n - 1
    BY <1>1, FS_RemoveElement
  <2>3. IsFiniteSet(B(i)) /\ Cardinality(B(i)) <= n - 1
    BY ONLY <2>1, <2>2, FS_Subset
  <2>4. Cardinality(B(i)) \in Nat
    BY <2>3, FS_CardinalityType
  <2> HIDE DEF B, n
  <2> QED
    BY <1>1, <2>3, <2>4
<1>3. \A i, j \in I : i # j => Cardinality(B(i)) # Cardinality(B(j))
  <2>1. ASSUME NEW i \in I, NEW j \in I, i < j
        PROVE  Cardinality(B(i)) < Cardinality(B(j))
    <3>0. i \in Int /\ j \in Int /\ \A l \in I : l \in Int
      OBVIOUS
    <3>1. B(i) \in SUBSET (B(j) \ {i}) /\ i \in B(j)
      <4>1. \A l \in B(i) : l \in I /\ l < j /\ l # i
        BY <2>1, <3>0
      <4>2. i \in B(j)
        BY <2>1
      <4> QED
        BY <4>1, <4>2
    <3>2. IsFiniteSet(B(j) \ {i}) /\ Cardinality(B(j) \ {i}) = Cardinality(B(j)) - 1
      BY <1>2, <3>1, FS_RemoveElement
    <3>3. Cardinality(B(i)) <= Cardinality(B(j)) - 1
      BY ONLY <3>1, <3>2, FS_Subset
    <3>4. Cardinality(B(i)) \in Int /\ Cardinality(B(j)) \in Int
      BY <1>2
    <3> HIDE DEF B
    <3> QED
      BY <3>3, <3>4
  <2>2. \A i, j \in I : i # j => i < j \/ j < i
    OBVIOUS
  <2>3. \A i \in I : Cardinality(B(i)) \in Int
    BY <1>2
  <2> HIDE DEF B, n
  <2> QED
    BY <2>1, <2>2, <2>3
<1> SUFFICES ASSUME \A i \in I : Cardinality(B(i)) # k
             PROVE  FALSE
  OBVIOUS
<1> DEFINE T == (0..(n - 1)) \ {k}
           f == [i \in I |-> Cardinality(B(i))]
<1>4. IsFiniteSet(0..(n - 1)) /\ Cardinality(0..(n - 1)) = n
  <2>1. n - 1 \in Int
    BY <1>1
  <2>2. IsFiniteSet(0..(n - 1)) /\ Cardinality(0..(n - 1)) = IF 0 > n - 1 THEN 0 ELSE (n - 1) - 0 + 1
    BY ONLY <2>1, FS_Interval
  <2> QED
    BY <1>1, <2>2
<1>5. IsFiniteSet(T) /\ Cardinality(T) = n - 1
  <2>1. k \in 0..(n - 1)
    BY <1>1
  <2> QED
    BY ONLY <1>4, <2>1, FS_RemoveElement
<1>6. f \in [I -> T]
  <2> HIDE DEF B, n
  <2> QED
    BY <1>2
<1>7. Cardinality(T) < Cardinality(I)
  BY <1>1, <1>5
<1> HIDE DEF f, T
<1>8. \E i, j \in I : i # j /\ f[i] = f[j]
  BY ONLY <1>1, <1>5, <1>6, <1>7, FS_PigeonHole
<1> QED
  BY <1>3, <1>8 DEF f

\* Filtering keeps items only, none twice that stood there once.
LEMMA FilteredList ==
  ASSUME NEW T, NEW s \in Seq(T), NEW S
  PROVE  /\ Filtered(s, S) \in Seq(T)
         /\ Elems(Filtered(s, S)) \subseteq Elems(s) \cap S
         /\ Unique(s) => Unique(Filtered(s, S))
<1> DEFINE I == {i \in DOMAIN s : s[i] \in S}
           B(i) == Cardinality({j \in I : j < i})
           Place(k) == CHOOSE i \in I : B(i) = k - 1
           n == Cardinality(I)
<1>1. DOMAIN s = 1..Len(s) /\ Len(s) \in Nat /\ \A i \in DOMAIN s : s[i] \in T
  OBVIOUS
<1>2. IsFiniteSet(I) /\ n \in Nat /\ I \in SUBSET (1..Len(s))
  <2>1. IsFiniteSet(1..Len(s))
    BY <1>1, FS_Interval
  <2>2. I \in SUBSET (1..Len(s))
    BY <1>1
  <2> QED
    BY <2>1, <2>2, FS_Subset, FS_CardinalityType
<1>3. \A k \in 1..n : Place(k) \in I /\ B(Place(k)) = k - 1
  <2> SUFFICES ASSUME NEW k \in 1..n
               PROVE  \E i \in I : B(i) = k - 1
    OBVIOUS
  <2>1. k - 1 \in Nat /\ k - 1 < Cardinality(I)
    BY <1>2
  <2> HIDE DEF I
  <2> QED
    BY <1>1, <1>2, <2>1, Places
<1>4. \A k, l \in 1..n : Place(k) = Place(l) => k = l
  <2> SUFFICES ASSUME NEW k \in 1..n, NEW l \in 1..n, Place(k) = Place(l)
               PROVE  k = l
    OBVIOUS
  <2>1. k - 1 = l - 1
    BY <1>3
  <2> QED
    BY <2>1
<1>5. Filtered(s, S) = [k \in 1..n |-> s[Place(k)]]
  BY DEF Filtered
<1> HIDE DEF Place, n, B
<1>6. \A k \in 1..n : s[Place(k)] \in T /\ s[Place(k)] \in S
  BY <1>1, <1>3
<1>7. Filtered(s, S) \in Seq(T) /\ Len(Filtered(s, S)) = n /\ DOMAIN Filtered(s, S) = 1..n
  BY <1>2, <1>5, <1>6
<1>8. Elems(Filtered(s, S)) \subseteq Elems(s) \cap S
  BY <1>1, <1>3, <1>5, <1>6, <1>7 DEF Elems
<1>9. Unique(s) => Unique(Filtered(s, S))
  BY <1>3, <1>4, <1>5, <1>7 DEF Unique
<1> QED
  BY <1>7, <1>8, <1>9

\* What the buttons of an ordered list do.
LEMMA MovedItem ==
  ASSUME NEW T, NEW s \in Seq(T), NEW i \in Nat \ {0}, i + 1 <= Len(s)
  PROVE  LET t == [s EXCEPT ![i] = s[i + 1], ![i + 1] = s[i]] IN
         t \in Seq(T) /\ Len(t) = Len(s) /\ (Unique(s) => Unique(t))
<1> DEFINE t == [s EXCEPT ![i] = s[i + 1], ![i + 1] = s[i]]
<1>1. DOMAIN s = 1..Len(s) /\ Len(s) \in Nat /\ i \in DOMAIN s /\ i + 1 \in DOMAIN s
      /\ \A j \in DOMAIN s : s[j] \in T
  OBVIOUS
<1>2. DOMAIN t = DOMAIN s
  BY <1>1
<1>3. \A j \in DOMAIN s : t[j] = IF j = i THEN s[i + 1] ELSE IF j = i + 1 THEN s[i] ELSE s[j]
  BY <1>1
<1>4. t = [j \in 1..Len(s) |-> t[j]]
  BY <1>1
<1> HIDE DEF t
<1>5. t \in Seq(T) /\ Len(t) = Len(s)
  <2>1. \A j \in 1..Len(s) : t[j] \in T
    BY <1>1, <1>3
  <2> QED
    BY <1>1, <1>4, <2>1
<1>6. Unique(s) => Unique(t)
  BY <1>1, <1>2, <1>3 DEF Unique
<1> QED
  BY <1>5, <1>6 DEF t

LEMMA RemovedItem ==
  ASSUME NEW T, NEW s \in Seq(T), NEW i \in 1..Len(s)
  PROVE  LET t == SubSeq(s, 1, i - 1) \o SubSeq(s, i + 1, Len(s)) IN
         t \in Seq(T) /\ Len(t) = Len(s) - 1 /\ (Unique(s) => Unique(t))
<1> DEFINE a == SubSeq(s, 1, i - 1)
           b == SubSeq(s, i + 1, Len(s))
           t == a \o b
<1>1. DOMAIN s = 1..Len(s) /\ Len(s) \in Nat /\ i \in Int
  OBVIOUS
<1>2. a \in Seq(T) /\ Len(a) = i - 1 /\ \A j \in 1..(i - 1) : a[j] = s[j]
  OBVIOUS
<1>3. b \in Seq(T) /\ Len(b) = Len(s) - i /\ \A j \in 1..(Len(s) - i) : b[j] = s[i + j]
  OBVIOUS
<1> HIDE DEF a, b
<1>4. t \in Seq(T) /\ Len(t) = Len(s) - 1 /\ DOMAIN t = 1..(Len(s) - 1)
  <2>1. t \in Seq(T) /\ Len(t) = Len(a) + Len(b)
    BY <1>2, <1>3, ConcatProperties
  <2>2. Len(t) = Len(s) - 1
    BY <1>1, <1>2, <1>3, <2>1
  <2> HIDE DEF t
  <2> QED
    BY <2>1, <2>2
<1>5. \A j \in 1..(Len(s) - 1) : t[j] = IF j < i THEN s[j] ELSE s[j + 1]
  <2> SUFFICES ASSUME NEW j \in 1..(Len(s) - 1)
               PROVE  t[j] = IF j < i THEN s[j] ELSE s[j + 1]
    OBVIOUS
  <2>1. CASE j < i
    BY <1>1, <1>2, <1>3, <2>1
  <2>2. CASE ~(j < i)
    <3>1. t[j] = b[j - (i - 1)]
      BY <1>1, <1>2, <1>3, <2>2
    <3>2. j - (i - 1) \in 1..(Len(s) - i) /\ i + (j - (i - 1)) = j + 1
      BY <1>1, <2>2
    <3> QED
      BY <1>3, <2>2, <3>1, <3>2
  <2> QED
    BY <2>1, <2>2
<1> HIDE DEF t
<1>6. Unique(s) => Unique(t)
  <2> DEFINE p(j) == IF j < i THEN j ELSE j + 1
  <2>1. \A j \in 1..(Len(s) - 1) : p(j) \in DOMAIN s /\ t[j] = s[p(j)]
    BY <1>1, <1>5
  <2>2. \A j, k \in 1..(Len(s) - 1) : p(j) = p(k) => j = k
    BY <1>1
  <2> HIDE DEF p
  <2> QED
    BY <1>4, <2>1, <2>2 DEF Unique
<1> QED
  BY <1>4, <1>6 DEF t, a, b

LEMMA AddedItem ==
  ASSUME NEW T, NEW s \in Seq(T), NEW x \in T, x \notin Elems(s)
  PROVE  /\ Append(s, x) \in Seq(T) /\ Len(Append(s, x)) = Len(s) + 1
         /\ Unique(s) => Unique(Append(s, x))
<1>1. DOMAIN s = 1..Len(s) /\ Len(s) \in Nat
  OBVIOUS
<1>2. Append(s, x) \in Seq(T) /\ Len(Append(s, x)) = Len(s) + 1
      /\ DOMAIN Append(s, x) = 1..(Len(s) + 1)
  OBVIOUS
<1>3. \A j \in 1..(Len(s) + 1) : Append(s, x)[j] = IF j = Len(s) + 1 THEN x ELSE s[j]
  OBVIOUS
<1>4. \A j \in 1..Len(s) : s[j] # x
  BY DEF Elems
<1>5. Unique(s) => Unique(Append(s, x))
  BY <1>1, <1>2, <1>3, <1>4 DEF Unique
<1> QED
  BY <1>2, <1>5

-------------------------------------------------------------------------------
(* Readiness.                                                              *)

\* Rows of the limits have a number.
LEMMA LimitType ==
  ASSUME NEW R, IsRules(R), NEW q, R[PassengerLimitRuleKey(q)] # NoRule
  PROVE  R[PassengerLimitRuleKey(q)].value \in 1..MaxPassengers
  BY SceneAssumption DEF IsRules, PassengerLimitRuleKey, RuleKey

\* What READY says: no item of the report is bad or doubtful.
LEMMA ReadyItems ==
  ASSUME NEW c, NEW f, NEW S, Overall(ComputeReadiness(c, f, S)) = "READY"
  PROVE  \A k \in DOMAIN ComputeReadiness(c, f, S) :
            ComputeReadiness(c, f, S)[k] # "FAIL" /\ ComputeReadiness(c, f, S)[k] # "WARN"
<1> DEFINE report == ComputeReadiness(c, f, S)
<1> HIDE DEF report
<1>1. "FAIL" \notin {report[k] : k \in DOMAIN report} /\ "WARN" \notin {report[k] : k \in DOMAIN report}
  BY DEF Overall, report
<1> QED
  BY <1>1 DEF report

\* What READY promises of a journey.
Safe(c, f) ==
    LET R == f.rules
        limit == R[PassengerLimitRuleKey(c.quota)]
    IN /\ {c.from, c.to} \subseteq f.active /\ f.linked
       /\ Elems(c.passengers) \subseteq f.alive
       /\ Settled(R, PassengerLimitRuleKey(c.quota))
       /\ 0 < Len(c.passengers) /\ Len(c.passengers) <= limit.value
       /\ c.quota \in TatkalQuota =>
            \A x \in Elems(c.classes) :
                \/ Lists(R, "ac_classes", x) /\ Settled(R, "ac_classes") /\ Settled(R, "ac.opening")
                \/ /\ Lists(R, "non_ac_classes", x) /\ Settled(R, "non_ac_classes")
                   /\ Settled(R, "non_ac.opening")

LEMMA ReadyMeansSafe ==
  ASSUME NEW c, NEW f, NEW S, c.passengers \in Seq(Passenger), IsRules(f.rules),
         f.linked \in BOOLEAN,
         Overall(ComputeReadiness(c, f, S)) = "READY"
  PROVE  Safe(c, f)
<1> DEFINE R == f.rules
           key == PassengerLimitRuleKey(c.quota)
           people == Elems(c.passengers)
<1>1. \A k \in DOMAIN ComputeReadiness(c, f, S) :
         ComputeReadiness(c, f, S)[k] # "FAIL" /\ ComputeReadiness(c, f, S)[k] # "WARN"
  BY ReadyItems
<1>2. {c.from, c.to} \subseteq f.active /\ f.linked
  <2>1. /\ {c.from, c.to, c.boarding} \ (f.active \cup {NoStation}) = {}
        /\ c.from # NoStation /\ c.to # NoStation
    BY <1>1 DEF ComputeReadiness, Judge
  <2>2. f.linked
    BY <1>1 DEF ComputeReadiness, Judge
  <2> QED
    BY <2>1, <2>2
<1>3. people # {}
  BY <1>1 DEF ComputeReadiness, Judge
<1>4. people \subseteq f.alive
  BY <1>1, <1>3 DEF ComputeReadiness, Judge
<1>5. R[key] # NoRule /\ ~(Len(c.passengers) > R[key].value)
  BY <1>1 DEF ComputeReadiness, Judge
<1>6. 0 < Len(c.passengers) /\ Len(c.passengers) <= R[key].value
  <2>1. R[key].value \in Int /\ Len(c.passengers) \in Nat
    BY <1>5, LimitType
  <2>2. Len(c.passengers) # 0
    BY <1>3 DEF Elems
  <2> QED
    BY <1>5, <2>1, <2>2
<1>7. \A k \in RelevantRuleKeys(c, R) : Settled(R, k)
  BY <1>1 DEF ComputeReadiness, Judge
<1>8. Settled(R, key)
  BY <1>7 DEF RelevantRuleKeys
<1>9. ASSUME c.quota \in TatkalQuota, NEW x \in Elems(c.classes)
      PROVE  \/ Lists(R, "ac_classes", x) /\ Settled(R, "ac_classes") /\ Settled(R, "ac.opening")
             \/ /\ Lists(R, "non_ac_classes", x) /\ Settled(R, "non_ac_classes")
                /\ Settled(R, "non_ac.opening")
  <2>1. c.classes # <<>>
    BY <1>9 DEF Elems
  <2>2. "UNKNOWN" \notin Categories(c, R)
    BY <1>1, <1>9, <2>1 DEF ComputeReadiness, Judge
  <2>3. ClassTatkalCategory(x, R) \in Categories(c, R)
    BY <1>9 DEF Categories
  <2>4. CASE Lists(R, "ac_classes", x)
    <3>1. "AC" \in Categories(c, R)
      BY <2>3, <2>4 DEF ClassTatkalCategory
    <3> QED
      BY <1>7, <1>9, <2>4, <3>1 DEF RelevantRuleKeys
  <2>5. CASE ~Lists(R, "ac_classes", x)
    <3>1. Lists(R, "non_ac_classes", x) /\ "NON_AC" \in Categories(c, R)
      BY <2>2, <2>3, <2>5 DEF ClassTatkalCategory
    <3> QED
      BY <1>7, <1>9, <3>1 DEF RelevantRuleKeys
  <2> QED
    BY <2>4, <2>5
<1> QED
  BY <1>2, <1>4, <1>6, <1>8, <1>9 DEF Safe

\* Two sets of rules that agree on what a journey relies on judge it alike.
LEMMA RelevantRulesDecide ==
  ASSUME NEW c, NEW f, NEW g, NEW S,
         g.today = f.today, g.active = f.active, g.alive = f.alive, g.linked = f.linked,
         g.stops = f.stops,
         \A k \in RelevantRuleKeys(c, f.rules) : g.rules[k] = f.rules[k]
  PROVE  Overall(ComputeReadiness(c, g, S)) = Overall(ComputeReadiness(c, f, S))
<1> DEFINE R == f.rules
           Q == g.rules
           key == PassengerLimitRuleKey(c.quota)
           a == ComputeReadiness(c, f, S)
           b == ComputeReadiness(c, g, S)
           K == {"route", "journey_date", "passengers", "passenger_details", "passenger_names",
                 "passenger_count", "senior_concession", "irctc_account", "classes",
                 "class_rules", "trains", "rules_verified", "rules_changed"}
<1>1. Q[key] = R[key] /\ Q["name.max"] = R["name.max"]
  BY DEF RelevantRuleKeys
<1>2. ASSUME c.quota \in TatkalQuota
      PROVE  \A x \in Elems(c.classes) : ClassTatkalCategory(x, Q) = ClassTatkalCategory(x, R)
  <2>1. Q["ac_classes"] = R["ac_classes"]
    BY <1>2 DEF RelevantRuleKeys
  <2>2. \A x : Lists(Q, "ac_classes", x) <=> Lists(R, "ac_classes", x)
    BY <2>1 DEF Lists
  <2>3. CASE Categories(c, R) \cap {"NON_AC", "UNKNOWN"} # {}
    <3>1. Q["non_ac_classes"] = R["non_ac_classes"]
      BY <1>2, <2>3 DEF RelevantRuleKeys
    <3>2. \A x : Lists(Q, "non_ac_classes", x) <=> Lists(R, "non_ac_classes", x)
      BY <3>1 DEF Lists
    <3> QED
      BY <2>2, <3>2 DEF ClassTatkalCategory
  <2>4. CASE Categories(c, R) \cap {"NON_AC", "UNKNOWN"} = {}
    <3>1. \A x \in Elems(c.classes) : Lists(R, "ac_classes", x)
      BY <2>4 DEF Categories, ClassTatkalCategory
    <3> QED
      BY <2>2, <3>1 DEF ClassTatkalCategory
  <2> QED
    BY <2>3, <2>4
<1>3. c.quota \in TatkalQuota => Categories(c, Q) = Categories(c, R)
  BY <1>2 DEF Categories
<1>4. RelevantRuleKeys(c, Q) = RelevantRuleKeys(c, R)
  BY <1>3 DEF RelevantRuleKeys
<1>5. \A k \in RelevantRuleKeys(c, R) : Settled(Q, k) <=> Settled(R, k)
  BY DEF Settled
<1>6. DOMAIN a = K /\ DOMAIN b = K
  BY DEF ComputeReadiness
<1>7. a["rules_verified"] = b["rules_verified"]
  BY <1>4, <1>5 DEF ComputeReadiness, Judge
<1>8. a["class_rules"] = b["class_rules"]
  BY <1>3 DEF ComputeReadiness, Judge
<1>9. a["passenger_count"] = b["passenger_count"] /\ a["passenger_names"] = b["passenger_names"]
  BY <1>1 DEF ComputeReadiness, Judge
<1>10. a["trains"] = b["trains"]
  BY DEF ComputeReadiness, Judge, OffRoute
<1>11. /\ a["route"] = b["route"] /\ a["journey_date"] = b["journey_date"]
       /\ a["passengers"] = b["passengers"] /\ a["passenger_details"] = b["passenger_details"]
       /\ a["irctc_account"] = b["irctc_account"] /\ a["classes"] = b["classes"]
  BY DEF ComputeReadiness, Judge
<1>12. /\ a["senior_concession"] \in {"", "INFO"} /\ b["senior_concession"] \in {"", "INFO"}
       /\ a["rules_changed"] \in {"", "INFO"} /\ b["rules_changed"] \in {"", "INFO"}
  BY DEF ComputeReadiness
<1> HIDE DEF a, b
<1>13. \A k \in K : a[k] = b[k] \/ (a[k] \in {"", "INFO"} /\ b[k] \in {"", "INFO"})
  BY <1>7, <1>8, <1>9, <1>10, <1>11, <1>12
<1>14. \A status \in {"FAIL", "WARN"} :
          status \in {a[k] : k \in DOMAIN a} <=> status \in {b[k] : k \in DOMAIN b}
  <2> SUFFICES ASSUME NEW status \in {"FAIL", "WARN"}
               PROVE  status \in {a[k] : k \in K} <=> status \in {b[k] : k \in K}
    BY <1>6
  <2>1. status # "" /\ status # "INFO"
    OBVIOUS
  <2> HIDE DEF K
  <2>2. \A k \in K : a[k] = status <=> b[k] = status
    BY <1>13, <2>1
  <2> QED
    BY <2>2
<1> QED
  BY <1>14 DEF Overall, a, b

-------------------------------------------------------------------------------
(* What the user does to the draft.                                        *)

UserEdit ==
    \/ Swap \/ SetAny
    \/ \E place \in {"from", "to", "boarding"} :
          ClearStation(place) \/ \E s \in Station : PickStation(place, s)
    \/ \E d \in Date : SetDate(d)
    \/ \E n \in {Blank, Own} : SetName(n)
    \/ \E q \in Quota : SetQuota(q)
    \/ \E i \in 1..Len(Steps), l \in {"trains", "classes"} : MoveItem(l, i) \/ RemoveItem(l, i)
    \/ \E x \in Train : AddItem("trains", x)
    \/ \E x \in Class : AddItem("classes", x)
    \/ \E p \in Passenger : TogglePassenger(p)

\* The draft becomes d, the same but for some fields.
Edits(d, fields) ==
    /\ Update(d, fields)
    /\ d \in Drafts /\ ListsValid(d) /\ fields \subseteq Fields
    /\ \A f \in Fields \ fields : d[f] = draft[f]

\* An ordered list stays one.
LEMMA ListEdit ==
  ASSUME TypeOK, NEW l \in {"trains", "classes"}, NEW s,
         l = "trains" => s \in Seq(Train) /\ Len(s) <= MaxTrains,
         l = "classes" => s \in Seq(Class) /\ s # <<>>,
         Unique(s), Update([draft EXCEPT ![l] = s], {l})
  PROVE  Edits([draft EXCEPT ![l] = s], {l})
<1>1. draft \in Drafts /\ ListsValid(draft)
  BY DEF TypeOK
<1>2. CASE l = "trains"
  BY <1>1, <1>2 DEF Drafts, ListsValid, Edits, Fields
<1>3. CASE l = "classes"
  BY <1>1, <1>3 DEF Drafts, ListsValid, Edits, Fields
<1> QED
  BY <1>2, <1>3

LEMMA UserEdits ==
  ASSUME TypeOK, UserEdit
  PROVE  \E d, fields : Edits(d, fields)
<1>0. draft \in Drafts /\ ListsValid(draft) /\ MaxTrains \in Nat
  BY EditorAssumption DEF TypeOK
<1>1. CASE Swap
  <2> DEFINE d == [draft EXCEPT !.from = draft.to, !.to = draft.from]
  <2>1. Update(d, {"from", "to"})
    BY <1>1 DEF Swap
  <2>2. d \in Drafts /\ ListsValid(d) /\ \A f \in Fields \ {"from", "to"} : d[f] = draft[f]
    BY <1>0 DEF Drafts, ListsValid, Fields
  <2> HIDE DEF d
  <2>3. Edits(d, {"from", "to"})
    BY <2>1, <2>2 DEF Edits, Fields
  <2> QED
    BY <2>3
<1>2. CASE SetAny
  <2> DEFINE d == [draft EXCEPT !.any = ~draft.any]
  <2>1. Update(d, {"any"})
    BY <1>2 DEF SetAny
  <2>2. (~draft.any) \in BOOLEAN
    OBVIOUS
  <2>3. d \in Drafts /\ ListsValid(d) /\ \A f \in Fields \ {"any"} : d[f] = draft[f]
    BY <1>0, <2>2 DEF Drafts, ListsValid, Fields
  <2> HIDE DEF d
  <2>4. Edits(d, {"any"})
    BY <2>1, <2>3 DEF Edits, Fields
  <2> QED
    BY <2>4
<1>3. ASSUME NEW place \in {"from", "to", "boarding"}, NEW s \in Station \cup {NoStation},
             Update([draft EXCEPT ![place] = s], {place})
      PROVE  Edits([draft EXCEPT ![place] = s], {place})
  <2>1. CASE place = "from"
    BY <1>0, <1>3, <2>1 DEF Drafts, ListsValid, Edits, Fields
  <2>2. CASE place = "to"
    BY <1>0, <1>3, <2>2 DEF Drafts, ListsValid, Edits, Fields
  <2>3. CASE place = "boarding"
    BY <1>0, <1>3, <2>3 DEF Drafts, ListsValid, Edits, Fields
  <2> QED
    BY <2>1, <2>2, <2>3
<1>4. CASE \E place \in {"from", "to", "boarding"} :
             ClearStation(place) \/ \E s \in Station : PickStation(place, s)
  BY <1>3, <1>4 DEF ClearStation, PickStation
<1>5. CASE \E d \in Date : SetDate(d)
  BY <1>0, <1>5 DEF SetDate, Drafts, ListsValid, Edits, Fields
<1>6. CASE \E n \in {Blank, Own} : SetName(n)
  BY <1>0, <1>6 DEF SetName, Drafts, ListsValid, Edits, Fields
<1>7. CASE \E q \in Quota : SetQuota(q)
  <2> PICK q \in Quota : SetQuota(q)
    BY <1>7
  <2> DEFINE d == [draft EXCEPT !.quota = q]
  <2>1. Update(d, {"quota"})
    BY DEF SetQuota
  <2>2. d \in Drafts /\ ListsValid(d) /\ \A f \in Fields \ {"quota"} : d[f] = draft[f]
    BY <1>0 DEF Drafts, ListsValid, Fields
  <2> HIDE DEF d
  <2>3. Edits(d, {"quota"})
    BY <2>1, <2>2 DEF Edits, Fields
  <2> QED
    BY <2>3
<1>8. /\ draft["trains"] \in Seq(Train) /\ draft["classes"] \in Seq(Class)
      /\ draft.passengers \in Seq(Passenger)
      /\ Unique(draft["trains"]) /\ Unique(draft["classes"]) /\ Unique(draft.passengers)
      /\ Len(draft["trains"]) <= MaxTrains /\ draft["classes"] # <<>>
  BY <1>0 DEF Drafts, ListsValid
<1>9. ASSUME NEW i \in 1..Len(Steps), NEW l \in {"trains", "classes"},
             MoveItem(l, i) \/ RemoveItem(l, i)
      PROVE  \E d, fields : Edits(d, fields)
  <2> DEFINE s == draft[l]
             T == IF l = "trains" THEN Train ELSE Class
  <2>1. s \in Seq(T) /\ Unique(s) /\ Len(s) \in Nat
    BY <1>8
  <2>2. i \in Nat \ {0}
    BY DEF Steps
  <2>3. CASE MoveItem(l, i)
    <3> DEFINE t == [s EXCEPT ![i] = s[i + 1], ![i + 1] = s[i]]
    <3>1. i + 1 <= Len(s) /\ Update([draft EXCEPT ![l] = t], {l})
      BY <2>3 DEF MoveItem
    <3>2. t \in Seq(T) /\ Len(t) = Len(s) /\ Unique(t)
      BY <2>1, <2>2, <3>1, MovedItem
    <3> HIDE DEF t
    <3>3. l = "classes" => t # <<>>
      BY <2>1, <2>2, <3>1, <3>2
    <3> QED
      BY <1>8, <3>1, <3>2, <3>3, ListEdit
  <2>4. CASE RemoveItem(l, i)
    <3> DEFINE t == SubSeq(s, 1, i - 1) \o SubSeq(s, i + 1, Len(s))
    <3>1. i <= Len(s) /\ (l = "classes" => Len(s) > 1) /\ Update([draft EXCEPT ![l] = t], {l})
      BY <2>4 DEF RemoveItem
    <3>2. t \in Seq(T) /\ Len(t) = Len(s) - 1 /\ Unique(t)
      <4>1. i \in 1..Len(s)
        BY <2>1, <2>2, <3>1
      <4> QED
        BY <2>1, <4>1, RemovedItem
    <3> HIDE DEF t
    <3>3. l = "classes" => t # <<>>
      BY <2>1, <3>1, <3>2
    <3>4. l = "trains" => Len(t) <= MaxTrains
      BY <1>0, <1>8, <2>1, <3>2
    <3> QED
      BY <3>1, <3>2, <3>3, <3>4, ListEdit
  <2> QED
    BY <1>9, <2>3, <2>4
<1>10. ASSUME NEW l \in {"trains", "classes"},
              NEW x \in IF l = "trains" THEN Train ELSE Class, AddItem(l, x)
       PROVE  \E d, fields : Edits(d, fields)
  <2> DEFINE s == draft[l]
             T == IF l = "trains" THEN Train ELSE Class
             t == Append(s, x)
  <2>1. s \in Seq(T) /\ Unique(s) /\ Len(s) \in Nat
    BY <1>8
  <2>2. /\ x \notin Elems(s) /\ (l = "trains" => Len(s) < MaxTrains)
        /\ Update([draft EXCEPT ![l] = t], {l})
    BY <1>10 DEF AddItem
  <2>3. t \in Seq(T) /\ Len(t) = Len(s) + 1 /\ Unique(t)
    BY <2>1, <2>2, AddedItem
  <2> HIDE DEF t
  <2>4. t # <<>> /\ (l = "trains" => Len(t) <= MaxTrains)
    BY <1>0, <2>1, <2>2, <2>3
  <2> QED
    BY <2>2, <2>3, <2>4, ListEdit
<1>11. ASSUME NEW p \in Passenger, TogglePassenger(p)
       PROVE  \E d, fields : Edits(d, fields)
  <2> DEFINE s == draft.passengers
             t == IF p \in Elems(s) THEN Filtered(s, Passenger \ {p}) ELSE Append(s, p)
             d == [draft EXCEPT !.passengers = t]
  <2>1. Update(d, {"passengers"})
    BY <1>11 DEF TogglePassenger
  <2>2. t \in Seq(Passenger) /\ Unique(t)
    BY <1>8, FilteredList, AddedItem
  <2> HIDE DEF t
  <2>3. Edits(d, {"passengers"})
    BY <1>0, <2>1, <2>2 DEF Drafts, ListsValid, Edits, Fields
  <2> QED
    BY <2>3
<1> QED
  BY <1>1, <1>2, <1>4, <1>5, <1>6, <1>7, <1>9, <1>10, <1>11 DEF UserEdit

-------------------------------------------------------------------------------
(* Requests: one at a time, and checked before it is sent.                 *)

Checked(w) ==
    /\ w.d.from # NoStation /\ w.d.to # NoStation /\ w.d.to # w.d.from
    /\ w.d.boarding # NoStation => w.d.boarding # w.d.to
    /\ scene.mode = "journey" => w.d.date # NoDate /\ w.d.passengers # <<>>
    /\ scene.mode = "template" => w.d.date = NoDate
    /\ w.limit # NoRule => w.limit <= MaxPassengers /\ Len(w.d.passengers) <= w.limit

RequestInv ==
    /\ Len(wire) <= 1
    /\ wire # <<>> => answer = {}
    /\ phase = "editing" => wire = <<>> /\ answer = {}
    /\ phase = "saving" => wire # <<>> \/ answer # {}
    /\ \A i \in DOMAIN wire : Checked(wire[i])

\* The draft of a record keeps what the record is.
LEMMA DraftOfRecord ==
  ASSUME NEW c, NEW mode, IsRecord(c, mode), NEW S
  PROVE  /\ IsRecord(DraftFromConfig(c, S), mode)
         /\ \A f \in Fields \ {"passengers"} : DraftFromConfig(c, S)[f] = c[f]
         /\ Elems(DraftFromConfig(c, S).passengers) \subseteq Elems(c.passengers)
<1> DEFINE t == Filtered(c.passengers, S)
           d == [c EXCEPT !.passengers = t]
<1>1. c \in Drafts /\ ListsValid(c) /\ c.passengers \in Seq(Passenger)
  BY DEF IsRecord, Drafts
<1>2. t \in Seq(Passenger) /\ Elems(t) \subseteq Elems(c.passengers) /\ Unique(t)
  <2>1. Unique(c.passengers)
    BY <1>1 DEF ListsValid
  <2> QED
    BY <1>1, <2>1, FilteredList
<1> HIDE DEF t
<1>3. d \in Drafts /\ d.passengers = t /\ \A f \in Fields \ {"passengers"} : d[f] = c[f]
  BY <1>1, <1>2 DEF Drafts, Fields
<1>4. d = DraftFromConfig(c, S)
  BY DEF DraftFromConfig, t
<1> HIDE DEF d
<1>5. IsRecord(d, mode)
  BY <1>1, <1>2, <1>3 DEF IsRecord, ListsValid, Fields
<1> QED
  BY <1>2, <1>3, <1>4, <1>5

\* What is found to be in order step by step can be sent.
LEMMA PayloadType ==
  ASSUME TypeOK
  PROVE  /\ Payload(draft) \in [d : Drafts, limit : Nat \cup {NoRule}]
         /\ ListsValid(Payload(draft).d)
         /\ \A f \in Fields \ {"date"} : Payload(draft).d[f] = draft[f]
         /\ Payload(draft).d.date = IF scene.mode = "journey" THEN draft.date ELSE NoDate
         /\ Payload(draft).limit = LimitOf(held.rules, draft.quota)
<1>1. draft \in Drafts /\ ListsValid(draft) /\ IsRules(held.rules)
  BY DEF TypeOK
<1>2. LimitOf(held.rules, draft.quota) \in Nat \cup {NoRule}
  BY <1>1, LimitType DEF LimitOf
<1> QED
  BY <1>1, <1>2 DEF Payload, Drafts, ListsValid, Fields

LEMMA PayloadChecked ==
  ASSUME TypeOK, \A i \in DOMAIN Steps : ValidateStep(i, draft) = {}
  PROVE  Checked(Payload(draft))
<1>1. ValidateStep(1, draft) = {} /\ ValidateStep(4, draft) = {}
  BY DEF Steps
<1>2. /\ draft.from # NoStation /\ draft.to # NoStation /\ draft.to # draft.from
      /\ draft.boarding # NoStation => draft.boarding # draft.to
      /\ scene.mode = "journey" => draft.date # NoDate
  BY <1>1 DEF ValidateStep, Steps, When
<1>3. /\ scene.mode = "journey" => draft.passengers # <<>>
      /\ LET limit == LimitOf(held.rules, draft.quota)
         IN ~(limit # NoRule /\ Len(draft.passengers) > limit)
  BY <1>1 DEF ValidateStep, Steps, When
<1>4. LimitOf(held.rules, draft.quota) # NoRule =>
         /\ LimitOf(held.rules, draft.quota) \in 1..MaxPassengers
         /\ Len(draft.passengers) \in Nat
         /\ Len(draft.passengers) <= LimitOf(held.rules, draft.quota)
  <2>1. IsRules(held.rules) /\ Len(draft.passengers) \in Nat
    BY DEF TypeOK, Drafts
  <2>2. LimitOf(held.rules, draft.quota) # NoRule =>
           LimitOf(held.rules, draft.quota) \in 1..MaxPassengers
    BY <2>1, LimitType DEF LimitOf
  <2> HIDE DEF LimitOf
  <2> QED
    BY <1>3, <2>1, <2>2
<1>5. MaxPassengers \in Nat
  BY EditorAssumption
<1> QED
  BY <1>2, <1>3, <1>4, <1>5, PayloadType DEF Checked, Fields

\* What is stored is a record.
LEMMA StoredRecord ==
  ASSUME TypeOK, NEW w \in [d : Drafts, limit : Nat \cup {NoRule}], ListsValid(w.d), Checked(w)
  PROVE  /\ IsRecord(Stored(w.d), scene.mode)
         /\ \A f \in Fields \ {"boarding", "name"} : Stored(w.d)[f] = w.d[f]
         /\ Stored(w.d).boarding = IF w.d.boarding = w.d.from THEN NoStation ELSE w.d.boarding
         /\ ~scene.creates => Stored(w.d).name = IF w.d.name # Blank THEN w.d.name ELSE stored.name
<1> DEFINE c == w.d
           b == IF c.boarding = c.from THEN NoStation ELSE c.boarding
           n == IF c.name # Blank THEN c.name
                ELSE IF scene.creates THEN <<c.from, c.to>> ELSE stored.name
           r == [c EXCEPT !.boarding = b, !.name = n]
<1>1. c \in Drafts
  OBVIOUS
<1>2. b \in Station \cup {NoStation} /\ b # c.from
  BY <1>1 DEF Drafts, Checked
<1>3. n \in {Blank, Own} \cup (Station \X Station)
  <2>1. <<c.from, c.to>> \in Station \X Station
    BY <1>1 DEF Drafts, Checked
  <2>2. ~scene.creates => stored \in Drafts
    BY DEF TypeOK, IsRecord
  <2> QED
    BY <1>1, <2>1, <2>2 DEF Drafts
<1> HIDE DEF b, n
<1>4. r \in Drafts /\ (\A f \in Fields \ {"boarding", "name"} : r[f] = c[f]) /\ r.boarding = b
      /\ r.name = n
  BY <1>1, <1>2, <1>3 DEF Drafts, Fields
<1>5. r = Stored(w.d)
  BY DEF Stored, b, n
<1> HIDE DEF r
<1>6. IsRecord(r, scene.mode)
  BY <1>2, <1>4 DEF IsRecord, ListsValid, Checked, Fields
<1> QED
  BY <1>4, <1>5, <1>6 DEF b, n

-------------------------------------------------------------------------------
(* The types, part by part.                                                *)

ServerType ==
    /\ scene \in Scene /\ IsFacts(facts)
    /\ stored = NoRecord \/ IsRecord(stored, scene.mode)
    /\ created \in Nat
HeldType ==
    /\ DOMAIN held = {"record", "passengers", "rules", "today"}
    /\ held.record = NoRecord \/ IsRecord(held.record, scene.mode)
    /\ ~scene.creates => held.record # NoRecord /\ stored # NoRecord
    /\ held.passengers \subseteq Passenger /\ IsRules(held.rules) /\ held.today \in Date
ErrorFields == {"name", "from", "to", "boarding", "journeyDate", "classes", "passengers"}
EditorType ==
    /\ phase \in {"away", "editing", "saving"}
    /\ draft \in Drafts /\ ListsValid(draft) /\ visited \in 1..Len(Steps) /\ step \in 1..visited
    /\ errors \subseteq ErrorFields
RequestType ==
    /\ lost \in Nat /\ raced \in BOOLEAN
    /\ wire \in Seq([d : Drafts, limit : Nat \cup {NoRule}])
    /\ \A i \in DOMAIN wire : ListsValid(wire[i].d)
    /\ answer \subseteq {"passengers", "trains", "classes", "to", "boarding", "journeyDate"}
       \/ answer \in {{"saved"}, {"refused"}}

LEMMA TypeParts ==
  /\ TypeOK <=> ServerType /\ HeldType /\ EditorType /\ RequestType
  /\ TypeOK' <=> ServerType' /\ HeldType' /\ EditorType' /\ RequestType'
  BY DEF TypeOK, ServerType, HeldType, EditorType, RequestType, ErrorFields

LEMMA SameTypes ==
  /\ ServerType /\ UNCHANGED <<scene, server>> => ServerType'
  /\ HeldType /\ UNCHANGED <<scene, stored, held>> => HeldType'
  /\ EditorType /\ UNCHANGED editor => EditorType'
  /\ RequestType /\ UNCHANGED <<lost, raced, wire, answer>> => RequestType'
<1>1. ServerType /\ UNCHANGED <<scene, server>> => ServerType'
  BY DEF ServerType, server
<1>2. HeldType /\ UNCHANGED <<scene, stored, held>> => HeldType'
  BY DEF HeldType
<1>3. EditorType /\ UNCHANGED editor => EditorType'
  BY DEF EditorType, editor
<1>4. RequestType /\ UNCHANGED <<lost, raced, wire, answer>> => RequestType'
  BY DEF RequestType
<1> QED
  BY <1>1, <1>2, <1>3, <1>4

LEMMA RenderedType ==
  ASSUME ServerType, HeldType, Rendered, UNCHANGED <<scene, stored>>
  PROVE  /\ HeldType'
         /\ held'.record = held.record /\ held'.rules = held.rules
         /\ held'.passengers = held.passengers
<1>1. facts.today \in Date
  BY DEF ServerType, IsFacts
<1>2. /\ DOMAIN held' = DOMAIN held /\ held'.record = held.record
      /\ held'.passengers = held.passengers /\ held'.rules = held.rules
      /\ held'.today = facts.today
  BY DEF HeldType, Rendered
<1> QED
  BY <1>1, <1>2 DEF HeldType

LEMMA EmptyType == EmptyDraft \in Drafts /\ ListsValid(EmptyDraft)
<1>1. /\ NoStation \in Station \cup {NoStation} /\ NoDate \in Date \cup {NoDate}
      /\ <<>> \in Seq(Passenger) /\ <<>> \in Seq(Train) /\ Len(<<>>) = 0
      /\ DefaultQuota \in Quota /\ DefaultClasses \in Seq(Class)
  BY EditorAssumption
<1>2. EmptyDraft \in Drafts
  BY <1>1 DEF EmptyDraft, Drafts
<1>3. ListsValid(EmptyDraft)
  BY <1>1, EditorAssumption DEF EmptyDraft, ListsValid, Unique
<1> QED
  BY <1>2, <1>3

LEMMA RecordsAreThere == \A c, mode : IsRecord(c, mode) => c # NoRecord
  BY EditorAssumption DEF IsRecord

\* Answers are of what is on the server, or as they were.
LEMMA AnswersType ==
  ASSUME ServerType, HeldType, UNCHANGED <<scene, stored>>,
         held' = [record |-> IF stored = NoRecord THEN NoRecord
                             ELSE IF facts.deleted THEN held.record
                             ELSE DraftFromConfig(stored, facts.alive),
                  passengers |-> facts.alive, rules |-> facts.rules, today |-> facts.today]
  PROVE  HeldType'
<1>1. IsFacts(facts)
  BY DEF ServerType
<1>2. stored # NoRecord =>
         /\ IsRecord(DraftFromConfig(stored, facts.alive), scene.mode)
         /\ DraftFromConfig(stored, facts.alive) # NoRecord
  BY DraftOfRecord, RecordsAreThere DEF ServerType
<1> DEFINE r == DraftFromConfig(stored, facts.alive)
<1> HIDE DEF r
<1>3. /\ DOMAIN held' = {"record", "passengers", "rules", "today"}
      /\ held'.record = IF stored = NoRecord THEN NoRecord
                        ELSE IF facts.deleted THEN held.record ELSE r
      /\ held'.passengers = facts.alive /\ held'.rules = facts.rules
      /\ held'.today = facts.today
  BY DEF r
<1>4. stored # NoRecord => IsRecord(r, scene.mode) /\ r # NoRecord
  BY <1>2 DEF r
<1> QED
  BY <1>1, <1>3, <1>4 DEF HeldType, IsFacts

LEMMA ErrorsType == \A i : \A d : ValidateStep(i, d) \subseteq ErrorFields
  BY DEF ValidateStep, When, ErrorFields

LEMMA ShowType ==
  ASSUME EditorType, NEW i \in 1..Len(Steps), Show(i)
  PROVE  visited' \in 1..Len(Steps) /\ step' \in 1..visited'
<1>1. Len(Steps) = 6
  BY DEF Steps
<1> QED
  BY <1>1 DEF EditorType, Show

LEMMA InitType == Init => TypeOK /\ RequestInv
<1> SUFFICES ASSUME Init PROVE TypeOK /\ RequestInv
  OBVIOUS
<1>1. /\ scene \in Scene /\ facts \in scene.facts /\ stored \in scene.stored
  BY DEF Init
<1>2. ServerType /\ (~scene.creates => stored # NoRecord)
  <2>1. IsFacts(facts)
    BY <1>1, SceneAssumption
  <2>2. IF scene.creates THEN stored = NoRecord ELSE IsRecord(stored, scene.mode)
    BY <1>1, SceneAssumption
  <2>3. created = 0
    BY DEF Init
  <2>4. IsRecord(stored, scene.mode) => stored # NoRecord
    BY EditorAssumption DEF IsRecord
  <2> QED
    BY <1>1, <2>1, <2>2, <2>3, <2>4 DEF ServerType
<1>3. HeldType
  <2>1. IsFacts(facts)
    BY <1>2 DEF ServerType
  <2> DEFINE r == DraftFromConfig(stored, facts.alive)
  <2>2. stored # NoRecord => IsRecord(r, scene.mode) /\ r # NoRecord
    BY <1>2, DraftOfRecord, RecordsAreThere DEF ServerType
  <2>3. held = [record |-> IF stored = NoRecord THEN NoRecord ELSE r,
                passengers |-> facts.alive, rules |-> facts.rules, today |-> facts.today]
    BY DEF Init
  <2> HIDE DEF r
  <2>4. /\ DOMAIN held = {"record", "passengers", "rules", "today"}
        /\ held.record = IF stored = NoRecord THEN NoRecord ELSE r
        /\ held.passengers = facts.alive /\ held.rules = facts.rules
        /\ held.today = facts.today
    BY <2>3
  <2> QED
    BY <1>2, <2>1, <2>2, <2>4 DEF HeldType, IsFacts
<1>4. EditorType
  <2>1. Len(Steps) = 6
    BY DEF Steps
  <2> QED
    BY <2>1, EmptyType DEF Init, EditorType
<1>5. RequestType /\ RequestInv
  <2>1. wire = <<>> /\ answer = {} /\ phase = "away" /\ raced = FALSE /\ lost = 0
    BY DEF Init
  <2>2. wire \in Seq([d : Drafts, limit : Nat \cup {NoRule}]) /\ Len(wire) = 0 /\ DOMAIN wire = {}
    BY <2>1
  <2>3. RequestType
    BY <2>1, <2>2 DEF RequestType
  <2>4. RequestInv
    BY <2>1, <2>2 DEF RequestInv
  <2> QED
    BY <2>3, <2>4
<1> QED
  BY <1>2, <1>3, <1>4, <1>5, TypeParts

-------------------------------------------------------------------------------
(* Every step keeps the types, and one request is under way at most.       *)

Events ==
    \/ Midnight \/ SetLinked \/ DeleteElsewhere
    \/ \E n \in 0..(MaxTemplates + 1) : CountElsewhere(n)
    \/ \E p \in Passenger : RemovePassenger(p)
    \/ \E x \in scene.rules : SetRule(x[1], x[2])
    \/ \E s \in Station : DropStation(s)

LEMMA NextCases ==
  ASSUME Next
  PROVE  \/ UserEdit \/ Open \/ Close \/ NextStep \/ Save \/ Handle \/ Answer \/ Refetch \/ Events
         \/ \E i \in 1..Len(Steps) : GoTo(i)
         \/ \E c \in scene.elsewhere : SaveElsewhere(c)
  BY DEF Next, UserEdit, Events

\* The facts change and nothing else, but for the cached list of passengers.
LEMMA EventStep ==
  ASSUME TypeOK, Events
  PROVE  /\ IsFacts(facts') /\ HeldType'
         /\ held'.record = held.record /\ held'.rules = held.rules
         /\ UNCHANGED <<scene, stored, snapshot, created, editor, wire, answer, touched, raced, lost>>
<1>0. IsFacts(facts) /\ HeldType /\ scene \in Scene
  BY TypeParts DEF ServerType
<1>1. CASE Midnight
  <2> DEFINE f == [facts EXCEPT !.today = facts.today + 1]
  <2>1. Meanwhile(f) /\ facts.today + 1 \in Date /\ UNCHANGED held
    BY <1>1 DEF Midnight
  <2>2. IsFacts(f)
    BY <1>0, <2>1 DEF IsFacts
  <2> HIDE DEF f
  <2>3. facts' = f
        /\ UNCHANGED <<scene, stored, snapshot, created, editor, wire, answer, touched, raced, lost>>
    BY <2>1 DEF Meanwhile
  <2> QED
    BY <1>0, <2>1, <2>2, <2>3, SameTypes
<1>2. CASE SetLinked
  <2> DEFINE f == [facts EXCEPT !.linked = ~facts.linked]
  <2>1. Meanwhile(f) /\ UNCHANGED held
    BY <1>2 DEF SetLinked
  <2>2. (~facts.linked) \in BOOLEAN
    OBVIOUS
  <2>3. IsFacts(f)
    BY <1>0, <2>2 DEF IsFacts
  <2> HIDE DEF f
  <2>4. facts' = f
        /\ UNCHANGED <<scene, stored, snapshot, created, editor, wire, answer, touched, raced, lost>>
    BY <2>1 DEF Meanwhile
  <2> QED
    BY <1>0, <2>1, <2>3, <2>4, SameTypes
<1>3. ASSUME NEW p \in Passenger, RemovePassenger(p)
      PROVE  /\ IsFacts(facts') /\ HeldType'
             /\ held'.record = held.record /\ held'.rules = held.rules
             /\ UNCHANGED <<scene, stored, snapshot, created, editor, wire, answer, touched,
                           raced, lost>>
  <2> DEFINE f == [facts EXCEPT !.alive = facts.alive \ {p}]
  <2>1. Meanwhile(f) /\ held' = [held EXCEPT !.passengers = held.passengers \ {p}]
    BY <1>3 DEF RemovePassenger
  <2>2. IsFacts(f)
    BY <1>0 DEF IsFacts
  <2> HIDE DEF f
  <2>3. facts' = f
        /\ UNCHANGED <<scene, stored, snapshot, created, editor, wire, answer, touched, raced, lost>>
    BY <2>1 DEF Meanwhile
  <2>4. /\ DOMAIN held' = DOMAIN held /\ held'.record = held.record /\ held'.rules = held.rules
        /\ held'.passengers = held.passengers \ {p} /\ held'.today = held.today
    BY <1>0, <2>1 DEF HeldType
  <2>5. HeldType'
    BY <1>0, <2>3, <2>4 DEF HeldType
  <2> QED
    BY <2>2, <2>3, <2>4, <2>5
<1>4. ASSUME NEW x \in scene.rules, SetRule(x[1], x[2])
      PROVE  /\ IsFacts(facts') /\ UNCHANGED held
             /\ UNCHANGED <<scene, stored, snapshot, created, editor, wire, answer, touched,
                           raced, lost>>
  <2> DEFINE k == x[1]
             r == x[2]
             R == [facts.rules EXCEPT ![k] = r]
             f == [facts EXCEPT !.rules = R]
  <2>1. Meanwhile(f) /\ UNCHANGED held
    BY <1>4 DEF SetRule
  <2>2. k \in RuleKey /\ r \in RuleOf(k)
    <3>1. k \in RuleKey
      BY <1>0, SceneAssumption
    <3>2. r \in RuleOf(k)
      BY <1>0 DEF RuleOf
    <3> QED
      BY <3>1, <3>2
  <2> HIDE DEF k, r
  <2>3. IsRules(R)
    BY <1>0, <2>2 DEF IsFacts, IsRules
  <2> HIDE DEF R
  <2>4. IsFacts(f)
    BY <1>0, <2>3 DEF IsFacts
  <2> HIDE DEF f
  <2>5. facts' = f
        /\ UNCHANGED <<scene, stored, snapshot, created, editor, wire, answer, touched, raced, lost>>
    BY <2>1 DEF Meanwhile
  <2> QED
    BY <2>1, <2>4, <2>5
<1>5. ASSUME NEW s \in Station, DropStation(s)
      PROVE  /\ IsFacts(facts') /\ UNCHANGED held
             /\ UNCHANGED <<scene, stored, snapshot, created, editor, wire, answer, touched,
                           raced, lost>>
  <2> DEFINE f == [facts EXCEPT !.active = facts.active \ {s}]
  <2>1. Meanwhile(f) /\ UNCHANGED held
    BY <1>5 DEF DropStation
  <2>2. IsFacts(f)
    BY <1>0 DEF IsFacts
  <2> HIDE DEF f
  <2>3. facts' = f
        /\ UNCHANGED <<scene, stored, snapshot, created, editor, wire, answer, touched, raced, lost>>
    BY <2>1 DEF Meanwhile
  <2> QED
    BY <2>1, <2>2, <2>3
<1>6. CASE DeleteElsewhere
  <2> DEFINE f == [facts EXCEPT !.deleted = TRUE]
  <2>1. Meanwhile(f) /\ UNCHANGED held
    BY <1>6 DEF DeleteElsewhere
  <2>2. IsFacts(f)
    BY <1>0 DEF IsFacts
  <2> HIDE DEF f
  <2>3. facts' = f
        /\ UNCHANGED <<scene, stored, snapshot, created, editor, wire, answer, touched, raced, lost>>
    BY <2>1 DEF Meanwhile
  <2> QED
    BY <1>0, <2>1, <2>2, <2>3, SameTypes
<1>7. ASSUME NEW n \in 0..(MaxTemplates + 1), CountElsewhere(n)
      PROVE  /\ IsFacts(facts') /\ UNCHANGED held
             /\ UNCHANGED <<scene, stored, snapshot, created, editor, wire, answer, touched,
                           raced, lost>>
  <2> DEFINE f == [facts EXCEPT !.templates = n]
  <2>1. Meanwhile(f) /\ UNCHANGED held
    BY <1>7 DEF CountElsewhere
  <2>2. n \in Nat
    BY EditorAssumption
  <2>3. IsFacts(f)
    BY <1>0, <2>2 DEF IsFacts
  <2> HIDE DEF f
  <2>4. facts' = f
        /\ UNCHANGED <<scene, stored, snapshot, created, editor, wire, answer, touched, raced, lost>>
    BY <2>1 DEF Meanwhile
  <2> QED
    BY <2>1, <2>3, <2>4
<1> QED
  BY <1>0, <1>1, <1>2, <1>3, <1>4, <1>5, <1>6, <1>7, SameTypes DEF Events

LEMMA OneItem ==
  ASSUME NEW T, NEW s \in Seq(T), s # <<>>, Len(s) <= 1
  PROVE  Len(s) = 1 /\ DOMAIN s = {1} /\ s[1] \in T /\ Tail(s) = <<>> /\ Head(s) = s[1]
<1>1. Len(s) = 1 /\ DOMAIN s = 1..1
  <2>1. Len(s) \in Nat /\ DOMAIN s = 1..Len(s)
    OBVIOUS
  <2>2. Len(s) # 0
    BY EmptySeq
  <2> QED
    BY <2>1, <2>2
<1>2. 1..1 = {1}
  OBVIOUS
<1>3. Head(s) = s[1] /\ s[1] \in T
  BY <1>1
<1>4. Tail(s) \in Seq(T) /\ Len(Tail(s)) = 0
  BY <1>1
<1>5. Tail(s) = <<>>
  BY <1>4
<1> QED
  BY <1>1, <1>2, <1>3, <1>5

\* The server handles the one request there is.
LEMMA HandleStep ==
  ASSUME TypeOK, RequestInv, Handle
  PROVE  /\ wire' = <<>> /\ Len(wire) = 1 /\ answer = {} /\ phase # "editing"
         /\ wire[1] \in [d : Drafts, limit : Nat \cup {NoRule}]
         /\ ListsValid(wire[1].d) /\ Checked(wire[1])
         /\ UNCHANGED <<scene, held, editor, touched, raced, lost>>
         /\ facts' \in {facts, [facts EXCEPT !.templates = facts.templates + 1]}
         /\ \/ /\ Accepts(wire[1].d) /\ stored' = Stored(wire[1].d) /\ answer' = {"saved"}
               /\ created' = IF scene.creates THEN created + 1 ELSE created
            \/ /\ ~Accepts(wire[1].d) /\ UNCHANGED <<stored, created>>
               /\ answer' # {} /\ answer' # {"saved"}
               /\ \/ answer' = {"refused"}
                  \/ answer' \subseteq {"passengers", "trains", "classes", "to", "boarding",
                                        "journeyDate"}
<1>1. wire \in Seq([d : Drafts, limit : Nat \cup {NoRule}]) /\ wire # <<>> /\ Len(wire) <= 1
      /\ \A i \in DOMAIN wire : ListsValid(wire[i].d) /\ Checked(wire[i])
  BY DEF TypeOK, RequestInv, Handle
<1>2. Len(wire) = 1 /\ DOMAIN wire = {1} /\ Tail(wire) = <<>> /\ Head(wire) = wire[1]
      /\ wire[1] \in [d : Drafts, limit : Nat \cup {NoRule}]
  BY ONLY <1>1, OneItem
<1>3. BadFields(wire[1].d) \subseteq {"passengers", "trains", "classes", "to", "boarding",
                                     "journeyDate"}
  BY DEF BadFields, SchemaFields, When
<1>4. {"refused"} # {"saved"} /\ "saved" \notin BadFields(wire[1].d)
  BY <1>3
<1>5. wire' = <<>> /\ answer = {} /\ phase # "editing"
      /\ UNCHANGED <<scene, held, editor, touched, raced, lost>>
      /\ facts' \in {facts, [facts EXCEPT !.templates = facts.templates + 1]}
  BY <1>2 DEF Handle, RequestInv
<1>6. wire[1] \in [d : Drafts, limit : Nat \cup {NoRule}] /\ ListsValid(wire[1].d) /\ Checked(wire[1])
  BY <1>1, <1>2
<1>7. \/ /\ Accepts(wire[1].d) /\ stored' = Stored(wire[1].d) /\ answer' = {"saved"}
         /\ created' = IF scene.creates THEN created + 1 ELSE created
      \/ /\ ~Accepts(wire[1].d) /\ UNCHANGED <<stored, created>>
         /\ answer' = (IF BadFields(wire[1].d) = {} THEN {"refused"} ELSE BadFields(wire[1].d))
  BY <1>2 DEF Handle
<1> HIDE DEF Handle, RequestInv
<1> QED
  BY <1>2, <1>3, <1>4, <1>5, <1>6, <1>7

LEMMA HandledFacts ==
  ASSUME IsFacts(facts), facts' \in {facts, [facts EXCEPT !.templates = facts.templates + 1]}
  PROVE  /\ IsFacts(facts') /\ facts'.today = facts.today /\ facts'.active = facts.active
         /\ facts'.alive = facts.alive /\ facts'.linked = facts.linked
         /\ facts'.stops = facts.stops /\ facts'.rules = facts.rules
<1> DEFINE n == facts.templates + 1
           f == [facts EXCEPT !.templates = n]
<1>1. n \in Nat
  BY DEF IsFacts
<1> HIDE DEF n
<1>2. /\ IsFacts(f) /\ f.today = facts.today /\ f.active = facts.active
      /\ f.alive = facts.alive /\ f.linked = facts.linked
      /\ f.stops = facts.stops /\ f.rules = facts.rules
  BY <1>1 DEF IsFacts
<1>3. facts' = facts \/ facts' = f
  BY DEF n
<1> HIDE DEF f
<1> QED
  BY <1>2, <1>3

\* An answer arrives, or is lost.
LEMMA AnswerStep ==
  ASSUME TypeOK, RequestInv, Answer
  PROVE  /\ answer' = {} /\ wire = <<>> /\ answer # {} /\ phase # "editing" /\ Rendered
         /\ UNCHANGED <<scene, server, wire, touched, raced>>
         /\ \/ phase' = "away" /\ draft' = EmptyDraft /\ UNCHANGED lost
            \/ /\ phase = "saving" /\ phase' = "editing" /\ UNCHANGED draft
               /\ (answer # {"saved"} /\ UNCHANGED lost) \/ lost' = lost + 1
         /\ EditorType'
<1>1. EditorType /\ RequestType
  BY TypeParts
<1>2. answer' = {} /\ wire = <<>> /\ answer # {} /\ phase # "editing" /\ Rendered
      /\ UNCHANGED <<scene, server, wire, touched, raced>>
  BY DEF Answer, RequestInv
<1>3. CASE Leave /\ UNCHANGED lost
  <2>1. Len(Steps) = 6
    BY DEF Steps
  <2>2. phase' = "away" /\ draft' = EmptyDraft /\ errors' = {} /\ step' = 1 /\ visited' = 1
    BY <1>3 DEF Leave
  <2>3. EditorType'
    BY <2>1, <2>2, EmptyType DEF EditorType
  <2> QED
    BY <1>2, <1>3, <2>2, <2>3
<1>4. CASE /\ answer # {"saved"} /\ phase = "saving" /\ phase' = "editing"
           /\ IF answer # {"refused"} THEN /\ errors' = answer \ {"trains"}
                                          /\ \E f \in answer : Show(StepForField(f))
                                     ELSE UNCHANGED <<errors, step, visited>>
           /\ UNCHANGED <<draft, lost>>
  <2>1. CASE answer # {"refused"}
    <3>1. errors' \subseteq ErrorFields
      BY <1>1, <1>4, <2>1 DEF RequestType, ErrorFields
    <3>2. PICK f \in answer : Show(StepForField(f))
      BY <1>4, <2>1
    <3>3. StepForField(f) \in 1..Len(Steps)
      BY DEF StepForField, Steps
    <3>4. visited' \in 1..Len(Steps) /\ step' \in 1..visited'
      BY <1>1, <3>2, <3>3, ShowType
    <3> QED
      BY <1>1, <1>2, <1>4, <3>1, <3>4 DEF EditorType
  <2>2. CASE answer = {"refused"}
    BY <1>1, <1>2, <1>4, <2>2 DEF EditorType
  <2> QED
    BY <2>1, <2>2
<1>5. CASE /\ lost' = lost + 1 /\ phase = "saving" /\ phase' = "editing"
           /\ UNCHANGED <<draft, step, visited, errors>>
  BY <1>1, <1>2, <1>5 DEF EditorType
<1> QED
  BY <1>3, <1>4, <1>5 DEF Answer

LEMMA SaveStep ==
  ASSUME TypeOK, RequestInv, Save
  PROVE  /\ Rendered /\ UNCHANGED <<scene, server, draft, answer, touched, raced, lost>>
         /\ wire = <<>> /\ answer = {} /\ phase = "editing"
         /\ \/ phase' = "saving" /\ wire' = <<Payload(draft)>> /\ Checked(Payload(draft))
            \/ UNCHANGED <<phase, wire>>
         /\ EditorType'
<1> DEFINE bad == {i \in DOMAIN Steps : ValidateStep(i, draft) # {}}
<1>1. EditorType /\ RequestType
  BY TypeParts
<1>2. /\ Rendered /\ UNCHANGED <<scene, server, draft, answer, touched, raced, lost>>
      /\ wire = <<>> /\ answer = {} /\ phase = "editing"
  BY DEF Save, RequestInv
<1>3. \/ /\ bad = {} /\ phase' = "saving" /\ wire' = Append(wire, Payload(draft))
         /\ UNCHANGED <<step, visited, errors>>
      \/ /\ \E i \in bad : Show(i) /\ errors' = ValidateStep(i, draft)
         /\ UNCHANGED <<phase, wire>>
  BY DEF Save
<1>4. CASE /\ bad = {} /\ phase' = "saving" /\ wire' = Append(wire, Payload(draft))
           /\ UNCHANGED <<step, visited, errors>>
  <2>1. Checked(Payload(draft))
    BY <1>4, PayloadChecked
  <2>2. wire' = <<Payload(draft)>>
    BY <1>2, <1>4
  <2>3. EditorType'
    BY <1>1, <1>2, <1>4 DEF EditorType
  <2> QED
    BY <1>2, <1>4, <2>1, <2>2, <2>3
<1>5. CASE /\ \E i \in bad : Show(i) /\ errors' = ValidateStep(i, draft)
           /\ UNCHANGED <<phase, wire>>
  <2>1. PICK i \in DOMAIN Steps : Show(i) /\ errors' = ValidateStep(i, draft)
    BY <1>5
  <2>2. i \in 1..Len(Steps)
    BY DEF Steps
  <2>3. visited' \in 1..Len(Steps) /\ step' \in 1..visited'
    BY <1>1, <2>1, <2>2, ShowType
  <2>4. EditorType'
    BY <1>1, <1>2, <1>5, <2>1, <2>3, ErrorsType DEF EditorType
  <2> QED
    BY <1>2, <1>5, <2>4
<1> QED
  BY <1>3, <1>4, <1>5

LEMMA NextType ==
  ASSUME TypeOK, RequestInv, [Next]_vars
  PROVE  TypeOK' /\ RequestInv'
<1>0. ServerType /\ HeldType /\ EditorType /\ RequestType /\ Len(Steps) = 6
  BY TypeParts DEF Steps
<1>1. CASE UserEdit
  <2>1. PICK d, fields : Edits(d, fields)
    BY <1>1, UserEdits
  <2>2. /\ Rendered /\ phase # "away" /\ draft' = d /\ d \in Drafts /\ ListsValid(d)
        /\ errors' \subseteq errors
        /\ UNCHANGED <<scene, server, phase, step, visited, wire, answer, raced, lost>>
    BY <2>1 DEF Edits, Update
  <2>3. EditorType'
    BY <1>0, <2>2 DEF EditorType
  <2>4. RequestInv'
    BY <2>2 DEF RequestInv, Checked
  <2> QED
    BY <1>0, <2>2, <2>3, <2>4, SameTypes, RenderedType, TypeParts DEF server
<1>2. CASE Open
  <2>1. /\ Rendered /\ phase' = "editing" /\ step' = 1 /\ visited' = 1 /\ errors' = {}
        /\ draft' = IF scene.creates THEN EmptyDraft ELSE held.record
        /\ created' = 0 /\ lost' = 0 /\ raced' \in BOOLEAN /\ wire = <<>> /\ answer = {}
        /\ UNCHANGED <<scene, facts, stored, wire, answer>>
    BY <1>2 DEF Open
  <2>2. ServerType' /\ RequestType'
    BY <1>0, <2>1 DEF ServerType, RequestType
  <2>3. draft' \in Drafts /\ ListsValid(draft')
    BY <1>0, <2>1, EmptyType DEF HeldType, IsRecord
  <2>4. EditorType'
    BY <1>0, <2>1, <2>3 DEF EditorType
  <2>5. RequestInv'
    BY <2>1 DEF RequestInv, Checked
  <2> QED
    BY <1>0, <2>1, <2>2, <2>4, <2>5, RenderedType, TypeParts
<1>3. CASE Close
  <2>1. /\ phase' = "away" /\ draft' = EmptyDraft /\ errors' = {} /\ step' = 1 /\ visited' = 1
        /\ UNCHANGED <<scene, server, held, wire, answer, touched, raced, lost>>
    BY <1>3 DEF Close, Leave
  <2>2. EditorType'
    BY <1>0, <2>1, EmptyType DEF EditorType
  <2>3. RequestInv'
    BY <2>1 DEF RequestInv, Checked
  <2> QED
    BY <1>0, <2>1, <2>2, <2>3, SameTypes, TypeParts DEF server
<1>4. ASSUME NEW i \in 1..Len(Steps), GoTo(i)
      PROVE  TypeOK' /\ RequestInv'
  <2>1. /\ Show(i) /\ Rendered
        /\ UNCHANGED <<scene, server, phase, draft, errors, wire, answer, touched, raced, lost>>
    BY <1>4 DEF GoTo
  <2>2. EditorType'
    BY <1>0, <2>1, ShowType DEF EditorType
  <2>3. RequestInv'
    BY <2>1 DEF RequestInv, Checked
  <2> QED
    BY <1>0, <2>1, <2>2, <2>3, SameTypes, RenderedType, TypeParts DEF server
<1>5. CASE NextStep
  <2>1. /\ Rendered /\ step < Len(Steps) /\ errors' = ValidateStep(step, draft)
        /\ Show(step + 1) \/ UNCHANGED <<step, visited>>
        /\ UNCHANGED <<scene, server, phase, draft, wire, answer, touched, raced, lost>>
    BY <1>5 DEF NextStep
  <2>2. step + 1 \in 1..Len(Steps)
    BY <1>0, <2>1 DEF EditorType
  <2>3. visited' \in 1..Len(Steps) /\ step' \in 1..visited'
    <3>1. CASE Show(step + 1)
      BY <1>0, <2>2, <3>1, ShowType
    <3>2. CASE UNCHANGED <<step, visited>>
      BY <1>0, <3>2 DEF EditorType
    <3> QED
      BY <2>1, <3>1, <3>2
  <2>4. EditorType'
    BY <1>0, <2>1, <2>3, ErrorsType DEF EditorType
  <2>5. RequestInv'
    BY <2>1 DEF RequestInv, Checked
  <2> QED
    BY <1>0, <2>1, <2>4, <2>5, SameTypes, RenderedType, TypeParts DEF server
<1>6. CASE Save
  <2>1. /\ Rendered /\ UNCHANGED <<scene, server, draft, answer, touched, raced, lost>>
        /\ wire = <<>> /\ answer = {} /\ phase = "editing" /\ EditorType'
        /\ \/ phase' = "saving" /\ wire' = <<Payload(draft)>> /\ Checked(Payload(draft))
           \/ UNCHANGED <<phase, wire>>
    BY <1>6, SaveStep
  <2>2. CASE phase' = "saving" /\ wire' = <<Payload(draft)>> /\ Checked(Payload(draft))
    <3>1. Len(wire') = 1 /\ DOMAIN wire' = {1} /\ wire'[1] = Payload(draft)
      BY <2>2
    <3>2. RequestInv'
      <4> DEFINE w == Payload(draft)
      <4>1. \A i \in DOMAIN wire' : wire'[i] = w
        BY <3>1
      <4>2. Checked(w)
        BY <2>2
      <4>3. scene' = scene
        BY <2>1
      <4> HIDE DEF w
      <4> QED
        BY <2>1, <2>2, <3>1, <4>1, <4>2, <4>3 DEF RequestInv, Checked
    <3>3. RequestType'
      <4>1. Payload(draft) \in [d : Drafts, limit : Nat \cup {NoRule}] /\ ListsValid(Payload(draft).d)
        BY PayloadType
      <4>2. wire' \in Seq([d : Drafts, limit : Nat \cup {NoRule}])
        BY <2>2, <4>1
      <4>3. \A i \in DOMAIN wire' : ListsValid(wire'[i].d)
        BY <3>1, <4>1
      <4> QED
        BY <1>0, <2>1, <4>2, <4>3 DEF RequestType
    <3> QED
      BY <1>0, <2>1, <3>2, <3>3, SameTypes, RenderedType, TypeParts DEF server
  <2>3. CASE UNCHANGED <<phase, wire>>
    <3>1. RequestInv'
      BY <2>1, <2>3 DEF RequestInv, Checked
    <3> QED
      BY <1>0, <2>1, <2>3, <3>1, SameTypes, RenderedType, TypeParts DEF server
  <2> QED
    BY <2>1, <2>2, <2>3
<1>7. CASE Handle
  <2>1. /\ wire' = <<>> /\ phase # "editing"
        /\ wire[1] \in [d : Drafts, limit : Nat \cup {NoRule}]
        /\ ListsValid(wire[1].d) /\ Checked(wire[1])
        /\ UNCHANGED <<scene, held, editor, touched, raced, lost>>
        /\ IsFacts(facts')
    BY <1>0, <1>7, HandleStep, HandledFacts DEF ServerType
  <2>2. answer' # {} /\ (answer' \in {{"saved"}, {"refused"}}
          \/ answer' \subseteq {"passengers", "trains", "classes", "to", "boarding", "journeyDate"})
    BY <1>7, HandleStep
  <2>3. \/ stored' = Stored(wire[1].d) \/ UNCHANGED stored
    BY <1>7, HandleStep
  <2>4. created' \in Nat
    BY <1>0, <1>7, HandleStep DEF ServerType
  <2>5. IsRecord(Stored(wire[1].d), scene.mode)
    BY <2>1, StoredRecord
  <2>6. stored' = stored \/ (IsRecord(stored', scene.mode) /\ stored' # NoRecord)
    BY <2>3, <2>5, RecordsAreThere
  <2>7. ServerType' /\ HeldType'
    BY <1>0, <2>1, <2>4, <2>6 DEF ServerType, HeldType
  <2>8. RequestType' /\ RequestInv'
    <3>1. wire' \in Seq([d : Drafts, limit : Nat \cup {NoRule}]) /\ Len(wire') = 0 /\ DOMAIN wire' = {}
      BY <2>1
    <3>2. RequestType'
      BY <1>0, <2>1, <2>2, <3>1 DEF RequestType
    <3>3. RequestInv'
      BY <2>1, <2>2, <3>1 DEF RequestInv, editor
    <3> QED
      BY <3>2, <3>3
  <2> QED
    BY <1>0, <2>1, <2>7, <2>8, SameTypes, TypeParts
<1>8. CASE Answer
  <2>1. /\ answer' = {} /\ wire = <<>> /\ Rendered
        /\ UNCHANGED <<scene, server, wire, touched, raced>>
        /\ phase' \in {"away", "editing"} /\ lost' \in {lost, lost + 1}
        /\ EditorType'
    BY <1>8, AnswerStep
  <2>2. RequestType' /\ RequestInv'
    BY <1>0, <2>1 DEF RequestType, RequestInv, Checked
  <2> QED
    BY <1>0, <2>1, <2>2, SameTypes, RenderedType, TypeParts DEF server
<1>9. CASE Refetch
  <2>1. /\ UNCHANGED <<scene, server, editor, wire, answer, touched, raced, lost>>
        /\ held' = [record |-> IF stored = NoRecord THEN NoRecord
                               ELSE IF facts.deleted THEN held.record
                               ELSE DraftFromConfig(stored, facts.alive),
                    passengers |-> facts.alive, rules |-> facts.rules, today |-> facts.today]
    BY <1>9 DEF Refetch
  <2>2. HeldType'
    BY <1>0, <2>1, AnswersType DEF server
  <2>3. RequestInv'
    BY <2>1 DEF RequestInv, Checked, editor
  <2> QED
    BY <1>0, <2>1, <2>2, <2>3, SameTypes, TypeParts
<1>10. CASE Events
  <2>1. /\ IsFacts(facts') /\ HeldType'
        /\ UNCHANGED <<scene, stored, snapshot, created, editor, wire, answer, touched, raced, lost>>
    BY <1>10, EventStep
  <2>2. ServerType'
    BY <1>0, <2>1 DEF ServerType
  <2>3. RequestInv'
    BY <2>1 DEF RequestInv, Checked, editor
  <2> QED
    BY <1>0, <2>1, <2>2, <2>3, SameTypes, TypeParts
<1>11. ASSUME NEW c \in scene.elsewhere, SaveElsewhere(c)
       PROVE  TypeOK' /\ RequestInv'
  <2>1. /\ stored' = c /\ raced' = TRUE
        /\ UNCHANGED <<scene, facts, snapshot, created, held, editor, wire, answer, touched, lost>>
    BY <1>11 DEF SaveElsewhere
  <2>2. IsRecord(c, scene.mode) /\ c # NoRecord
    BY <1>0, SceneAssumption, RecordsAreThere DEF ServerType
  <2>3. ServerType' /\ HeldType' /\ RequestType'
    BY <1>0, <2>1, <2>2 DEF ServerType, HeldType, RequestType
  <2>4. RequestInv'
    BY <2>1 DEF RequestInv, Checked, editor
  <2> QED
    BY <1>0, <2>1, <2>3, <2>4, SameTypes, TypeParts
<1>12. CASE UNCHANGED vars
  <2>1. UNCHANGED <<scene, server, held, editor, wire, answer, touched, raced, lost>>
    BY <1>12 DEF vars
  <2>2. RequestInv'
    BY <2>1 DEF RequestInv, Checked, editor
  <2> QED
    BY <1>0, <2>1, <2>2, SameTypes, TypeParts DEF server
<1> QED
  BY <1>1, <1>2, <1>3, <1>4, <1>5, <1>6, <1>7, <1>8, <1>9, <1>10, <1>11, <1>12, NextCases

-------------------------------------------------------------------------------
(* The theorems: types, and what is accepted.                              *)

\* Lists stay as the API wants them, whatever is clicked and whatever is answered, and no
\* request is sent while another one is under way (draft.ts, JourneyEditor.tsx).
THEOREM TypeCorrect == Spec => [](TypeOK /\ RequestInv)
<1>1. Init => TypeOK /\ RequestInv
  BY InitType
<1>2. TypeOK /\ RequestInv /\ [Next]_vars => (TypeOK /\ RequestInv)'
  BY NextType
<1> QED
  BY <1>1, <1>2, PTL DEF Spec

LEMMA ReadyStep == TypeOK => ReadyIsSafe
<1> SUFFICES ASSUME TypeOK, stored # NoRecord,
                    Overall(ComputeReadiness(stored, facts, snapshot)) = "READY"
             PROVE  Safe(stored, facts)
  BY DEF ReadyIsSafe, Safe
<1>1. stored.passengers \in Seq(Passenger)
  BY DEF TypeOK, IsRecord, Drafts
<1>2. IsRules(facts.rules) /\ facts.linked \in BOOLEAN
  BY DEF TypeOK, IsFacts
<1> QED
  BY <1>1, <1>2, ReadyMeansSafe

\* "It can never be READY while a rule it depends on is missing or unverified"
\* (readiness.ts:13), nor without stations, passengers and an account to book with.
THEOREM ReadyJourneysAreSafe == Spec => []ReadyIsSafe
  BY TypeCorrect, ReadyStep, PTL

\* Only a change of the rules changes the rules, and it changes nothing else.
LEMMA RuleChange ==
  ASSUME TypeOK, RequestInv, [Next]_vars, facts'.rules # facts.rules
  PROVE  /\ facts'.today = facts.today /\ facts'.active = facts.active
         /\ facts'.alive = facts.alive /\ facts'.linked = facts.linked
         /\ facts'.stops = facts.stops /\ UNCHANGED snapshot
<1>1. ASSUME UNCHANGED facts PROVE FALSE
  BY <1>1
<1>2. CASE UserEdit
  <2>1. UNCHANGED facts
    BY <1>2, UserEdits DEF Edits, Update, server
  <2> QED
    BY <1>1, <2>1
<1>3. CASE Open \/ Close \/ NextStep \/ Refetch \/ (\E i \in 1..Len(Steps) : GoTo(i))
           \/ (\E c \in scene.elsewhere : SaveElsewhere(c)) \/ UNCHANGED vars
  <2>1. UNCHANGED facts
    BY <1>3 DEF Open, Close, NextStep, Refetch, GoTo, SaveElsewhere, vars, server
  <2> QED
    BY <1>1, <2>1
<1>4. CASE Save \/ Answer
  <2>1. UNCHANGED facts
    BY <1>4, SaveStep, AnswerStep DEF server
  <2> QED
    BY <1>1, <2>1
<1>5. CASE Handle
  <2>1. facts'.rules = facts.rules
    BY <1>5, HandleStep, HandledFacts DEF TypeOK
  <2> QED
    BY <2>1
<1>6. CASE Events
  <2>0. IsFacts(facts)
    BY DEF TypeOK
  <2>1. ASSUME NEW x \in scene.rules, SetRule(x[1], x[2])
        PROVE  /\ facts'.today = facts.today /\ facts'.active = facts.active
               /\ facts'.alive = facts.alive /\ facts'.linked = facts.linked
               /\ facts'.stops = facts.stops /\ UNCHANGED snapshot
    <3> DEFINE R == [facts.rules EXCEPT ![x[1]] = x[2]]
    <3>1. facts' = [facts EXCEPT !.rules = R] /\ UNCHANGED snapshot
      BY <2>1 DEF SetRule, Meanwhile
    <3> HIDE DEF R
    <3> QED
      BY <2>0, <3>1 DEF IsFacts
  <2>2. ASSUME Midnight \/ SetLinked \/ DeleteElsewhere PROVE facts'.rules = facts.rules
    BY <2>0, <2>2 DEF Midnight, SetLinked, DeleteElsewhere, Meanwhile, IsFacts
  <2>3. ASSUME NEW n \in 0..(MaxTemplates + 1), CountElsewhere(n) PROVE facts'.rules = facts.rules
    BY <2>0, <2>3 DEF CountElsewhere, Meanwhile, IsFacts
  <2>4. ASSUME NEW p \in Passenger, RemovePassenger(p) PROVE facts'.rules = facts.rules
    BY <2>0, <2>4 DEF RemovePassenger, Meanwhile, IsFacts
  <2>5. ASSUME NEW s \in Station, DropStation(s) PROVE facts'.rules = facts.rules
    BY <2>0, <2>5 DEF DropStation, Meanwhile, IsFacts
  <2> QED
    BY <1>6, <2>1, <2>2, <2>3, <2>4, <2>5 DEF Events
<1> QED
  BY <1>2, <1>3, <1>4, <1>5, <1>6, NextCases

\* A change of rules that a journey does not rely on leaves its judgement as it is
\* (readiness.ts:124).
THEOREM OtherRulesDontMatter == Spec => OthersDontMatter
<1> DEFINE A == (/\ stored # NoRecord /\ stored' = stored /\ facts'.rules # facts.rules
                 /\ \A k \in RelevantRuleKeys(stored, facts.rules) : facts'.rules[k] = facts.rules[k]) =>
                      Overall(ComputeReadiness(stored, facts', snapshot))
                          = Overall(ComputeReadiness(stored, facts, snapshot))
<1>1. ASSUME TypeOK /\ RequestInv, [Next]_vars
      PROVE  A
  <2> SUFFICES ASSUME facts'.rules # facts.rules,
                      \A k \in RelevantRuleKeys(stored, facts.rules) :
                         facts'.rules[k] = facts.rules[k]
               PROVE  Overall(ComputeReadiness(stored, facts', snapshot))
                          = Overall(ComputeReadiness(stored, facts, snapshot))
    OBVIOUS
  <2>1. /\ facts'.today = facts.today /\ facts'.active = facts.active
        /\ facts'.alive = facts.alive /\ facts'.linked = facts.linked
        /\ facts'.stops = facts.stops
    BY <1>1, RuleChange
  <2> QED
    BY <2>1, RelevantRulesDecide
<1> HIDE DEF A
<1>2. TypeOK /\ RequestInv /\ [Next]_vars => [A]_vars
  BY <1>1
<1>3. Spec => [][A]_vars
  BY TypeCorrect, <1>2, PTL DEF Spec
<1> QED
  BY <1>3 DEF OthersDontMatter, A

\* Only the server takes a request.
LEMMA OnlyHandleHandles ==
  ASSUME TypeOK, RequestInv, [Next]_vars, Handled
  PROVE  Handle
<1>0. wire \in Seq([d : Drafts, limit : Nat \cup {NoRule}])
  BY DEF TypeOK
<1>1. ASSUME UNCHANGED wire PROVE FALSE
  BY <1>0, <1>1 DEF Handled
<1>2. CASE UserEdit
  <2>1. UNCHANGED wire
    BY <1>2, UserEdits DEF Edits, Update
  <2> QED
    BY <1>1, <2>1
<1>3. CASE Open \/ Close \/ NextStep \/ Refetch \/ (\E i \in 1..Len(Steps) : GoTo(i))
           \/ (\E c \in scene.elsewhere : SaveElsewhere(c)) \/ UNCHANGED vars
  <2>1. UNCHANGED wire
    BY <1>3 DEF Open, Close, NextStep, Refetch, GoTo, SaveElsewhere, vars
  <2> QED
    BY <1>1, <2>1
<1>4. CASE Save
  <2>1. wire = <<>>
    BY <1>4, SaveStep
  <2>2. Len(wire) = 0 /\ (UNCHANGED wire \/ Len(wire') = 1)
    BY <1>4, <2>1, SaveStep
  <2> QED
    BY <2>2 DEF Handled
<1>5. CASE Answer \/ Events
  <2>1. UNCHANGED wire
    BY <1>5, AnswerStep, EventStep
  <2> QED
    BY <1>1, <2>1
<1> QED
  BY <1>2, <1>3, <1>4, <1>5, NextCases

\* What was checked in the editor passes the schemas and the service, if the editor knew
\* the facts.
LEMMA CheckedAccepted ==
  ASSUME TypeOK, NEW w \in [d : Drafts, limit : Nat \cup {NoRule}], ListsValid(w.d),
         Checked(w), Known(w)
  PROVE  Accepts(w.d)
<1> DEFINE c == w.d
           n == Len(c.passengers)
<1>1. /\ w.limit # NoRule /\ w.limit \in Nat /\ MaxPassengers \in Nat /\ n \in Nat
      /\ w.limit <= MaxPassengers /\ n <= w.limit
  BY EditorAssumption DEF Drafts, Checked, Known
<1>2. ~(n > MaxPassengers) /\ ~(n > w.limit)
  <2> HIDE DEF n
  <2> QED
    BY <1>1
<1>3. ~(Len(c.trains) > MaxTrains)
  <2>1. Len(c.trains) \in Nat /\ MaxTrains \in Nat /\ Len(c.trains) <= MaxTrains
    BY EditorAssumption DEF Drafts, ListsValid
  <2> QED
    BY <2>1
<1>4. ~(scene.mode = "journey" /\ c.date < facts.today)
  <2>1. CASE scene.mode = "journey"
    <3>1. c.date \in Int /\ facts.today \in Int /\ c.date >= facts.today
      BY <2>1, EditorAssumption DEF Drafts, TypeOK, IsFacts, Checked, Known
    <3> QED
      BY <3>1
  <2> QED
    BY <2>1
<1>5. /\ Unique(c.passengers) /\ Unique(c.trains) /\ Unique(c.classes) /\ c.classes # <<>>
      /\ c.from # c.to /\ ~(c.boarding # NoStation /\ c.boarding = c.to)
      /\ scene.mode = "journey" => c.passengers # <<>>
  BY DEF ListsValid, Checked
<1>6. /\ {c.from, c.to, c.boarding} \subseteq facts.active \cup {NoStation}
      /\ Elems(c.passengers) \subseteq facts.alive
      /\ LimitOf(facts.rules, c.quota) = w.limit
      /\ ~NoPlace /\ \A x \in Elems(c.trains) : TrainKnown(x)
  BY DEF Known
<1>7. BadFields(c) = {}
  <2>1. SchemaFields(c) = {}
    BY <1>2, <1>3, <1>5 DEF SchemaFields, When
  <2> QED
    BY <1>4, <2>1 DEF BadFields, When
<1>8. ~Refuses(c)
  BY <1>2, <1>6 DEF Refuses
<1> QED
  BY <1>7, <1>8 DEF Accepts

\* What the editor lets through (validateStep, draft.ts:104) the server accepts
\* (journey-config.ts:66-137 and the services), if the day, the stations, the passengers
\* and the limit are those the editor knows, the record is there, a new template is
\* within the cap, and the trains are the provider's.
THEOREM KnownSavesAreAccepted == Spec => AcceptedIfKnown
<1> DEFINE A == (Handled /\ Known(Head(wire))) => answer' = {"saved"}
<1>1. ASSUME TypeOK /\ RequestInv, [Next]_vars
      PROVE  A
  <2> SUFFICES ASSUME Handled, Known(Head(wire))
               PROVE  answer' = {"saved"}
    OBVIOUS
  <2>1. Handle
    BY <1>1, OnlyHandleHandles
  <2>2. wire[1] \in [d : Drafts, limit : Nat \cup {NoRule}] /\ ListsValid(wire[1].d) /\ Checked(wire[1])
    BY <1>1, <2>1, HandleStep
  <2>3. Known(wire[1])
    <3>1. wire # <<>> /\ wire \in Seq([d : Drafts, limit : Nat \cup {NoRule}]) /\ Len(wire) <= 1
      BY <1>1, <2>1 DEF Handle, TypeOK, RequestInv
    <3>2. Head(wire) = wire[1]
      BY ONLY <3>1, OneItem
    <3> QED
      BY <3>2
  <2>4. Accepts(wire[1].d)
    BY <1>1, <2>2, <2>3, CheckedAccepted
  <2> QED
    BY <1>1, <2>1, <2>4, HandleStep
<1> HIDE DEF A
<1>2. TypeOK /\ RequestInv /\ [Next]_vars => [A]_vars
  BY <1>1
<1>3. Spec => [][A]_vars
  BY TypeCorrect, <1>2, PTL DEF Spec
<1> QED
  BY <1>3 DEF AcceptedIfKnown, A

-------------------------------------------------------------------------------
(* The theorems: how many records a save makes.                            *)

\* While a request is under way, or an answer other than "saved" is awaited, every record
\* made so far belongs to a lost answer.
CreatedInv ==
    /\ created <= lost + (IF answer = {"saved"} \/ phase = "away" THEN 1 ELSE 0)
    /\ wire # <<>> => created <= lost

LEMMA CreatedStep ==
  ASSUME TypeOK, RequestInv, CreatedInv, [Next]_vars
  PROVE  CreatedInv'
<1>0. created \in Nat /\ lost \in Nat /\ wire \in Seq([d : Drafts, limit : Nat \cup {NoRule}])
  BY DEF TypeOK
<1>1. CASE UNCHANGED <<created, lost, wire, answer, phase>>
  BY <1>1 DEF CreatedInv
<1>2. CASE UserEdit \/ NextStep \/ Refetch \/ Events \/ (\E i \in 1..Len(Steps) : GoTo(i))
           \/ (\E c \in scene.elsewhere : SaveElsewhere(c)) \/ UNCHANGED vars
  <2>1. UserEdit => UNCHANGED <<created, lost, wire, answer, phase>>
    BY UserEdits DEF Edits, Update, server
  <2>2. Events => UNCHANGED <<created, lost, wire, answer, phase>>
    BY EventStep DEF editor
  <2>3. NextStep \/ Refetch \/ (\E i \in 1..Len(Steps) : GoTo(i)) \/ UNCHANGED vars
           \/ (\E c \in scene.elsewhere : SaveElsewhere(c))
        => UNCHANGED <<created, lost, wire, answer, phase>>
    BY DEF NextStep, Refetch, GoTo, SaveElsewhere, vars, server, editor
  <2> QED
    BY <1>1, <1>2, <2>1, <2>2, <2>3
<1>3. CASE Open
  <2>1. created' = 0 /\ lost' = 0
    BY <1>3 DEF Open
  <2> QED
    BY <2>1 DEF CreatedInv
<1>4. CASE Close
  <2>1. UNCHANGED <<created, lost, wire, answer>> /\ phase' = "away"
    BY <1>4 DEF Close, Leave, server
  <2> QED
    BY <1>0, <2>1 DEF CreatedInv
<1>5. CASE Save
  <2>1. /\ UNCHANGED <<created, lost, answer>> /\ phase = "editing" /\ answer = {}
        /\ phase' \in {"editing", "saving"}
    BY <1>5, SaveStep DEF server
  <2>2. created <= lost
    BY <1>0, <2>1 DEF CreatedInv
  <2> QED
    BY <1>0, <2>1, <2>2 DEF CreatedInv
<1>6. CASE Handle
  <2>1. /\ wire' = <<>> /\ wire # <<>> /\ UNCHANGED <<lost, phase>>
        /\ (answer' = {"saved"} /\ created' \in {created, created + 1}) \/ UNCHANGED created
    <3>1. wire # <<>>
      BY <1>6 DEF Handle
    <3> QED
      BY <1>6, <3>1, HandleStep DEF editor
  <2>2. created <= lost
    BY <2>1 DEF CreatedInv
  <2> QED
    BY <1>0, <2>1, <2>2 DEF CreatedInv
<1>7. CASE Answer
  <2>1. /\ wire' = <<>> /\ answer' = {} /\ UNCHANGED created
        /\ \/ phase' = "away" /\ UNCHANGED lost
           \/ /\ phase = "saving" /\ phase' = "editing"
              /\ (answer # {"saved"} /\ UNCHANGED lost) \/ lost' = lost + 1
    BY <1>7, AnswerStep DEF server
  <2> QED
    BY <1>0, <2>1 DEF CreatedInv
<1> QED
  BY <1>2, <1>3, <1>4, <1>5, <1>6, <1>7, NextCases

\* The second record of one draft takes a lost answer (JourneyEditor.tsx:117): as many
\* records as answers were lost, and one more.
THEOREM LostAnswersMakeRecords == Spec => []OneRecordPerSave
<1>1. Init => CreatedInv
  BY DEF Init, CreatedInv
<1>2. TypeOK /\ RequestInv /\ CreatedInv /\ [Next]_vars => CreatedInv'
  BY CreatedStep
<1>3. TypeOK /\ CreatedInv => OneRecordPerSave
  BY DEF TypeOK, CreatedInv, OneRecordPerSave
<1> QED
  BY TypeCorrect, <1>1, <1>2, <1>3, PTL DEF Spec

-------------------------------------------------------------------------------
(* The theorems: what an edit leaves alone.                                *)

\* Field f of the draft d is that of the record, but for passengers that were left out,
\* and for a boarding point that an earlier save has left out of the record.
Kept(f, d) ==
    \/ d[f] = stored[f]
    \/ f = "passengers" /\ Elems(d[f]) \subseteq Elems(stored[f])
    \/ /\ f = "boarding" /\ "from" \in touched /\ stored.boarding = NoStation
       /\ lost > 0 \/ answer = {"saved"}

\* As long as nobody else has saved the record, the draft and the request made of it keep
\* what was not touched, and agree on it.
KeepInv ==
    (~scene.creates /\ ~raced) =>
        /\ phase # "away" => \A f \in Fields \ touched : Kept(f, draft)
        /\ \A i \in DOMAIN wire : \A f \in Fields \ touched :
              /\ Kept(f, wire[i].d)
              /\ phase # "away" => wire[i].d[f] = draft[f]

\* An accepted request changes no more than that.
LEMMA KeptStored ==
  ASSUME TypeOK, RequestInv, KeepInv, ~scene.creates, ~raced, Handle,
         Accepts(wire[1].d), stored' = Stored(wire[1].d), NEW f \in Fields \ touched
  PROVE  /\ \/ stored'[f] = stored[f]
            \/ f = "passengers" /\ Elems(stored'[f]) \subseteq Elems(stored[f])
            \/ /\ f = "boarding" /\ "from" \in touched
               /\ stored[f] = stored'.from \/ (stored[f] = NoStation /\ lost > 0)
         /\ \/ stored'[f] = wire[1].d[f]
            \/ f = "name" /\ wire[1].d[f] = stored[f] /\ stored'[f] = stored[f]
            \/ f = "boarding" /\ "from" \in touched /\ stored'[f] = NoStation
<1> DEFINE c == wire[1].d
<1>1. /\ Len(wire) = 1 /\ answer = {}
      /\ wire[1] \in [d : Drafts, limit : Nat \cup {NoRule}] /\ ListsValid(c) /\ Checked(wire[1])
  BY HandleStep
<1>2. \A g \in Fields \ touched : Kept(g, c)
  <2>1. 1 \in DOMAIN wire
    BY <1>1 DEF TypeOK
  <2> QED
    BY <2>1 DEF KeepInv
<1>3. /\ \A g \in Fields \ {"boarding", "name"} : stored'[g] = c[g]
      /\ stored'.boarding = IF c.boarding = c.from THEN NoStation ELSE c.boarding
      /\ stored'.name = IF c.name # Blank THEN c.name ELSE stored.name
  BY <1>1, StoredRecord
<1>4. stored.boarding # stored.from
  BY DEF TypeOK, IsRecord
<1> HIDE DEF c
<1>5. answer # {"saved"}
  BY <1>1
<1>6. CASE f \notin {"boarding", "name"}
  BY <1>2, <1>3, <1>6 DEF Kept, c
<1>7. CASE f = "name"
  BY <1>2, <1>3, <1>7 DEF Kept, c
<1>8. CASE f = "boarding"
  <2>1. \/ c.boarding = stored.boarding
        \/ "from" \in touched /\ stored.boarding = NoStation /\ lost > 0
    BY <1>2, <1>5, <1>8 DEF Kept
  <2>2. CASE c.boarding = c.from
    <3>1. c.boarding = stored.boarding => "from" \in touched
      <4>1. ASSUME "from" \notin touched PROVE c.from = stored.from
        BY <1>2, <4>1 DEF Kept, Fields
      <4> QED
        BY <1>4, <2>2, <4>1
    <3>2. stored'.from = c.from
      BY <1>3 DEF Fields
    <3> QED
      BY <1>3, <1>8, <2>1, <2>2, <3>1, <3>2
  <2>3. CASE c.boarding # c.from
    BY <1>3, <1>8, <2>1, <2>3 DEF c
  <2> QED
    BY <2>2, <2>3
<1> QED
  BY <1>6, <1>7, <1>8

LEMMA KeepStep ==
  ASSUME TypeOK, RequestInv, KeepInv, [Next]_vars
  PROVE  KeepInv'
<1> SUFFICES ASSUME ~scene'.creates, ~raced'
             PROVE  /\ phase' # "away" => \A f \in Fields \ touched' : Kept(f, draft)'
                    /\ \A i \in DOMAIN wire' : \A f \in Fields \ touched' :
                          /\ Kept(f, wire[i].d)'
                          /\ phase' # "away" => wire'[i].d[f] = draft'[f]
  BY DEF KeepInv
<1>0. wire \in Seq([d : Drafts, limit : Nat \cup {NoRule}]) /\ lost \in Nat
  BY DEF TypeOK
<1>1. ASSUME UNCHANGED <<scene, raced, phase, draft, wire, touched, stored, answer, lost>>
      PROVE  KeepInv'
  BY <1>1 DEF KeepInv, Kept
<1>2. CASE NextStep \/ Refetch \/ Events \/ (\E i \in 1..Len(Steps) : GoTo(i)) \/ UNCHANGED vars
  <2>1. Events => UNCHANGED <<scene, raced, phase, draft, wire, touched, stored, answer, lost>>
    BY EventStep DEF editor
  <2>2. NextStep \/ Refetch \/ (\E i \in 1..Len(Steps) : GoTo(i)) \/ UNCHANGED vars
        => UNCHANGED <<scene, raced, phase, draft, wire, touched, stored, answer, lost>>
    BY DEF NextStep, Refetch, GoTo, vars, server, editor
  <2> QED
    BY <1>1, <1>2, <2>1, <2>2 DEF KeepInv
<1>3. CASE UserEdit
  <2>1. PICK d, fields : Edits(d, fields)
    BY <1>3, UserEdits
  <2>2. /\ UNCHANGED <<scene, raced, phase, wire, stored, answer, lost>> /\ draft' = d
        /\ touched' = touched \cup fields /\ \A f \in Fields \ fields : d[f] = draft[f]
    BY <2>1 DEF Edits, Update, server
  <2> QED
    BY <2>2 DEF KeepInv, Kept
<1>4. CASE Open
  <2>1. /\ wire' = <<>> /\ draft' = held.record /\ touched' = {} /\ UNCHANGED <<scene, stored>>
        /\ held.record = DraftFromConfig(stored, facts.alive)
    BY <1>4 DEF Open
  <2>2. IsRecord(stored, scene.mode)
    BY <2>1 DEF TypeOK
  <2>3. /\ \A f \in Fields \ {"passengers"} : draft'[f] = stored'[f]
        /\ Elems(draft'.passengers) \subseteq Elems(stored'.passengers)
    BY <2>1, <2>2, DraftOfRecord
  <2>4. \A f \in Fields : Kept(f, draft)'
    BY <2>3 DEF Kept
  <2>5. DOMAIN wire' = {}
    BY <2>1
  <2> QED
    BY <2>4, <2>5
<1>5. CASE Close
  <2>1. phase' = "away" /\ UNCHANGED <<scene, raced, wire, touched, stored, answer, lost>>
    BY <1>5 DEF Close, Leave, server
  <2> QED
    BY <2>1 DEF KeepInv, Kept
<1>6. CASE Save
  <2>1. /\ UNCHANGED <<scene, raced, draft, touched, stored, answer, lost>>
        /\ phase = "editing" /\ wire = <<>>
        /\ wire' = <<Payload(draft)>> \/ UNCHANGED <<phase, wire>>
    BY <1>6, SaveStep DEF server
  <2>2. \A f \in Fields \ touched : Kept(f, draft)
    BY <2>1 DEF KeepInv
  <2>3. \A f \in Fields \ touched' : Kept(f, draft)'
    BY <2>1, <2>2 DEF Kept
  <2>4. CASE wire' = <<Payload(draft)>>
    <3> DEFINE w == Payload(draft)
    <3>1. \A f \in Fields \ touched : w.d[f] = draft[f]
      <4>1. \A f \in Fields \ {"date"} : w.d[f] = draft[f]
        BY PayloadType
      <4>2. w.d.date = IF scene.mode = "journey" THEN draft.date ELSE NoDate
        BY PayloadType
      <4>3. scene.mode # "journey" => stored.date = NoDate
        <5>1. scene.mode \in {"journey", "template"}
          BY SceneAssumption DEF TypeOK
        <5> QED
          BY <2>1, <5>1 DEF TypeOK, IsRecord
      <4>4. "date" \notin touched => draft.date = stored.date
        BY <2>2 DEF Kept, Fields
      <4> HIDE DEF w
      <4> QED
        BY <4>1, <4>2, <4>3, <4>4
    <3>2. DOMAIN wire' = {1} /\ wire'[1] = w
      BY <2>4
    <3> HIDE DEF w
    <3>3. \A i \in DOMAIN wire' : wire'[i] = w
      BY <3>2
    <3>4. \A f \in Fields \ touched' : w.d[f] = draft'[f]
      BY <2>1, <3>1
    <3>5. \A i \in DOMAIN wire' : \A f \in Fields \ touched' : Kept(f, wire[i].d)'
      BY <2>3, <3>3, <3>4 DEF Kept
    <3> QED
      BY <2>3, <3>3, <3>4, <3>5
  <2>5. CASE UNCHANGED <<phase, wire>>
    <3>1. DOMAIN wire' = {}
      BY <2>1, <2>5
    <3> QED
      BY <2>3, <3>1
  <2> QED
    BY <2>1, <2>4, <2>5
<1>7. CASE Handle
  <2>1. /\ wire' = <<>> /\ Len(wire) = 1 /\ UNCHANGED <<scene, raced, phase, draft, touched, lost>>
        /\ answer = {}
    BY <1>7, HandleStep DEF editor
  <2>2. 1 \in DOMAIN wire /\ DOMAIN wire' = {}
    BY <1>0, <2>1
  <2>3. SUFFICES ASSUME phase # "away", NEW f \in Fields \ touched
                 PROVE  Kept(f, draft)'
    BY <2>1, <2>2
  <2>4. wire[1].d[f] = draft[f] /\ Kept(f, draft)
    BY <2>1, <2>2, <2>3 DEF KeepInv
  <2>5. CASE Accepts(wire[1].d) /\ stored' = Stored(wire[1].d) /\ answer' = {"saved"}
    <3>1. \/ stored'[f] = wire[1].d[f]
          \/ f = "name" /\ wire[1].d[f] = stored[f] /\ stored'[f] = stored[f]
          \/ f = "boarding" /\ "from" \in touched /\ stored'[f] = NoStation
      BY <1>7, <2>1, <2>5, KeptStored
    <3> QED
      BY <2>1, <2>4, <2>5, <3>1 DEF Kept
  <2>6. CASE UNCHANGED stored
    BY <2>1, <2>4, <2>6 DEF Kept
  <2> QED
    BY <1>7, <2>5, <2>6, HandleStep
<1>8. CASE Answer
  <2>1. /\ wire = <<>> /\ wire' = <<>> /\ UNCHANGED <<scene, raced, touched, stored>>
        /\ \/ phase' = "away"
           \/ /\ phase = "saving" /\ UNCHANGED draft
              /\ (answer # {"saved"} /\ UNCHANGED lost) \/ lost' = lost + 1
    BY <1>8, AnswerStep DEF server
  <2>2. DOMAIN wire' = {}
    BY <2>1
  <2>3. SUFFICES ASSUME phase' # "away", NEW f \in Fields \ touched
                 PROVE  Kept(f, draft)'
    BY <2>1, <2>2
  <2>4. Kept(f, draft)
    BY <2>1, <2>3 DEF KeepInv
  <2>5. lost > 0 \/ answer = {"saved"} => lost' > 0
    BY <1>0, <2>1, <2>3
  <2> QED
    BY <2>1, <2>3, <2>4, <2>5 DEF Kept
<1>9. CASE \E c \in scene.elsewhere : SaveElsewhere(c)
  BY <1>9 DEF SaveElsewhere
<1> QED
  BY <1>2, <1>3, <1>4, <1>5, <1>6, <1>7, <1>8, <1>9, NextCases

\* Saving a draft changes only what the user has touched, if nobody else has saved the
\* record since the draft was made (draft.ts:78-97, JourneyEditor.tsx:104-122).
THEOREM UntouchedFieldsStay == Spec => EditKeepsTheRest
<1> DEFINE A == (Handled /\ stored' # stored /\ ~scene.creates /\ ~raced) =>
                   \A f \in DOMAIN stored \ touched :
                       \/ stored'[f] = stored[f]
                       \/ f = "passengers" /\ Elems(stored'[f]) \subseteq Elems(stored[f])
                       \/ /\ f = "boarding" /\ "from" \in touched
                          /\ stored[f] = stored'.from \/ (stored[f] = NoStation /\ lost > 0)
<1>1. Init => KeepInv
  BY DEF Init, KeepInv
<1>2. TypeOK /\ RequestInv /\ KeepInv /\ [Next]_vars => KeepInv'
  BY KeepStep
<1>3. ASSUME TypeOK /\ RequestInv, KeepInv, [Next]_vars
      PROVE  A
  <2> SUFFICES ASSUME Handled, stored' # stored, ~scene.creates, ~raced,
                      NEW f \in DOMAIN stored \ touched
               PROVE  \/ stored'[f] = stored[f]
                      \/ f = "passengers" /\ Elems(stored'[f]) \subseteq Elems(stored[f])
                      \/ /\ f = "boarding" /\ "from" \in touched
                         /\ stored[f] = stored'.from \/ (stored[f] = NoStation /\ lost > 0)
    OBVIOUS
  <2>1. Handle
    BY <1>3, OnlyHandleHandles
  <2>2. f \in Fields \ touched
    BY <1>3 DEF TypeOK, IsRecord, Drafts, Fields
  <2>3. Accepts(wire[1].d) /\ stored' = Stored(wire[1].d)
    BY <1>3, <2>1, HandleStep
  <2> QED
    BY <1>3, <2>1, <2>2, <2>3, KeptStored
<1> HIDE DEF A
<1>4. TypeOK /\ RequestInv /\ KeepInv /\ [Next]_vars => [A]_vars
  BY <1>3
<1>5. Spec => [][A]_vars
  BY TypeCorrect, <1>1, <1>2, <1>4, PTL DEF Spec
<1> QED
  BY <1>5 DEF EditKeepsTheRest, A
=============================================================================
