-------------------------- MODULE RailwayRulesProofs --------------------------
(* Theorems about RailwayRules, for every value of its constants. *)
EXTENDS RailwayRules, FiniteSetTheorems, TLAPS

-------------------------------------------------------------------------------
(* The order in which a sync works.                                        *)

\* i is done before j: an update before an insert, otherwise the order of the file.
Before(s, i, j) ==
    \/ old[s][i] # NoRow /\ old[s][j] = NoRow
    \/ (old[s][i] = NoRow) = (old[s][j] = NoRow) /\ i < j

\* The rank of an entry is its place in that order: ranks are below the length, and
\* what is done before has a lower one.
LEMMA RankOrder ==
  ASSUME NEW s \in Sync, reg[s] \in Seq(Entry)
  PROVE  /\ \A i \in DOMAIN reg[s] : Rank(s, i) \in Nat /\ Rank(s, i) < Len(reg[s])
         /\ \A i, j \in DOMAIN reg[s] : Before(s, i, j) => Rank(s, i) < Rank(s, j)
         /\ \A i, j \in DOMAIN reg[s] : i # j => Before(s, i, j) \/ Before(s, j, i)
<1> DEFINE n == Len(reg[s])
           D == 1..n
           P(i) == {j \in D : Before(s, j, i)}
<1>0. n \in Nat /\ DOMAIN reg[s] = D
  OBVIOUS
<1>1. n \in Nat /\ DOMAIN reg[s] = D /\ IsFiniteSet(D) /\ Cardinality(D) = n
  <2>1. IsFiniteSet(1..n) /\ Cardinality(1..n) = IF 1 > n THEN 0 ELSE n - 1 + 1
    BY ONLY <1>0, FS_Interval
  <2> QED
    BY <1>0, <2>1
<1>2. \A i \in D : Rank(s, i) = Cardinality(P(i))
  BY <1>1 DEF Rank, Before
<1>3. \A i \in D : IsFiniteSet(P(i)) /\ Cardinality(P(i)) \in Nat /\ Cardinality(P(i)) < n
  <2> SUFFICES ASSUME NEW i \in D
               PROVE  IsFiniteSet(P(i)) /\ Cardinality(P(i)) \in Nat /\ Cardinality(P(i)) < n
    OBVIOUS
  <2>1. P(i) \in SUBSET (D \ {i})
    BY <1>1 DEF Before
  <2>2. IsFiniteSet(D \ {i}) /\ Cardinality(D \ {i}) = n - 1
    BY <1>1, FS_RemoveElement
  <2>3. IsFiniteSet(P(i)) /\ Cardinality(P(i)) <= n - 1
    BY ONLY <2>1, <2>2, FS_Subset
  <2> QED
    BY <1>1, <2>3, FS_CardinalityType
<1>4. \A i, j \in D : Before(s, i, j) => Cardinality(P(i)) < Cardinality(P(j))
  <2> SUFFICES ASSUME NEW i \in D, NEW j \in D, Before(s, i, j)
               PROVE  Cardinality(P(i)) < Cardinality(P(j))
    OBVIOUS
  <2>1. P(i) \in SUBSET (P(j) \ {i})
    BY <1>1 DEF Before
  <2>2. i \in P(j)
    OBVIOUS
  <2>3. IsFiniteSet(P(j) \ {i}) /\ Cardinality(P(j) \ {i}) = Cardinality(P(j)) - 1
    BY <1>3, <2>2, FS_RemoveElement
  <2>4. Cardinality(P(i)) <= Cardinality(P(j)) - 1
    BY ONLY <2>1, <2>3, FS_Subset
  <2>5. Cardinality(P(i)) \in Nat /\ Cardinality(P(j)) \in Nat
    BY ONLY <1>3, i \in D, j \in D
  <2> HIDE DEF P
  <2> QED
    BY <2>4, <2>5
<1>5. \A i, j \in D : i # j => Before(s, i, j) \/ Before(s, j, i)
  BY <1>1 DEF Before
<1> HIDE DEF P, D, n
<1> QED
  BY <1>0, <1>2, <1>3, <1>4, <1>5 DEF n

\* Sorting the updates first visits every entry: at each position there is one.
LEMMA CurrentIsAnEntry ==
  ASSUME NEW s \in Sync, reg[s] \in Seq(Entry), pos[s] \in Nat, pos[s] < Len(reg[s])
  PROVE  Current(s) \in DOMAIN reg[s] /\ Rank(s, Current(s)) = pos[s]
<1> DEFINE n == Len(reg[s])
           D == 1..n
<1>0. n \in Nat /\ DOMAIN reg[s] = D
  OBVIOUS
<1>1. IsFiniteSet(D) /\ Cardinality(D) = n
  <2>1. IsFiniteSet(1..n) /\ Cardinality(1..n) = IF 1 > n THEN 0 ELSE n - 1 + 1
    BY ONLY <1>0, FS_Interval
  <2> QED
    BY <1>0, <2>1
<1>2. /\ \A i \in D : Rank(s, i) \in 0..(n - 1)
      /\ \A i, j \in D : i # j => Rank(s, i) # Rank(s, j)
  <2>1. /\ \A i \in D : Rank(s, i) \in Nat /\ Rank(s, i) < n
        /\ \A i, j \in D : Before(s, i, j) => Rank(s, i) < Rank(s, j)
        /\ \A i, j \in D : i # j => Before(s, i, j) \/ Before(s, j, i)
    BY ONLY <1>0, reg[s] \in Seq(Entry), s \in Sync, RankOrder
  <2> HIDE DEF D, n
  <2> QED
    BY <1>0, <2>1
<1>3. \E i \in D : Rank(s, i) = pos[s]
  <2> SUFFICES ASSUME \A i \in D : Rank(s, i) # pos[s]
               PROVE  FALSE
    OBVIOUS
  <2> DEFINE T == (0..(n - 1)) \ {pos[s]}
             f == [i \in D |-> Rank(s, i)]
  <2>1. IsFiniteSet(0..(n - 1)) /\ Cardinality(0..(n - 1)) = n
    <3>1. n - 1 \in Int
      BY <1>0
    <3>2. /\ IsFiniteSet(0..(n - 1))
          /\ Cardinality(0..(n - 1)) = IF 0 > n - 1 THEN 0 ELSE (n - 1) - 0 + 1
      BY ONLY <3>1, FS_Interval
    <3> QED
      BY <1>0, <3>2
  <2>2. IsFiniteSet(T) /\ Cardinality(T) = n - 1
    <3>1. pos[s] \in 0..(n - 1)
      BY <1>0
    <3> QED
      BY ONLY <2>1, <3>1, FS_RemoveElement
  <2>3. f \in [D -> T]
    BY <1>2
  <2>4. Cardinality(T) < Cardinality(D)
    BY <1>0, <1>1, <2>2
  <2> HIDE DEF f, T, D
  <2>5. \E i, j \in D : i # j /\ f[i] = f[j]
    BY ONLY <1>1, <2>2, <2>3, <2>4, FS_PigeonHole
  <2> QED
    BY <1>2, <2>5 DEF f
<1> QED
  BY <1>0, <1>3 DEF Current
-------------------------------------------------------------------------------
(* Types, and what a sync that is about to write relies on.                *)

\* A sync writes only at one of its entries, and what it has found is still there.
WriteInv ==
    \A s \in Sync :
        /\ pc[s] = "write" => pos[s] < Len(reg[s])
        /\ pc[s] \in {"work", "write"} =>
              \A i \in DOMAIN reg[s] : old[s][i] # NoRow => rows[reg[s][i].id] # NoRow

LEMMA InitType == Init => TypeOK /\ WriteInv
<1> SUFFICES ASSUME Init
             PROVE  TypeOK /\ WriteInv
  OBVIOUS
<1> USE RulesAssumption DEF Init
<1>1. \A s \in Sync : pos[s] = 0 /\ Len(reg[s]) = 0
  OBVIOUS
<1>2. rows \in [Id -> Row \cup {NoRow}] /\ got \in [Reader -> [Id -> Row \cup {NoRow}]]
  BY DEF NoRows
<1>3. alone \in [Sync -> BOOLEAN] /\ raced \in BOOLEAN
  OBVIOUS
<1>4. clock \in Time /\ lastWrite \in Time /\ at \in [Reader -> Time]
  BY DEF Time
<1>5. WriteInv
  BY DEF WriteInv
<1> QED
  BY <1>1, <1>2, <1>3, <1>4, <1>5 DEF TypeOK

\* The registry of a sync is a sequence of entries.
LEMMA RegistryType ==
  ASSUME TypeOK
  PROVE  \A s \in Sync : reg[s] \in Seq(Entry) /\ Len(reg[s]) \in Nat /\ pos[s] \in Nat
<1> SUFFICES ASSUME NEW s \in Sync
             PROVE  reg[s] \in Seq(Entry) /\ Len(reg[s]) \in Nat /\ pos[s] \in Nat
  OBVIOUS
<1>1. reg[s] \in Registry \/ reg[s] = <<>>
  BY DEF TypeOK
<1>2. reg[s] \in Seq(Entry)
  <2>1. CASE reg[s] \in Registry
    BY <2>1, RulesAssumption
  <2>2. CASE reg[s] = <<>>
    BY <2>2
  <2> QED
    BY <1>1, <2>1, <2>2
<1> QED
  BY <1>2 DEF TypeOK

\* Entries have the type of rows.
LEMMA EntryType ==
  ASSUME TypeOK, NEW s \in Sync, pos[s] < Len(reg[s])
  PROVE  /\ Current(s) \in DOMAIN reg[s] /\ reg[s][Current(s)] \in Entry
         /\ reg[s][Current(s)].id \in Id /\ reg[s][Current(s)].row \in Row
<1>1. reg[s] \in Seq(Entry) /\ pos[s] \in Nat
  BY RegistryType
<1>2. Current(s) \in DOMAIN reg[s]
  BY <1>1, CurrentIsAnEntry
<1>3. reg[s][Current(s)] \in Entry
  BY <1>1, <1>2
<1> QED
  BY <1>2, <1>3 DEF Entry

\* A sync that stops has no entries.
LEMMA EndType ==
  ASSUME TypeOK, WriteInv, NEW s \in Sync, End(s)
  PROVE  /\ pc' \in [Sync -> {"idle", "read", "work", "write"}]
         /\ reg' \in [Sync -> Registry \cup {<<>>}]
         /\ old' \in [Sync -> Seq(Row \cup {NoRow})]
         /\ pos' \in [Sync -> Nat] /\ \A t \in Sync : pos'[t] <= Len(reg'[t])
         /\ \A t \in Sync : pc'[t] # "idle" =>
               pc'[t] = pc[t] /\ reg'[t] = reg[t] /\ old'[t] = old[t] /\ pos'[t] = pos[t]
<1>1. reg'[s] = <<>> /\ pos'[s] = 0
  BY DEF End, TypeOK
<1>2. \A t \in Sync \ {s} : reg'[t] = reg[t] /\ pos'[t] = pos[t] /\ pc'[t] = pc[t]
  BY DEF End, TypeOK
<1>3. \A t \in Sync : pos'[t] <= Len(reg'[t])
  <2> TAKE t \in Sync
  <2>1. CASE t = s
    BY <1>1, <2>1
  <2>2. CASE t # s
    BY <1>2, <2>2 DEF TypeOK
  <2> QED
    BY <2>1, <2>2
<1> QED
  BY <1>2, <1>3 DEF End, TypeOK

\* What a write puts into the table.
Written(s) ==
    LET e == reg[s][Current(s)] IN
    /\ rows' = [rows EXCEPT ![e.id] = IF old[s][Current(s)] = NoRow THEN e.row
                                      ELSE [e.row EXCEPT !.value = rows[e.id].value]]
    /\ old[s][Current(s)] = NoRow => rows[e.id] = NoRow

LEMMA WriteCases ==
  ASSUME NEW s \in Sync, Write(s)
  PROVE  \/ End(s) /\ UNCHANGED <<rows, lastWrite, raced>>
         \/ /\ Written(s)
            /\ lastWrite' = clock
            /\ raced' = (raced \/ \E t \in Sync \ {s} : pc[t] = "write")
            /\ pos' = [pos EXCEPT ![s] = @ + 1]
            /\ pc' = [pc EXCEPT ![s] = "work"] /\ UNCHANGED <<reg, old>>
  BY DEF Write, Written

\* An update of a row that is there keeps its value, everything else is the entry's.
LEMMA WrittenType ==
  ASSUME TypeOK, WriteInv, NEW s \in Sync, pc[s] = "write", Written(s)
  PROVE  /\ reg[s][Current(s)].id \in Id /\ reg[s][Current(s)].row \in Row
         /\ rows' \in [Id -> Row \cup {NoRow}]
         /\ \A i \in Id \ {reg[s][Current(s)].id} : rows'[i] = rows[i]
         /\ LET e == reg[s][Current(s)]
                r == rows'[e.id]
            IN /\ r # NoRow
               /\ old[s][Current(s)] = NoRow => rows[e.id] = NoRow
               /\ old[s][Current(s)] # NoRow => r.value = rows[e.id].value
               /\ r.to = e.row.to /\ r.status = e.row.status
<1> DEFINE e == reg[s][Current(s)]
<1>1. Current(s) \in DOMAIN reg[s] /\ e.id \in Id /\ e.row \in Row
  BY EntryType DEF WriteInv
<1>2. rows \in [Id -> Row \cup {NoRow}]
  BY DEF TypeOK
<1>3. rows'[e.id] = IF old[s][Current(s)] = NoRow THEN e.row
                    ELSE [e.row EXCEPT !.value = rows[e.id].value]
  BY <1>1, <1>2 DEF Written
<1>4. \A i \in Id \ {e.id} : rows'[i] = rows[i]
  BY <1>1, <1>2 DEF Written
<1>5. old[s][Current(s)] # NoRow => rows[e.id] \in Row
  BY <1>1, <1>2 DEF WriteInv
<1>6. /\ rows'[e.id] \in Row
      /\ rows'[e.id].to = e.row.to /\ rows'[e.id].status = e.row.status
      /\ old[s][Current(s)] # NoRow => rows'[e.id].value = rows[e.id].value
  BY <1>1, <1>3, <1>5 DEF Row
<1>7. rows' \in [Id -> Row \cup {NoRow}]
  <2>1. rows' = [i \in Id |-> rows'[i]]
    BY <1>2 DEF Written
  <2> QED
    BY <1>1, <1>2, <1>4, <1>6, <2>1
<1>8. old[s][Current(s)] = NoRow => rows[e.id] = NoRow
  BY DEF Written
<1> QED
  BY <1>1, <1>4, <1>6, <1>7, <1>8, RulesAssumption

\* Expiring a verification changes only the verification.
LEMMA ExpireType ==
  ASSUME TypeOK, NEW s \in Sync, ExpireLapsed(s)
  PROVE  /\ rows' \in [Id -> Row \cup {NoRow}]
         /\ \A i \in Id : rows[i] = NoRow <=> rows'[i] = NoRow
         /\ \A i \in Id : rows[i] # NoRow =>
               /\ rows'[i].value = rows[i].value /\ rows'[i].to = rows[i].to
               /\ rows'[i].status = rows[i].status
<1>1. rows \in [Id -> Row \cup {NoRow}]
  BY DEF TypeOK
<1>2. \A i \in Id : rows'[i] = IF Lapsed(rows[i], clock)
                               THEN [rows[i] EXCEPT !.verification = "EXPIRED"] ELSE rows[i]
  BY DEF ExpireLapsed
<1>3. \A i \in Id : rows[i] # NoRow =>
         /\ rows'[i] \in Row
         /\ rows'[i].value = rows[i].value /\ rows'[i].to = rows[i].to
         /\ rows'[i].status = rows[i].status
  BY <1>1, <1>2 DEF Row, Verification
<1>4. \A i \in Id : rows[i] = NoRow => rows'[i] = NoRow
  BY <1>2 DEF Lapsed
<1>5. rows' = [i \in Id |-> rows'[i]]
  BY DEF ExpireLapsed
<1> QED
  BY <1>1, <1>3, <1>4, <1>5, RulesAssumption

\* No row ever disappears, and none changes its value.
LEMMA NextImmutable == TypeOK /\ WriteInv /\ [Next]_vars => Immutable
<1> SUFFICES ASSUME TypeOK, WriteInv, [Next]_vars
             PROVE  Immutable
  OBVIOUS
<1>1. ASSUME NEW s \in Sync, Write(s)
      PROVE  Immutable
  <2>1. CASE Written(s)
    <3>1. pc[s] = "write"
      BY <1>1 DEF Write
    <3> QED
      BY <2>1, <3>1, WrittenType DEF Immutable
  <2>2. CASE UNCHANGED rows
    BY <2>2 DEF Immutable
  <2> QED
    BY <1>1, <2>1, <2>2, WriteCases
<1>2. ASSUME NEW s \in Sync, ExpireLapsed(s)
      PROVE  Immutable
  BY <1>2, ExpireType DEF Immutable
<1>3. CASE UNCHANGED rows
  BY <1>3 DEF Immutable
<1>4. scene.syncs \subseteq Sync
  BY RulesAssumption DEF TypeOK
<1> QED
  BY <1>1, <1>2, <1>3, <1>4
  DEF Next, Start, ReadExisting, Look, Ask, Fetch, Store, Answer, Tick, vars, syncs, readers

\* What a sync has found stays.
LEMMA KeepsFound ==
  ASSUME TypeOK, WriteInv, Immutable, NEW t \in Sync, pc[t] \in {"work", "write"},
         reg'[t] = reg[t], old'[t] = old[t]
  PROVE  \A i \in DOMAIN reg'[t] : old'[t][i] # NoRow => rows'[reg'[t][i].id] # NoRow
<1> SUFFICES ASSUME NEW i \in DOMAIN reg[t], old[t][i] # NoRow
             PROVE  rows'[reg[t][i].id] # NoRow
  OBVIOUS
<1>1. reg[t] \in Seq(Entry)
  BY RegistryType
<1>2. reg[t][i] \in Entry
  BY <1>1
<1>3. reg[t][i].id \in Id
  BY <1>2 DEF Entry
<1> QED
  BY <1>3 DEF WriteInv, Immutable

\* Every step keeps the types.
LEMMA NextType == TypeOK /\ WriteInv /\ [Next]_vars => TypeOK' /\ WriteInv'
<1> SUFFICES ASSUME TypeOK, WriteInv, [Next]_vars
             PROVE  TypeOK' /\ WriteInv'
  OBVIOUS
<1> USE DEF syncs, readers
<1>0. Immutable
  BY NextImmutable
<1>1. ASSUME NEW s \in Sync, NEW r \in Registry, Start(s, r)
      PROVE  TypeOK' /\ WriteInv'
  <2>1. r \in Seq(Entry)
    BY RulesAssumption
  <2>5. Len(r) \in Nat
    BY <2>1
  <2>2. \A t \in Sync : pos'[t] <= Len(reg'[t])
    BY <1>1, <2>5 DEF Start, TypeOK
  <2>3. alone' \in [Sync -> BOOLEAN]
    BY <1>1 DEF Start
  <2>4. WriteInv'
    BY <1>1 DEF Start, TypeOK, WriteInv
  <2> QED
    BY <1>1, <2>2, <2>3, <2>4 DEF Start, TypeOK
<1>2. ASSUME NEW s \in Sync, ReadExisting(s)
      PROVE  TypeOK' /\ WriteInv'
  <2>1. /\ UNCHANGED <<rows, reg, pos>> /\ pc[s] = "read"
        /\ pc' = [pc EXCEPT ![s] = "work"]
        /\ old' = [old EXCEPT ![s] = [i \in DOMAIN reg[s] |-> rows[reg[s][i].id]]]
    BY <1>2 DEF ReadExisting
  <2>2. \A t \in Sync \ {s} : pc'[t] = pc[t] /\ old'[t] = old[t]
    BY <2>1 DEF TypeOK
  <2>3. old'[s] = [i \in DOMAIN reg[s] |-> rows[reg[s][i].id]] /\ pc'[s] = "work"
    BY <2>1 DEF TypeOK
  <2>4. WriteInv'
    BY <2>1, <2>2, <2>3 DEF WriteInv
  <2>5. old'[s] \in Seq(Row \cup {NoRow})
    <3>1. reg[s] \in Seq(Entry)
      BY RegistryType
    <3>2. DOMAIN reg[s] = 1..Len(reg[s]) /\ Len(reg[s]) \in Nat
      BY <3>1
    <3>4. \A i \in 1..Len(reg[s]) : reg[s][i] \in Entry
      BY <3>1
    <3>3. \A i \in 1..Len(reg[s]) : rows[reg[s][i].id] \in Row \cup {NoRow}
      BY <3>4 DEF TypeOK, Entry
    <3> QED
      BY <2>3, <3>2, <3>3
  <2>6. old' \in [Sync -> Seq(Row \cup {NoRow})]
    BY <2>1, <2>5 DEF TypeOK
  <2> QED
    BY <1>2, <2>4, <2>6 DEF ReadExisting, TypeOK
<1>3. ASSUME NEW s \in Sync, Look(s)
      PROVE  TypeOK' /\ WriteInv'
  <2>1. CASE End(s)
    <3>1. WriteInv'
      BY <1>0, <1>3, <2>1, EndType, KeepsFound DEF WriteInv
    <3> QED
      BY <1>3, <2>1, <3>1, EndType DEF Look, TypeOK
  <2>2. CASE pos' = [pos EXCEPT ![s] = @ + 1] /\ UNCHANGED <<pc, reg, old>>
    <3>1. pc[s] = "work" /\ pos[s] < Len(reg[s]) /\ UNCHANGED rows
      BY <1>3 DEF Look
    <3>2. \A t \in Sync : pos'[t] <= Len(reg'[t])
      BY <2>2, <3>1, RegistryType DEF TypeOK
    <3>3. WriteInv'
      BY <2>2, <3>1 DEF WriteInv, TypeOK
    <3> QED
      BY <1>3, <2>2, <3>2, <3>3 DEF Look, TypeOK
  <2>3. CASE pc' = [pc EXCEPT ![s] = "write"] /\ UNCHANGED <<reg, old, pos>>
    <3>1. pc[s] = "work" /\ pos[s] < Len(reg[s]) /\ UNCHANGED rows
      BY <1>3 DEF Look
    <3>2. WriteInv'
      BY <2>3, <3>1 DEF WriteInv, TypeOK
    <3> QED
      BY <1>3, <2>3, <3>2 DEF Look, TypeOK
  <2> QED
    BY <1>3, <2>1, <2>2, <2>3 DEF Look
<1>4. ASSUME NEW s \in Sync, Write(s)
      PROVE  TypeOK' /\ WriteInv'
  <2>1. pc[s] = "write" /\ pos[s] < Len(reg[s])
    BY <1>4 DEF Write, WriteInv
  <2>2. CASE End(s) /\ UNCHANGED <<rows, lastWrite, raced>>
    <3>1. WriteInv'
      BY <1>0, <2>2, EndType, KeepsFound DEF WriteInv
    <3> QED
      BY <1>4, <2>2, <3>1, EndType DEF Write, TypeOK
  <2>3. CASE /\ Written(s)
             /\ lastWrite' = clock
             /\ raced' = (raced \/ \E t \in Sync \ {s} : pc[t] = "write")
             /\ pos' = [pos EXCEPT ![s] = @ + 1]
             /\ pc' = [pc EXCEPT ![s] = "work"] /\ UNCHANGED <<reg, old>>
    <3>1. rows' \in [Id -> Row \cup {NoRow}]
      BY <2>1, <2>3, WrittenType
    <3>2. raced' \in BOOLEAN
      BY <2>3
    <3>3. \A t \in Sync : pos'[t] <= Len(reg'[t])
      BY <2>1, <2>3, RegistryType DEF TypeOK
    <3>4. \A t \in Sync : pc'[t] \in {"work", "write"} => pc[t] \in {"work", "write"}
      BY <2>1, <2>3 DEF TypeOK
    <3>5. \A t \in Sync : pc'[t] = "write" => pos'[t] < Len(reg'[t])
      BY <2>3 DEF TypeOK, WriteInv
    <3>6. WriteInv'
      BY <1>0, <2>3, <3>4, <3>5, KeepsFound DEF WriteInv
    <3> QED
      BY <1>4, <2>3, <3>1, <3>2, <3>3, <3>6 DEF Write, TypeOK
  <2> QED
    BY <1>4, <2>2, <2>3, WriteCases
<1>5. ASSUME NEW s \in Sync, ExpireLapsed(s)
      PROVE  TypeOK' /\ WriteInv'
  <2>1. End(s) /\ rows' \in [Id -> Row \cup {NoRow}]
    BY <1>5, ExpireType DEF ExpireLapsed
  <2>2. WriteInv'
    BY <1>0, <2>1, EndType, KeepsFound DEF WriteInv
  <2> QED
    BY <1>5, <2>1, <2>2, EndType DEF ExpireLapsed, TypeOK
<1>6. ASSUME NEW q \in Reader, Ask(q) \/ Fetch(q) \/ Store(q) \/ Answer(q)
      PROVE  TypeOK' /\ WriteInv'
  <2>1. UNCHANGED <<scene, clock, rows, pc, reg, old, pos, alone, raced, lastWrite>>
    BY <1>6 DEF Ask, Fetch, Store, Answer
  <2>2. TTL \in Nat /\ MaxTime \in Nat
    BY RulesAssumption
  <2>3. WriteInv'
    BY <2>1 DEF WriteInv
  <2>4. ActiveRows \in [Id -> Row \cup {NoRow}] /\ NoRows \in [Id -> Row \cup {NoRow}]
    BY DEF TypeOK, ActiveRows, NoRows
  <2>5. cache' \in [at : -TTL..MaxTime, rows : [Id -> Row \cup {NoRow}]]
    BY <1>6, <2>2 DEF Ask, Fetch, Store, Answer, TypeOK, Time
  <2>6. at' \in [Reader -> Time]
    <3>1. 0 \in Time /\ clock \in Time /\ at \in [Reader -> Time]
      BY <2>2 DEF TypeOK, Time
    <3>2. \/ at' = at \/ at' = [at EXCEPT ![q] = clock] \/ at' = [at EXCEPT ![q] = 0]
      BY <1>6 DEF Ask, Fetch, Store, Answer
    <3> QED
      BY <3>1, <3>2
  <2>7. got' \in [Reader -> [Id -> Row \cup {NoRow}]]
    BY <1>6, <2>4 DEF Ask, Fetch, Store, Answer, TypeOK
  <2>8. step' \in [Reader -> {"idle", "fetch", "store", "answer"}]
    BY <1>6 DEF Ask, Fetch, Store, Answer, TypeOK
  <2> QED
    BY <2>1, <2>3, <2>5, <2>6, <2>7, <2>8 DEF TypeOK
<1>7. CASE Tick
  <2>1. clock' \in Time
    BY <1>7, RulesAssumption DEF Tick, Time, TypeOK
  <2> QED
    BY <1>7, <2>1 DEF Tick, TypeOK, WriteInv
<1>8. CASE UNCHANGED vars
  BY <1>8 DEF vars, TypeOK, WriteInv
<1> QED
  BY <1>1, <1>2, <1>3, <1>4, <1>5, <1>6, <1>7, <1>8, RulesAssumption DEF Next, TypeOK

\* The state always has its type, and a sync that is about to write is at an entry of
\* its registry whose row, if it found one, is still there.
THEOREM TypeCorrect == Spec => [](TypeOK /\ WriteInv)
  BY InitType, NextType, PTL DEF Spec

-------------------------------------------------------------------------------
\* However syncs of different registries interleave, no row disappears and none
\* changes its value.
THEOREM ValuesNeverChange == Spec => ValuesImmutable
<1>1. TypeOK /\ WriteInv /\ [Next]_vars => [Immutable]_vars
  BY NextImmutable
<1> QED
  BY <1>1, TypeCorrect, PTL DEF Spec, ValuesImmutable

-------------------------------------------------------------------------------
(* Periods do not overlap.                                                 *)

\* The entry a sync is at has no overlap.
Room(s) ==
    LET e == reg[s][Current(s)] IN
    e.row.status = "ACTIVE" => Overlaps(e.id, e.row.to) = {}

\* While no write has raced, what a sync is about to write still has no overlap.
RoomInv == ~raced => \A s \in Sync : pc[s] = "write" => Room(s)

\* The periods and the status of all rows are as they were.
SamePeriods ==
    \A i \in Id : /\ rows[i] = NoRow <=> rows'[i] = NoRow
                  /\ rows[i] # NoRow => /\ rows'[i].to = rows[i].to
                                        /\ rows'[i].status = rows[i].status

\* A sync that does not move keeps its room if periods stay.
LEMMA RoomStays ==
  ASSUME TypeOK, WriteInv, SamePeriods, NEW s \in Sync, pc[s] = "write", Room(s),
         reg'[s] = reg[s], old'[s] = old[s], pos'[s] = pos[s]
  PROVE  Room(s)'
<1>1. Current(s)' = Current(s)
  BY DEF Current, Rank
<1>2. reg[s][Current(s)].id \in Id
  BY EntryType DEF WriteInv
<1> QED
  BY <1>1, <1>2 DEF Room, Overlaps, SamePeriods

\* If periods stay they do not begin to overlap.
LEMMA PeriodsStay ==
  ASSUME SamePeriods, NoOverlapUnlessRaced, ~raced
  PROVE  NoOverlapUnlessRaced'
  BY DEF NoOverlapUnlessRaced, SamePeriods, Overlaps

\* A write into a room leaves no overlap.
LEMMA WriteKeepsApart ==
  ASSUME TypeOK, WriteInv, NoOverlapUnlessRaced, ~raced,
         NEW s \in Sync, pc[s] = "write", Room(s), Written(s)
  PROVE  NoOverlapUnlessRaced'
<1> DEFINE e == reg[s][Current(s)]
<1>1. /\ e.id \in Id /\ e.row \in Row
      /\ \A i \in Id \ {e.id} : rows'[i] = rows[i]
      /\ rows'[e.id].to = e.row.to /\ rows'[e.id].status = e.row.status
  BY WrittenType
<1>2. rows'[e.id].status = "ACTIVE" =>
         \A j \in Id \ {e.id} :
            (j[1] = e.id[1] /\ rows'[j] # NoRow /\ rows'[j].status = "ACTIVE")
               => ~(j[2] < e.row.to /\ rows'[j].to > e.id[2])
  BY <1>1 DEF Room, Overlaps
<1>3. \A i, j \in Id \ {e.id} :
         (i # j /\ i[1] = j[1] /\ rows'[i] # NoRow /\ rows'[i].status = "ACTIVE"
                /\ rows'[j] # NoRow /\ rows'[j].status = "ACTIVE")
            => ~(j[2] < rows'[i].to /\ rows'[j].to > i[2])
  BY <1>1 DEF NoOverlapUnlessRaced, Overlaps
<1> SUFFICES ASSUME NEW i \in Id, rows'[i] # NoRow, rows'[i].status = "ACTIVE",
                    NEW j \in Id \ {i}, j[1] = i[1], rows'[j] # NoRow,
                    rows'[j].status = "ACTIVE", j[2] < rows'[i].to, rows'[j].to > i[2]
             PROVE  FALSE
  BY DEF NoOverlapUnlessRaced, Overlaps
<1> HIDE DEF e
<1>4. i[2] \in Int /\ j[2] \in Int
  BY RulesAssumption DEF Id, Time
<1>5. CASE i = e.id
  BY <1>1, <1>2, <1>5
<1>6. CASE j = e.id
  BY <1>1, <1>2, <1>4, <1>6
<1> QED
  BY <1>3, <1>5, <1>6

LEMMA NextRoom ==
  TypeOK /\ WriteInv /\ RoomInv /\ NoOverlapUnlessRaced /\ [Next]_vars
    => RoomInv' /\ NoOverlapUnlessRaced'
<1> SUFFICES ASSUME TypeOK, WriteInv, RoomInv, NoOverlapUnlessRaced, [Next]_vars, ~raced'
             PROVE  RoomInv' /\ NoOverlapUnlessRaced'
  BY DEF RoomInv, NoOverlapUnlessRaced
<1> USE DEF syncs, readers
<1>1. ~raced
  BY DEF Next, Start, ReadExisting, Look, Write, ExpireLapsed, Ask, Fetch, Store, Answer,
         Tick, vars
<1>2. ASSUME UNCHANGED rows
      PROVE  SamePeriods
  BY <1>2 DEF SamePeriods
<1>3. ASSUME NEW s \in Sync, NEW r \in Registry, Start(s, r)
      PROVE  RoomInv' /\ NoOverlapUnlessRaced'
  <2>1. NoOverlapUnlessRaced'
    BY <1>1, <1>2, <1>3, PeriodsStay DEF Start
  <2>2. \A t \in Sync : pc'[t] = "write" =>
           pc[t] = "write" /\ reg'[t] = reg[t] /\ old'[t] = old[t] /\ pos'[t] = pos[t]
    BY <1>3 DEF Start, TypeOK
  <2>3. UNCHANGED rows
    BY <1>3 DEF Start
  <2> QED
    BY <1>1, <1>2, <2>1, <2>2, <2>3, RoomStays DEF RoomInv
<1>4. ASSUME NEW s \in Sync, ReadExisting(s)
      PROVE  RoomInv' /\ NoOverlapUnlessRaced'
  <2>1. NoOverlapUnlessRaced'
    BY <1>1, <1>2, <1>4, PeriodsStay DEF ReadExisting
  <2>2. \A t \in Sync : pc'[t] = "write" =>
           pc[t] = "write" /\ reg'[t] = reg[t] /\ old'[t] = old[t] /\ pos'[t] = pos[t]
    BY <1>4 DEF ReadExisting, TypeOK
  <2>3. UNCHANGED rows
    BY <1>4 DEF ReadExisting
  <2> QED
    BY <1>1, <1>2, <2>1, <2>2, <2>3, RoomStays DEF RoomInv
<1>5. ASSUME NEW s \in Sync, Look(s)
      PROVE  RoomInv' /\ NoOverlapUnlessRaced'
  <2>1. NoOverlapUnlessRaced' /\ SamePeriods
    BY <1>1, <1>2, <1>5, PeriodsStay DEF Look
  <2>2. \A t \in Sync \ {s} : pc'[t] = "write" =>
           pc[t] = "write" /\ reg'[t] = reg[t] /\ old'[t] = old[t] /\ pos'[t] = pos[t]
    BY <1>5 DEF Look, End, TypeOK
  <2>3. pc'[s] = "write" => Room(s)'
    <3> SUFFICES ASSUME pc'[s] = "write"
                 PROVE  Room(s)'
      OBVIOUS
    <3>1. /\ UNCHANGED <<reg, old, pos, rows>>
          /\ Sound(old[s][Current(s)], reg[s][Current(s)])
          /\ old[s][Current(s)] # reg[s][Current(s)].row
      BY <1>5 DEF Look, End, TypeOK
    <3>2. Room(s)
      BY <3>1 DEF Room, Sound
    <3>3. Current(s)' = Current(s)
      BY <3>1 DEF Current, Rank
    <3> QED
      BY <3>1, <3>2, <3>3 DEF Room, Overlaps
  <2> QED
    BY <1>1, <2>1, <2>2, <2>3, RoomStays DEF RoomInv
<1>6. ASSUME NEW s \in Sync, Write(s)
      PROVE  RoomInv' /\ NoOverlapUnlessRaced'
  <2>1. pc[s] = "write" /\ Room(s)
    BY <1>1, <1>6 DEF Write, RoomInv
  <2>2. CASE End(s) /\ UNCHANGED rows
    <3>1. NoOverlapUnlessRaced'
      BY <1>1, <1>2, <2>2, PeriodsStay
    <3> QED
      BY <1>1, <1>2, <2>2, <3>1, EndType, RoomStays DEF RoomInv
  <2>3. CASE /\ Written(s)
             /\ raced' = (raced \/ \E t \in Sync \ {s} : pc[t] = "write")
             /\ pc' = [pc EXCEPT ![s] = "work"]
    <3>1. NoOverlapUnlessRaced'
      BY <1>1, <2>1, <2>3, WriteKeepsApart
    <3>2. \A t \in Sync : pc'[t] # "write"
      BY <2>3 DEF TypeOK
    <3> QED
      BY <3>1, <3>2 DEF RoomInv
  <2> QED
    BY <1>6, <2>2, <2>3, WriteCases
<1>7. ASSUME NEW s \in Sync, ExpireLapsed(s)
      PROVE  RoomInv' /\ NoOverlapUnlessRaced'
  <2>1. SamePeriods /\ End(s)
    BY <1>7, ExpireType DEF SamePeriods, ExpireLapsed
  <2>2. NoOverlapUnlessRaced'
    BY <1>1, <2>1, PeriodsStay
  <2> QED
    BY <1>1, <2>1, <2>2, EndType, RoomStays DEF RoomInv
<1>8. CASE UNCHANGED <<rows, pc, reg, old, pos, raced>>
  <2>1. NoOverlapUnlessRaced'
    BY <1>1, <1>2, <1>8, PeriodsStay
  <2> QED
    BY <1>1, <1>2, <1>8, <2>1, RoomStays DEF RoomInv
<1>9. scene.syncs \subseteq Sync /\ scene.registries \subseteq Registry
  BY RulesAssumption DEF TypeOK
<1> QED
  BY <1>3, <1>4, <1>5, <1>6, <1>7, <1>8, <1>9 DEF Next, Ask, Fetch, Store, Answer, Tick, vars

\* No two ACTIVE periods of a key overlap unless two syncs wrote at the same time.
THEOREM PeriodsStayApart == Spec => []NoOverlapUnlessRaced
<1>1. Init => RoomInv /\ NoOverlapUnlessRaced
  BY DEF Init, RoomInv, NoOverlapUnlessRaced, NoRows
<1> QED
  BY <1>1, NextRoom, TypeCorrect, PTL DEF Spec

-------------------------------------------------------------------------------
(* A sync that runs on its own.                                            *)

\* The row of every entry is as the file says once the sync is done with the entry,
\* and before that as the sync has found it.
OwnWork(s) ==
    \A i \in DOMAIN reg[s] :
        rows[reg[s][i].id] = IF Rank(s, i) < pos[s] THEN reg[s][i].row ELSE old[s][i]

\* What was found of the entry a sync is at has the entry's value.
ValueKept(s) ==
    LET i == Current(s) IN old[s][i] # NoRow => old[s][i].value = reg[s][i].row.value

\* A sync that is alone has been the only one to write, and knows its rows.
LoneInv ==
    \A s \in Sync :
        /\ pc[s] = "read" => pos[s] = 0
        /\ alone[s] /\ pc[s] # "idle" => \A t \in Sync \ {s} : pc[t] = "idle"
        /\ pc[s] = "write" => ValueKept(s)
        /\ (pc[s] \in {"work", "write"} /\ alone[s] /\ NoRepeats(reg[s])) => OwnWork(s)

\* A sync that does not move, in a table that does not change, knows its rows still.
LEMMA KeepsWork ==
  ASSUME NEW s \in Sync, reg'[s] = reg[s], old'[s] = old[s], pos'[s] = pos[s]
  PROVE  /\ ValueKept(s) => ValueKept(s)'
         /\ OwnWork(s) /\ rows' = rows => OwnWork(s)'
<1>1. \A i : Rank(s, i)' = Rank(s, i)
  BY DEF Rank
<1>2. Current(s)' = Current(s)
  BY DEF Current, Rank
<1> QED
  BY <1>1, <1>2 DEF OwnWork, ValueKept

\* The entries a sync is at and has behind it.
LEMMA CurrentWork ==
  ASSUME TypeOK, NEW s \in Sync, pos[s] < Len(reg[s])
  PROVE  /\ Current(s) \in DOMAIN reg[s] /\ Rank(s, Current(s)) = pos[s]
         /\ \A i \in DOMAIN reg[s] : i # Current(s) => Rank(s, i) # pos[s]
         /\ \A i \in DOMAIN reg[s] :
               old[s][i] # NoRow /\ old[s][Current(s)] = NoRow => Rank(s, i) < pos[s]
<1>1. reg[s] \in Seq(Entry) /\ pos[s] \in Nat
  BY RegistryType
<1>2. Current(s) \in DOMAIN reg[s] /\ Rank(s, Current(s)) = pos[s]
  BY <1>1, CurrentIsAnEntry
<1>3. \A i \in DOMAIN reg[s] : Rank(s, i) \in Nat
  BY <1>1, RankOrder
<1>4. \A i \in DOMAIN reg[s] : i # Current(s) =>
         Rank(s, i) < Rank(s, Current(s)) \/ Rank(s, Current(s)) < Rank(s, i)
  BY <1>1, <1>2, RankOrder
<1>5. \A i \in DOMAIN reg[s] :
         old[s][i] # NoRow /\ old[s][Current(s)] = NoRow => Rank(s, i) < Rank(s, Current(s))
  BY <1>1, <1>2, RankOrder DEF Before
<1> QED
  BY <1>1, <1>2, <1>3, <1>4, <1>5

\* A sync that has made the row of its entry what the file says goes on to the next.
LEMMA Advance ==
  ASSUME TypeOK, NEW s \in Sync, pos[s] < Len(reg[s]), OwnWork(s), NoRepeats(reg[s]),
         reg'[s] = reg[s], old'[s] = old[s], pos'[s] = pos[s] + 1,
         rows'[reg[s][Current(s)].id] = reg[s][Current(s)].row,
         \A i \in Id \ {reg[s][Current(s)].id} : rows'[i] = rows[i]
  PROVE  OwnWork(s)'
<1>1. \A i : Rank(s, i)' = Rank(s, i)
  BY DEF Rank
<1>2. reg[s] \in Seq(Entry) /\ pos[s] \in Nat
  BY RegistryType
<1>3. \A i \in DOMAIN reg[s] : reg[s][i].id \in Id /\ Rank(s, i) \in Nat
  <2>1. \A i \in DOMAIN reg[s] : reg[s][i] \in Entry
    BY <1>2
  <2> QED
    BY <1>2, <2>1, RankOrder DEF Entry
<1> SUFFICES ASSUME NEW i \in DOMAIN reg[s]
             PROVE  rows'[reg[s][i].id] = IF Rank(s, i) < pos[s] + 1 THEN reg[s][i].row
                                                                     ELSE old[s][i]
  BY <1>1 DEF OwnWork
<1>4. CASE i = Current(s)
  BY <1>2, <1>4, CurrentWork
<1>5. CASE i # Current(s)
  <2>1. reg[s][i].id # reg[s][Current(s)].id
    BY <1>5, CurrentWork DEF NoRepeats
  <2>2. rows'[reg[s][i].id] = rows[reg[s][i].id]
    BY <1>3, <2>1
  <2>3. Rank(s, i) < pos[s] + 1 <=> Rank(s, i) < pos[s]
    BY <1>2, <1>3, <1>5, CurrentWork
  <2> QED
    BY <2>2, <2>3 DEF OwnWork
<1> QED
  BY <1>4, <1>5

\* A lone sync finds the row of its entry as it was, and writes what the file says.
LEMMA WritesTheEntry ==
  ASSUME TypeOK, WriteInv, NEW s \in Sync, pc[s] = "write", OwnWork(s), ValueKept(s),
         Written(s)
  PROVE  rows'[reg[s][Current(s)].id] = reg[s][Current(s)].row
<1> DEFINE e == reg[s][Current(s)]
           o == old[s][Current(s)]
<1>1. pos[s] < Len(reg[s]) /\ pos[s] \in Nat
  BY RegistryType DEF WriteInv
<1>2. Current(s) \in DOMAIN reg[s] /\ Rank(s, Current(s)) = pos[s]
  BY <1>1, CurrentWork
<1>3. rows[e.id] = o
  BY <1>1, <1>2 DEF OwnWork
<1>4. e.id \in Id /\ e.row \in Row
  BY <1>1, EntryType
<1>5. rows'[e.id] = IF o = NoRow THEN e.row ELSE [e.row EXCEPT !.value = rows[e.id].value]
  BY <1>4 DEF Written, TypeOK
<1>6. o # NoRow => [e.row EXCEPT !.value = rows[e.id].value] = e.row
  <2>1. o # NoRow => rows[e.id].value = e.row.value
    BY <1>3 DEF ValueKept
  <2> HIDE DEF e, o
  <2> QED
    BY <1>4, <2>1 DEF Row
<1> QED
  BY <1>5, <1>6

\* Syncs that do not move keep what LoneInv says of them, if the table does not change
\* or they are not alone.
LEMMA OthersKeep ==
  ASSUME TypeOK, LoneInv, NEW t \in Sync,
         pc'[t] = pc[t], reg'[t] = reg[t], old'[t] = old[t], pos'[t] = pos[t],
         alone'[t] => alone[t],
         rows' = rows \/ (alone[t] => pc[t] = "idle")
  PROVE  /\ pc'[t] = "read" => pos'[t] = 0
         /\ pc'[t] = "write" => ValueKept(t)'
         /\ pc'[t] \in {"work", "write"} /\ alone'[t] /\ NoRepeats(reg'[t]) => OwnWork(t)'
<1>1. ValueKept(t) => ValueKept(t)'
  BY KeepsWork
<1>2. OwnWork(t) /\ rows' = rows => OwnWork(t)'
  BY KeepsWork
<1> QED
  BY <1>1, <1>2 DEF LoneInv

LEMMA NextLone == TypeOK /\ WriteInv /\ LoneInv /\ [Next]_vars => LoneInv'
<1> SUFFICES ASSUME TypeOK, WriteInv, LoneInv, [Next]_vars
             PROVE  LoneInv'
  OBVIOUS
<1> USE DEF syncs, readers
<1>1. ASSUME NEW s \in Sync, NEW r \in Registry, Start(s, r)
      PROVE  LoneInv'
  <2>1. /\ \A t \in Sync \ {s} : /\ pc'[t] = pc[t] /\ reg'[t] = reg[t] /\ old'[t] = old[t]
                                 /\ pos'[t] = pos[t]
                                 /\ alone'[t] => alone[t] /\ pc[t] = "idle"
        /\ pc'[s] = "read" /\ pos'[s] = 0 /\ rows' = rows
        /\ alone'[s] => \A t \in Sync \ {s} : pc[t] = "idle"
    BY <1>1 DEF Start, TypeOK
  <2>2. ASSUME NEW t \in Sync
        PROVE  /\ pc'[t] = "read" => pos'[t] = 0
               /\ pc'[t] = "write" => ValueKept(t)'
               /\ pc'[t] \in {"work", "write"} /\ alone'[t] /\ NoRepeats(reg'[t]) => OwnWork(t)'
    <3>1. CASE t = s
      BY <2>1, <3>1
    <3>2. CASE t # s
      BY <2>1, <3>2, OthersKeep
    <3> QED
      BY <3>1, <3>2
  <2>3. ASSUME NEW t \in Sync, alone'[t], pc'[t] # "idle", NEW o \in Sync \ {t}
        PROVE  pc'[o] = "idle"
    BY <2>1, <2>3
  <2> QED
    BY <2>2, <2>3 DEF LoneInv
<1>2. ASSUME NEW s \in Sync, ReadExisting(s)
      PROVE  LoneInv'
  <2>1. /\ \A t \in Sync \ {s} : /\ pc'[t] = pc[t] /\ old'[t] = old[t]
        /\ pc[s] = "read" /\ pc'[s] = "work" /\ UNCHANGED <<rows, reg, pos, alone>>
        /\ old'[s] = [i \in DOMAIN reg[s] |-> rows[reg[s][i].id]]
    BY <1>2 DEF ReadExisting, TypeOK
  <2>2. OwnWork(s)'
    <3>1. reg'[s] \in Seq(Entry) /\ pos'[s] = 0
      BY <2>1, RegistryType DEF LoneInv
    <3>2. \A i \in DOMAIN reg'[s] : Rank(s, i)' \in Nat
      <4>1. \A i \in DOMAIN reg[s] : Rank(s, i)' = Cardinality({j \in DOMAIN reg'[s] :
                  \/ old'[s][j] # NoRow /\ old'[s][i] = NoRow
                  \/ (old'[s][j] = NoRow) = (old'[s][i] = NoRow) /\ j < i})
        BY <2>1 DEF Rank
      <4>2. DOMAIN reg'[s] = 1..Len(reg'[s]) /\ Len(reg'[s]) \in Nat
        BY <3>1
      <4>3. IsFiniteSet(DOMAIN reg'[s])
        BY <4>2, FS_Interval
      <4>4. \A i \in DOMAIN reg[s] : IsFiniteSet({j \in DOMAIN reg'[s] :
                  \/ old'[s][j] # NoRow /\ old'[s][i] = NoRow
                  \/ (old'[s][j] = NoRow) = (old'[s][i] = NoRow) /\ j < i})
        BY <4>3, FS_Subset
      <4> QED
        BY <2>1, <4>1, <4>4, FS_CardinalityType
    <3> QED
      BY <2>1, <3>1, <3>2 DEF OwnWork
  <2>3. ASSUME NEW t \in Sync \ {s}
        PROVE  /\ pc'[t] = "read" => pos'[t] = 0
               /\ pc'[t] = "write" => ValueKept(t)'
               /\ pc'[t] \in {"work", "write"} /\ alone'[t] /\ NoRepeats(reg'[t]) => OwnWork(t)'
    BY <2>1, OthersKeep
  <2> QED
    BY <2>1, <2>2, <2>3 DEF LoneInv
<1>3. ASSUME NEW s \in Sync, End(s), UNCHANGED alone,
             UNCHANGED rows \/ pc[s] # "idle"
      PROVE  LoneInv'
  <2>1. /\ \A t \in Sync \ {s} : /\ pc'[t] = pc[t] /\ reg'[t] = reg[t] /\ old'[t] = old[t]
                                 /\ pos'[t] = pos[t]
        /\ pc'[s] = "idle"
    BY <1>3 DEF End, TypeOK
  <2>2. \A t \in Sync \ {s} : rows' = rows \/ (alone[t] => pc[t] = "idle")
    BY <1>3 DEF LoneInv
  <2>3. ASSUME NEW t \in Sync \ {s}
        PROVE  /\ pc'[t] = "read" => pos'[t] = 0
               /\ pc'[t] = "write" => ValueKept(t)'
               /\ pc'[t] \in {"work", "write"} /\ alone'[t] /\ NoRepeats(reg'[t]) => OwnWork(t)'
    BY <1>3, <2>1, <2>2, OthersKeep
  <2> QED
    BY <1>3, <2>1, <2>3 DEF LoneInv
<1>4. ASSUME NEW s \in Sync, Look(s)
      PROVE  LoneInv'
  <2> DEFINE e == reg[s][Current(s)]
             o == old[s][Current(s)]
  <2>1. pc[s] = "work" /\ pos[s] < Len(reg[s]) /\ UNCHANGED <<rows, alone>>
    BY <1>4 DEF Look
  <2>2. CASE End(s)
    BY <1>3, <2>1, <2>2
  <2>3. CASE /\ o = e.row
             /\ pos' = [pos EXCEPT ![s] = @ + 1] /\ UNCHANGED <<pc, reg, old>>
    <3>1. alone[s] /\ NoRepeats(reg[s]) => OwnWork(s)'
      <4> SUFFICES ASSUME alone[s], NoRepeats(reg[s])
                   PROVE  OwnWork(s)'
        OBVIOUS
      <4>1. OwnWork(s) /\ pos[s] \in Nat
        BY <2>1, RegistryType DEF LoneInv
      <4>2. Current(s) \in DOMAIN reg[s] /\ Rank(s, Current(s)) = pos[s]
        BY <2>1, CurrentWork
      <4>3. rows'[e.id] = e.row
        BY <2>1, <2>3, <4>1, <4>2 DEF OwnWork
      <4>4. pos'[s] = pos[s] + 1
        BY <2>3 DEF TypeOK
      <4> QED
        BY <2>1, <2>3, <4>1, <4>3, <4>4, Advance
    <3>2. ASSUME NEW t \in Sync \ {s}
          PROVE  /\ pc'[t] = "read" => pos'[t] = 0
                 /\ pc'[t] = "write" => ValueKept(t)'
                 /\ pc'[t] \in {"work", "write"} /\ alone'[t] /\ NoRepeats(reg'[t]) => OwnWork(t)'
      BY <2>1, <2>3, OthersKeep DEF TypeOK
    <3> QED
      BY <2>1, <2>3, <3>1, <3>2 DEF LoneInv
  <2>4. CASE /\ Sound(o, e)
             /\ pc' = [pc EXCEPT ![s] = "write"] /\ UNCHANGED <<reg, old, pos>>
    <3>1. ValueKept(s)
      BY <2>4 DEF Sound, ValueKept
    <3>2. ValueKept(s)' /\ (OwnWork(s) => OwnWork(s)')
      BY <2>1, <2>4, <3>1, KeepsWork
    <3>3. /\ pc'[s] = "write"
          /\ \A t \in Sync \ {s} : pc'[t] = pc[t]
      BY <2>4 DEF TypeOK
    <3>4. ASSUME NEW t \in Sync \ {s}
          PROVE  /\ pc'[t] = "read" => pos'[t] = 0
                 /\ pc'[t] = "write" => ValueKept(t)'
                 /\ pc'[t] \in {"work", "write"} /\ alone'[t] /\ NoRepeats(reg'[t]) => OwnWork(t)'
      BY <2>1, <2>4, <3>3, OthersKeep
    <3> QED
      BY <2>1, <2>4, <3>2, <3>3, <3>4 DEF LoneInv
  <2> QED
    BY <1>4, <2>2, <2>3, <2>4 DEF Look
<1>5. ASSUME NEW s \in Sync, Write(s)
      PROVE  LoneInv'
  <2>1. pc[s] = "write" /\ pos[s] < Len(reg[s]) /\ UNCHANGED alone
    BY <1>5 DEF Write, WriteInv
  <2>2. CASE End(s)
    BY <1>3, <2>1, <2>2
  <2>3. CASE /\ Written(s) /\ pos' = [pos EXCEPT ![s] = @ + 1]
             /\ pc' = [pc EXCEPT ![s] = "work"] /\ UNCHANGED <<reg, old>>
    <3>1. alone[s] /\ NoRepeats(reg[s]) => OwnWork(s)'
      <4> SUFFICES ASSUME alone[s], NoRepeats(reg[s])
                   PROVE  OwnWork(s)'
        OBVIOUS
      <4>1. OwnWork(s) /\ ValueKept(s)
        BY <2>1 DEF LoneInv
      <4>2. rows'[reg[s][Current(s)].id] = reg[s][Current(s)].row
        BY <2>1, <2>3, <4>1, WritesTheEntry
      <4>3. \A i \in Id \ {reg[s][Current(s)].id} : rows'[i] = rows[i]
        BY <2>1, <2>3, WrittenType
      <4>4. pos'[s] = pos[s] + 1
        BY <2>3 DEF TypeOK
      <4> QED
        BY <2>1, <2>3, <4>1, <4>2, <4>3, <4>4, Advance
    <3>2. /\ pc'[s] = "work"
          /\ \A t \in Sync \ {s} : pc'[t] = pc[t] /\ pos'[t] = pos[t]
                                  /\ (alone[t] => pc[t] = "idle")
      BY <2>1, <2>3 DEF TypeOK, LoneInv
    <3>3. ASSUME NEW t \in Sync \ {s}
          PROVE  /\ pc'[t] = "read" => pos'[t] = 0
                 /\ pc'[t] = "write" => ValueKept(t)'
                 /\ pc'[t] \in {"work", "write"} /\ alone'[t] /\ NoRepeats(reg'[t]) => OwnWork(t)'
      BY <2>1, <2>3, <3>2, OthersKeep
    <3> QED
      BY <2>1, <2>3, <3>1, <3>2, <3>3 DEF LoneInv
  <2> QED
    BY <1>5, <2>2, <2>3, WriteCases
<1>6. ASSUME NEW s \in Sync, ExpireLapsed(s)
      PROVE  LoneInv'
  BY <1>3, <1>6 DEF ExpireLapsed
<1>7. CASE UNCHANGED <<rows, pc, reg, old, pos, alone>>
  <2>1. ASSUME NEW t \in Sync
        PROVE  /\ pc'[t] = "read" => pos'[t] = 0
               /\ pc'[t] = "write" => ValueKept(t)'
               /\ pc'[t] \in {"work", "write"} /\ alone'[t] /\ NoRepeats(reg'[t]) => OwnWork(t)'
    BY <1>7, OthersKeep
  <2> QED
    BY <1>7, <2>1 DEF LoneInv
<1>8. scene.syncs \subseteq Sync /\ scene.registries \subseteq Registry
  BY RulesAssumption DEF TypeOK
<1> QED
  BY <1>1, <1>2, <1>4, <1>5, <1>6, <1>7, <1>8 DEF Next, Ask, Fetch, Store, Answer, Tick, vars

LEMMA LoneSyncs == Spec => [](TypeOK /\ WriteInv /\ LoneInv)
<1>1. Init => LoneInv
  BY DEF Init, LoneInv
<1> QED
  BY <1>1, NextLone, InitType, NextType, PTL DEF Spec

\* A registry that closes or retires a row and adds its successor is applied whatever
\* the order of the file: nothing a lone sync still creates meets that row.
THEOREM SuccessorsFindRoom == Spec => []ClosedMakesRoom
<1>1. TypeOK /\ WriteInv /\ LoneInv => ClosedMakesRoom
  <2> SUFFICES ASSUME TypeOK, LoneInv, NEW s \in Sync,
                      pc[s] = "work", pos[s] < Len(reg[s]), alone[s], NoRepeats(reg[s]),
                      old[s][Current(s)] = NoRow, NEW i \in DOMAIN reg[s],
                      reg[s][i].id \in Overlaps(reg[s][Current(s)].id, reg[s][Current(s)].row.to)
               PROVE  /\ reg[s][i].row.status = "ACTIVE"
                      /\ reg[s][i].row.to > reg[s][Current(s)].id[2]
    BY DEF ClosedMakesRoom
  <2>1. OwnWork(s)
    BY DEF LoneInv
  <2>2. rows[reg[s][i].id] # NoRow
    BY DEF Overlaps
  <2>3. Rank(s, i) < pos[s]
    <3>1. CASE old[s][i] # NoRow
      BY <3>1, CurrentWork
    <3>2. CASE old[s][i] = NoRow
      BY <2>1, <2>2, <3>2 DEF OwnWork
    <3> QED
      BY <3>1, <3>2
  <2>4. rows[reg[s][i].id] = reg[s][i].row
    BY <2>1, <2>3 DEF OwnWork
  <2> QED
    BY <2>4 DEF Overlaps
<1> QED
  BY <1>1, LoneSyncs, PTL

\* A sync that was the only one and ends without an error has made every row of its
\* file what the file says, but for those that have lapsed.
THEOREM RegistryApplied == Spec => SyncApplies
<1> DEFINE Ends(s) == /\ pc[s] = "work" /\ pc'[s] = "idle" /\ pos[s] = Len(reg[s])
                      /\ alone[s] /\ NoRepeats(reg[s])
           Step == \A s \in Sync : Ends(s) =>
                     \A i \in DOMAIN reg[s] : Applied(reg[s][i], rows'[reg[s][i].id])
<1>1. TypeOK /\ WriteInv /\ LoneInv /\ [Next]_vars => Step
  <2> SUFFICES ASSUME TypeOK, LoneInv, [Next]_vars, NEW s \in Sync, Ends(s),
                      NEW i \in DOMAIN reg[s]
               PROVE  Applied(reg[s][i], rows'[reg[s][i].id])
    OBVIOUS
  <2>1. ExpireLapsed(s)
    <3>1. scene.syncs \subseteq Sync
      BY RulesAssumption DEF TypeOK
    <3>2. \A t \in Sync : End(t) => \A o \in Sync \ {t} : pc'[o] = pc[o]
      BY DEF End, TypeOK
    <3>3. ASSUME NEW t \in Sync, NEW r \in Registry, Start(t, r)
          PROVE  FALSE
      BY <3>3 DEF Start, TypeOK
    <3>4. ASSUME NEW t \in Sync, ReadExisting(t)
          PROVE  FALSE
      BY <3>4 DEF ReadExisting, TypeOK
    <3>5. ASSUME NEW t \in Sync, Look(t)
          PROVE  FALSE
      <4>1. t # s
        BY <3>5, RegistryType DEF Look
      <4> QED
        BY <3>2, <3>5, <4>1 DEF Look, TypeOK
    <3>6. ASSUME NEW t \in Sync, Write(t)
          PROVE  FALSE
      <4>1. t # s
        BY <3>6 DEF Write
      <4> QED
        BY <3>2, <3>6, <4>1 DEF Write, TypeOK
    <3>7. ASSUME NEW t \in Sync, ExpireLapsed(t)
          PROVE  ExpireLapsed(s)
      BY <3>2, <3>7 DEF ExpireLapsed
    <3>8. pc' # pc
      OBVIOUS
    <3> QED
      BY <3>1, <3>3, <3>4, <3>5, <3>6, <3>7, <3>8, RulesAssumption
      DEF Next, Ask, Fetch, Store, Answer, Tick, vars, syncs, TypeOK
  <2>2. reg[s] \in Seq(Entry) /\ OwnWork(s)
    BY RegistryType DEF LoneInv
  <2>3. rows[reg[s][i].id] = reg[s][i].row
    BY <2>2, RankOrder DEF OwnWork
  <2>4. reg[s][i].id \in Id
    <3>1. reg[s][i] \in Entry
      BY <2>2
    <3> QED
      BY <3>1 DEF Entry
  <2> QED
    BY <2>1, <2>3, <2>4 DEF ExpireLapsed, Applied
<1>2. TypeOK /\ WriteInv /\ LoneInv /\ [Next]_vars => [Step]_vars
  BY <1>1
<1> QED
  BY <1>2, LoneSyncs, PTL DEF Spec, SyncApplies

-------------------------------------------------------------------------------
(* Answers from the copy.                                                  *)

\* A copy begun after the last change is the table; nothing is later than now.
CopyInv ==
    /\ lastWrite <= clock /\ cache.at <= clock
    /\ lastWrite < cache.at => cache.rows = ActiveRows
    /\ \A q \in Reader :
          /\ at[q] <= clock
          /\ step[q] = "store" /\ lastWrite < at[q] => got[q] = ActiveRows
          /\ step[q] = "answer" /\ lastWrite <= at[q] - TTL => got[q] = ActiveRows

\* If the table is as it was, so are its ACTIVE rows.
LEMMA SameActive == rows' = rows => ActiveRows' = ActiveRows
  BY DEF ActiveRows

LEMMA NextCopy == TypeOK /\ CopyInv /\ [Next]_vars => CopyInv'
<1> SUFFICES ASSUME TypeOK, CopyInv, [Next]_vars
             PROVE  CopyInv'
  OBVIOUS
<1> USE DEF syncs, readers
<1>0. TTL \in Nat \ {0} /\ clock \in Int /\ lastWrite \in Int /\ cache.at \in Int
      /\ \A q \in Reader : at[q] \in Int
  BY RulesAssumption DEF TypeOK, Time
<1>1. CASE /\ UNCHANGED <<clock, cache, readers>>
           /\ rows' # rows => lastWrite' = clock
           /\ rows' = rows => lastWrite' = lastWrite \/ lastWrite' = clock
  BY <1>0, <1>1, SameActive DEF CopyInv
<1>2. ASSUME NEW q \in Reader, Ask(q)
      PROVE  CopyInv'
  <2>1. UNCHANGED <<rows, clock, lastWrite, cache>> /\ ActiveRows' = ActiveRows
    BY <1>2, SameActive DEF Ask
  <2>2. \A t \in Reader \ {q} : at'[t] = at[t] /\ got'[t] = got[t] /\ step'[t] = step[t]
    BY <1>2 DEF Ask, TypeOK
  <2>3. /\ at'[q] = clock
        /\ \/ step'[q] = "fetch"
           \/ step'[q] = "answer" /\ got'[q] = cache.rows /\ clock - cache.at < TTL
    BY <1>2 DEF Ask, TypeOK
  <2> QED
    BY <1>0, <2>1, <2>2, <2>3 DEF CopyInv
<1>3. ASSUME NEW q \in Reader, Fetch(q)
      PROVE  CopyInv'
  <2>1. UNCHANGED <<rows, clock, lastWrite, cache, at>> /\ ActiveRows' = ActiveRows
    BY <1>3, SameActive DEF Fetch
  <2>2. \A t \in Reader \ {q} : got'[t] = got[t] /\ step'[t] = step[t]
    BY <1>3 DEF Fetch, TypeOK
  <2>3. step'[q] = "store" /\ got'[q] = ActiveRows
    BY <1>3 DEF Fetch, TypeOK
  <2> QED
    BY <1>0, <2>1, <2>2, <2>3 DEF CopyInv
<1>4. ASSUME NEW q \in Reader, Store(q)
      PROVE  CopyInv'
  <2>1. UNCHANGED <<rows, clock, lastWrite, got, at>> /\ ActiveRows' = ActiveRows
    BY <1>4, SameActive DEF Store
  <2>2. \A t \in Reader \ {q} : step'[t] = step[t]
    BY <1>4 DEF Store, TypeOK
  <2>3. /\ step[q] = "store" /\ step'[q] = "answer"
        /\ cache'.at = at[q] /\ cache'.rows = got[q]
    BY <1>4 DEF Store, TypeOK
  <2> QED
    BY <1>0, <2>1, <2>2, <2>3 DEF CopyInv
<1>5. ASSUME NEW q \in Reader, Answer(q)
      PROVE  CopyInv'
  <2>1. UNCHANGED <<rows, clock, lastWrite, cache>> /\ ActiveRows' = ActiveRows
    BY <1>5, SameActive DEF Answer
  <2>2. \A t \in Reader \ {q} : at'[t] = at[t] /\ got'[t] = got[t] /\ step'[t] = step[t]
    BY <1>5 DEF Answer, TypeOK
  <2>3. at'[q] = 0 /\ step'[q] = "idle" /\ clock >= 0
    BY <1>5 DEF Answer, TypeOK, Time
  <2> QED
    BY <1>0, <2>1, <2>2, <2>3 DEF CopyInv
<1>6. CASE Tick
  <2>1. UNCHANGED <<rows, lastWrite, cache, readers>> /\ clock' = clock + 1
        /\ ActiveRows' = ActiveRows
    BY <1>6, SameActive DEF Tick
  <2> QED
    BY <1>0, <2>1 DEF CopyInv
<1>7. ASSUME NEW s \in Sync, Write(s) \/ ExpireLapsed(s)
      PROVE  CopyInv'
  <2>1. /\ UNCHANGED <<clock, cache, readers>>
        /\ rows' # rows => lastWrite' = clock
        /\ rows' = rows => lastWrite' = lastWrite \/ lastWrite' = clock
    BY <1>7 DEF Write, ExpireLapsed
  <2> QED
    BY <1>1, <2>1
<1>8. CASE UNCHANGED <<clock, cache, readers, rows, lastWrite>>
  BY <1>1, <1>8
<1>9. scene.syncs \subseteq Sync /\ scene.readers \subseteq Reader
  BY RulesAssumption DEF TypeOK
<1> QED
  BY <1>2, <1>3, <1>4, <1>5, <1>6, <1>7, <1>8, <1>9
  DEF Next, Start, ReadExisting, Look, vars

\* A server whose table has been quiet for TTL answers with the rule in force.
THEOREM QuietAnswersAreFresh == Spec => []AnswersAreFresh
<1>1. Init => CopyInv
  BY RulesAssumption DEF Init, CopyInv
<1>2. CopyInv => AnswersAreFresh
  BY DEF CopyInv, AnswersAreFresh
<1> QED
  BY <1>1, <1>2, NextCopy, TypeCorrect, PTL DEF Spec
=============================================================================
