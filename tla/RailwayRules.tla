------------------------------ MODULE RailwayRules ------------------------------
(***************************************************************************)
(* The rules registry: apps/api/src/modules/rules/railway-rules.service.ts *)
(*                                                                         *)
(* A sync (npm run rules:sync, or the seed) applies a registry file to the *)
(* table entry by entry, each in a transaction of its own that first looks *)
(* for overlapping periods; under READ COMMITTED the look and the write    *)
(* are two steps.  An error ends it with the entries before applied.       *)
(* A server answers from a copy of the ACTIVE rows that it keeps for TTL;  *)
(* a row is identified by its key and the start of its period.             *)
(***************************************************************************)
EXTENDS Integers, Sequences, FiniteSets

CONSTANTS
    Key, Value,
    NoRow,        \* no such row: a model value
    Critical,     \* CRITICAL_RULE_KEYS
    Enforced,     \* policy.enforceVerification
    TTL,          \* CACHE_TTL_MS
    MaxTime,      \* bound of the clock
    Sync, Reader, \* runs of the sync, and requests of one server
    Registry,     \* contents the registry file may have: sequences of entries
    Scene         \* which syncs and readers there are, and with what registries

Time    == 0..MaxTime
Forever == MaxTime + 1                     \* effectiveTo = null
Id      == Key \X Time
Verification == {"UNVERIFIED", "VERIFIED", "SUPERSEDED", "EXPIRED"}
Row     == [value : Value, to : 0..Forever, status : {"ACTIVE", "RETIRED"},
            verification : Verification, evidence : BOOLEAN]
Entry   == [id : Id, row : Row]

ASSUME RulesAssumption ==
    /\ Critical \subseteq Key /\ Enforced \in BOOLEAN
    /\ TTL \in Nat \ {0} /\ MaxTime \in Nat /\ NoRow \notin Row
    /\ \A r \in Registry : r \in Seq(Entry)
    /\ \A m \in Scene : m.syncs \subseteq Sync /\ m.readers \subseteq Reader
                        /\ m.registries \subseteq Registry

VARIABLES
    scene, clock,
    rows,         \* the table
    pc, reg, old, pos,   \* of a sync: where it is, its entries, the rows it found
                         \* for them, the number of entries it is done with
    alone,        \* history: no other sync has run since it started
    raced,        \* history: a sync has written between the look and the write
                  \* of another one
    lastWrite,    \* history: when the table changed last
    cache,        \* of the server: when its copy was begun, and the copy
    at,           \* when a request asked, and for a fill what it has read
    got,
    step          \* where a request is

syncs   == <<pc, reg, old, pos, alone>>
readers == <<at, got, step>>
vars    == <<scene, clock, rows, syncs, raced, lastWrite, cache, readers>>

NoRows == [i \in Id |-> NoRow]

Init ==
    /\ scene \in Scene /\ clock = 0
    /\ rows = NoRows
    /\ pc = [s \in Sync |-> "idle"] /\ reg = [s \in Sync |-> <<>>]
    /\ old = [s \in Sync |-> <<>>] /\ pos = [s \in Sync |-> 0]
    /\ alone = [s \in Sync |-> TRUE] /\ raced = FALSE /\ lastWrite = 0
    /\ cache = [at |-> -TTL, rows |-> NoRows]
    /\ at = [q \in Reader |-> 0] /\ got = [q \in Reader |-> NoRows]
    /\ step = [q \in Reader |-> "idle"]

-------------------------------------------------------------------------------
(* syncFromRegistry.                                                       *)

\* railwayRuleSchema, for every entry before any is applied.
Parses(r) ==
    \A i \in DOMAIN r :
        /\ r[i].row.to > r[i].id[2]
        /\ r[i].row.verification = "VERIFIED" => r[i].row.evidence

Start(s, r) ==
    /\ pc[s] = "idle" /\ Parses(r)
    /\ pc' = [pc EXCEPT ![s] = "read"]
    /\ reg' = [reg EXCEPT ![s] = r]
    /\ old' = [old EXCEPT ![s] = <<>>]
    /\ pos' = [pos EXCEPT ![s] = 0]
    /\ alone' = [t \in Sync |-> /\ t # s => alone[t] /\ pc[t] = "idle"
                                /\ t = s => \A o \in Sync \ {s} : pc[o] = "idle"]
    /\ UNCHANGED <<scene, clock, rows, raced, lastWrite, cache, readers>>

\* The rows of all entries, before anything is written.
ReadExisting(s) ==
    /\ pc[s] = "read"
    /\ old' = [old EXCEPT ![s] = [i \in DOMAIN reg[s] |-> rows[reg[s][i].id]]]
    /\ pc' = [pc EXCEPT ![s] = "work"]
    /\ UNCHANGED <<scene, clock, rows, reg, pos, alone, raced, lastWrite, cache, readers>>

\* The sync forgets what it has read.
End(s) ==
    /\ pc' = [pc EXCEPT ![s] = "idle"]
    /\ reg' = [reg EXCEPT ![s] = <<>>]
    /\ old' = [old EXCEPT ![s] = <<>>]
    /\ pos' = [pos EXCEPT ![s] = 0]

\* Fault: in the order of the file.
Current_inOrder(s) == pos[s] + 1

\* Updates first, so that an entry that was closed makes room for its successor.
Rank(s, i) == Cardinality({j \in DOMAIN reg[s] :
                  \/ old[s][j] # NoRow /\ old[s][i] = NoRow
                  \/ (old[s][j] = NoRow) = (old[s][i] = NoRow) /\ j < i})
Current(s) == CHOOSE i \in DOMAIN reg[s] : Rank(s, i) = pos[s]

\* assertNoOverlap: the other ACTIVE rows whose period meets that of i until `to'.
Overlaps(i, to) ==
    {j \in Id \ {i} : /\ j[1] = i[1] /\ rows[j] # NoRow /\ rows[j].status = "ACTIVE"
                      /\ j[2] < to /\ rows[j].to > i[2]}

\* Fault: an overlap is not looked for.
Sound_valuesOnly(o, e) == o # NoRow => o.value = e.row.value

\* A value may not change, and what is written may not overlap.
Sound(o, e) ==
    /\ o # NoRow => o.value = e.row.value
    /\ o # e.row /\ e.row.status = "ACTIVE" => Overlaps(e.id, e.row.to) = {}

\* The next entry: an error, nothing to do, or a row to write.
Look(s) ==
    LET e == reg[s][Current(s)]
        o == old[s][Current(s)]
    IN /\ pc[s] = "work" /\ pos[s] < Len(reg[s])
       /\ \/ ~Sound(o, e) /\ End(s)
          \/ /\ Sound(o, e) /\ o = e.row
             /\ pos' = [pos EXCEPT ![s] = @ + 1] /\ UNCHANGED <<pc, reg, old>>
          \/ /\ Sound(o, e) /\ o # e.row
             /\ pc' = [pc EXCEPT ![s] = "write"] /\ UNCHANGED <<reg, old, pos>>
       /\ UNCHANGED <<scene, clock, rows, alone, raced, lastWrite, cache, readers>>

\* Fault: a new entry replaces a row that has appeared meanwhile.
Write_upsert(s) ==
    LET e == reg[s][Current(s)] IN
    /\ pc[s] = "write"
    /\ rows' = [rows EXCEPT ![e.id] = e.row]
    /\ lastWrite' = clock
    /\ raced' = (raced \/ \E t \in Sync \ {s} : pc[t] = "write")
    /\ pos' = [pos EXCEPT ![s] = @ + 1]
    /\ pc' = [pc EXCEPT ![s] = "work"]
    /\ UNCHANGED <<scene, clock, reg, old, alone, cache, readers>>

\* Fault: an update leaves the verification alone too.
Write_keepsVerification(s) ==
    LET e == reg[s][Current(s)]
        new == old[s][Current(s)] = NoRow
    IN /\ pc[s] = "write"
       /\ \/ /\ new /\ rows[e.id] # NoRow
             /\ End(s) /\ UNCHANGED <<rows, lastWrite, raced>>
          \/ /\ new => rows[e.id] = NoRow
             /\ rows' = [rows EXCEPT ![e.id] = IF new THEN e.row
                            ELSE [e.row EXCEPT !.verification = rows[e.id].verification]]
             /\ lastWrite' = clock
             /\ raced' = (raced \/ \E t \in Sync \ {s} : pc[t] = "write")
             /\ pos' = [pos EXCEPT ![s] = @ + 1]
             /\ pc' = [pc EXCEPT ![s] = "work"] /\ UNCHANGED <<reg, old>>
       /\ UNCHANGED <<scene, clock, alone, cache, readers>>

\* An update leaves the value alone; an insert fails if the row is there already.
Write(s) ==
    LET e == reg[s][Current(s)]
        new == old[s][Current(s)] = NoRow
    IN /\ pc[s] = "write"
       /\ \/ /\ new /\ rows[e.id] # NoRow
             /\ End(s) /\ UNCHANGED <<rows, lastWrite, raced>>
          \/ /\ new => rows[e.id] = NoRow
             /\ rows' = [rows EXCEPT ![e.id] =
                            IF new THEN e.row ELSE [e.row EXCEPT !.value = rows[e.id].value]]
             /\ lastWrite' = clock
             /\ raced' = (raced \/ \E t \in Sync \ {s} : pc[t] = "write")
             /\ pos' = [pos EXCEPT ![s] = @ + 1]
             /\ pc' = [pc EXCEPT ![s] = "work"] /\ UNCHANGED <<reg, old>>
       /\ UNCHANGED <<scene, clock, alone, cache, readers>>

\* expireLapsed: VERIFIED rows whose period has ended.
Lapsed(r, t) == r # NoRow /\ r.verification = "VERIFIED" /\ r.to <= t

ExpireLapsed(s) ==
    /\ pc[s] = "work" /\ pos[s] = Len(reg[s])
    /\ rows' = [i \in Id |-> IF Lapsed(rows[i], clock)
                             THEN [rows[i] EXCEPT !.verification = "EXPIRED"] ELSE rows[i]]
    /\ lastWrite' = IF rows' # rows THEN clock ELSE lastWrite
    /\ End(s)
    /\ UNCHANGED <<scene, clock, alone, raced, cache, readers>>

-------------------------------------------------------------------------------
(* find, get, getForBooking and snapshot.                                  *)

Ask(q) ==
    /\ step[q] = "idle"
    /\ at' = [at EXCEPT ![q] = clock]
    /\ \/ /\ clock - cache.at < TTL
          /\ got' = [got EXCEPT ![q] = cache.rows]
          /\ step' = [step EXCEPT ![q] = "answer"]
       \/ /\ clock - cache.at >= TTL
          /\ step' = [step EXCEPT ![q] = "fetch"]
          /\ UNCHANGED got
    /\ UNCHANGED <<scene, clock, rows, syncs, raced, lastWrite, cache>>

ActiveRows == [i \in Id |-> IF rows[i] # NoRow /\ rows[i].status = "ACTIVE" THEN rows[i] ELSE NoRow]

Fetch(q) ==
    /\ step[q] = "fetch"
    /\ got' = [got EXCEPT ![q] = ActiveRows]
    /\ step' = [step EXCEPT ![q] = "store"]
    /\ UNCHANGED <<scene, clock, rows, syncs, raced, lastWrite, cache, at>>

\* Fault: the copy counts from when it is complete.
Store_late(q) ==
    /\ step[q] = "store"
    /\ cache' = [at |-> clock, rows |-> got[q]]
    /\ step' = [step EXCEPT ![q] = "answer"]
    /\ UNCHANGED <<scene, clock, rows, syncs, raced, lastWrite, at, got>>

\* The copy counts from when it was begun, whichever fill is the last to end.
Store(q) ==
    /\ step[q] = "store"
    /\ cache' = [at |-> at[q], rows |-> got[q]]
    /\ step' = [step EXCEPT ![q] = "answer"]
    /\ UNCHANGED <<scene, clock, rows, syncs, raced, lastWrite, at, got>>

\* The first ACTIVE row, latest first, whose period contains t.
InForce(rs, k, t) ==
    LET S == {i \in Id : i[1] = k /\ rs[i] # NoRow /\ i[2] <= t /\ t < rs[i].to}
    IN IF S = {} THEN NoRow ELSE rs[CHOOSE i \in S : \A j \in S : j[2] <= i[2]]

IsVerified(r) == r.evidence /\ r.verification \in {"VERIFIED", "SUPERSEDED"}

\* getForBooking: nothing for a rule that is missing, or critical and unverified.
ForBooking(rs, k, t) ==
    LET r == InForce(rs, k, t) IN
    IF r # NoRow /\ Enforced /\ k \in Critical /\ ~IsVerified(r) THEN NoRow ELSE r

Answer(q) ==
    /\ step[q] = "answer"
    /\ step' = [step EXCEPT ![q] = "idle"]
    /\ at' = [at EXCEPT ![q] = 0]
    /\ got' = [got EXCEPT ![q] = NoRows]
    /\ UNCHANGED <<scene, clock, rows, syncs, raced, lastWrite, cache>>

Tick ==
    /\ clock < MaxTime
    /\ clock' = clock + 1
    /\ UNCHANGED <<scene, rows, syncs, raced, lastWrite, cache, readers>>

Next ==
    \/ \E s \in scene.syncs :
          \/ \E r \in scene.registries : Start(s, r)
          \/ ReadExisting(s) \/ Look(s) \/ Write(s) \/ ExpireLapsed(s)
    \/ \E q \in scene.readers : Ask(q) \/ Fetch(q) \/ Store(q) \/ Answer(q)
    \/ Tick

Spec == Init /\ [][Next]_vars

-------------------------------------------------------------------------------
\* The state is of its type, and a sync is at one of its entries or behind the last.
TypeOK ==
    /\ scene \in Scene /\ clock \in Time
    /\ rows \in [Id -> Row \cup {NoRow}]
    /\ pc \in [Sync -> {"idle", "read", "work", "write"}]
    /\ reg \in [Sync -> Registry \cup {<<>>}]
    /\ old \in [Sync -> Seq(Row \cup {NoRow})]
    /\ pos \in [Sync -> Nat] /\ \A s \in Sync : pos[s] <= Len(reg[s])
    /\ alone \in [Sync -> BOOLEAN] /\ raced \in BOOLEAN /\ lastWrite \in Time
    /\ cache \in [at : -TTL..MaxTime, rows : [Id -> Row \cup {NoRow}]]
    /\ at \in [Reader -> Time]
    /\ got \in [Reader -> [Id -> Row \cup {NoRow}]]
    /\ step \in [Reader -> {"idle", "fetch", "store", "answer"}]

\* "ACTIVE periods per key never overlap" (line 56), unless two syncs write at the
\* same time.
NoOverlapUnlessRaced ==
    ~raced => \A i \in Id : (rows[i] # NoRow /\ rows[i].status = "ACTIVE") =>
                  Overlaps(i, rows[i].to) = {}

\* No row stands twice in the file; neither the schema nor the sync checks it.
NoRepeats(r) == \A i, j \in DOMAIN r : r[i].id = r[j].id => i = j

\* "Updates first, so an entry whose effectiveTo was closed makes room for its
\* successor" (lines 173-174): what a lone sync creates never meets a row that the
\* same registry closes or retires.
ClosedMakesRoom ==
    \A s \in Sync :
      (pc[s] = "work" /\ pos[s] < Len(reg[s]) /\ alone[s] /\ NoRepeats(reg[s])) =>
        LET e == reg[s][Current(s)] IN
        old[s][Current(s)] = NoRow =>
            \A i \in DOMAIN reg[s] : reg[s][i].id \in Overlaps(e.id, e.row.to) =>
                reg[s][i].row.status = "ACTIVE" /\ reg[s][i].row.to > e.id[2]

\* "Values are immutable per (ruleKey, effectiveFrom)" and "nothing is deleted"
\* (lines 165-167), however syncs of different registries race.
Immutable == \A i \in Id : rows[i] # NoRow => rows'[i] # NoRow /\ rows'[i].value = rows[i].value

ValuesImmutable == [][Immutable]_vars

\* A sync that ends without an error and was the only one has applied its registry:
\* every entry is as the file says, but for those that have lapsed.
Applied(e, r) == r = e.row \/ (r = [e.row EXCEPT !.verification = "EXPIRED"] /\ Lapsed(e.row, clock))

SyncApplies ==
    [][\A s \in Sync :
         (/\ pc[s] = "work" /\ pc'[s] = "idle" /\ pos[s] = Len(reg[s])
          /\ alone[s] /\ NoRepeats(reg[s])) =>
            \A i \in DOMAIN reg[s] : Applied(reg[s][i], rows'[reg[s][i].id])]_vars

\* A server that answers from its copy is at most TTL behind: if the table did not
\* change in the TTL before a request, nor since, it gets the rule in force.
AnswersAreFresh ==
    \A q \in Reader : (step[q] = "answer" /\ lastWrite <= at[q] - TTL) =>
        \A k \in Key : ForBooking(got[q], k, at[q]) = ForBooking(ActiveRows, k, at[q])
=============================================================================
