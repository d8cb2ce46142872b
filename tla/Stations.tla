-------------------------------- MODULE Stations --------------------------------
(***************************************************************************)
(* apps/api/src/modules/stations/station.service.ts: the station master    *)
(* data, the search index an API process keeps of it, and a user's         *)
(* favourite and recent stations.                                          *)
(*                                                                         *)
(* Imports are run by scripts/import-stations.ts in processes of their     *)
(* own, so they never invalidate the index of the API.  PostgreSQL runs    *)
(* them at READ COMMITTED: a transaction waits for another one that has    *)
(* written a row it writes too, and each of its statements sees what was   *)
(* committed when the statement began.                                     *)
(***************************************************************************)
EXTENDS StationSearch

CONSTANTS
    Code, Content,           \* station codes; what a record says of its station
    Version, NoVersion,
    Script,                  \* processes that import
    Request,                 \* searches an API process handles at a time
    NoRow, NoIndex,
    MinDataset,              \* MIN_DATASET_SIZE
    MaxDropPercent,          \* MAX_DROP_RATIO
    IndexTTL,                \* INDEX_TTL_MS, in ticks
    Take, Slice,             \* rows that mine reads; recent stations it returns
    Limit,                   \* stations in a search result
    NamesOf,                 \* [Code -> [Content -> names]], the name first
    Scene                    \* what happens in a behaviour

ASSUME StationsAssumption ==
    /\ MinDataset \in Nat /\ MaxDropPercent \in Nat /\ IndexTTL \in Nat \ {0}
    /\ Take \in Nat /\ Slice \in Nat /\ Limit \in Nat
    /\ IsFiniteSet(Code) /\ NoVersion \notin Version
    /\ NoRow \notin [content : Content, active : BOOLEAN]

\* A code has up to 8 letters, and the alphabet tells any two apart; a station has a name.
ASSUME CodesAssumption ==
    /\ \A c \in Code : c \in Seq(Letter) /\ Len(c) <= 8 /\ Rank[c] \in Int
    /\ \A c, d \in Code : Rank[c] = Rank[d] => c = d
    /\ \A c \in Code, x \in Content : NamesOf[c][x] \in Seq(Seq(Letter)) \ {<<>>}

\* What a script is given: a version, and records <<code, content>>.
Jobs == [version : Version, input : Seq(Code \X Content), force : BOOLEAN, small : BOOLEAN]
NoJob == [version |-> NoVersion, input |-> <<>>, force |-> FALSE, small |-> TRUE]

ASSUME SceneAssumption ==
    \A z \in Scene :
        /\ z.installed \in Jobs \cup {NoJob} /\ z.imports \subseteq Jobs
        /\ z.elsewhere \subseteq Seq(Letter) /\ z.time \in Nat \ {0}

VARIABLES
    scene,      \* which imports, stations and texts there are, and (a bound) how long
                \* the clock runs; it never changes
    now,
    row,        \* rows of stations: NoRow or [content, active]
    dataset,    \* rows of station_datasets: [version, records, status, at]
    pc, job, read, captured,    \* of each script: where it is, what it imports, what
                                \* it has read, the datasets its archiving has matched
    index,      \* the index of the API process
    search,     \* its requests: [pc, q, asked, version, rows]
    userStation,                \* rows of user_stations: [fav, at], at = 0 if never used
    commits, lastCommit,        \* history: imports committed, and when the last one was
    raced       \* history: one of them had read what another one then changed

imports == <<pc, job, read, captured>>
history == <<commits, lastCommit, raced>>
server  == <<scene, now, row, dataset, imports, index, search, userStation, history>>

NoRead == [rows |-> [c \in Code |-> NoRow], commits |-> 0, at |-> 0]

Idle == [pc |-> "idle", q |-> <<>>, asked |-> 0, version |-> NoVersion, rows |-> {}]

Codes(input) == {input[i][1] : i \in DOMAIN input}

\* The records of an input, sorted: what the checksum is of.
Records(input) == [c \in Codes(input) |-> (CHOOSE x \in ToSet(input) : x[1] = c)[2]]

Station(content) == [content |-> content, active |-> TRUE]

NewDataset(j, at) ==
    [version |-> j.version, records |-> Records(j.input), status |-> "ACTIVE", at |-> at]

\* Nothing was imported before, or the dataset that the scene says.
StationsInit ==
    /\ scene \in Scene /\ now = 1
    /\ row = [c \in Code |-> IF c \in Codes(scene.installed.input)
                             THEN Station(Records(scene.installed.input)[c]) ELSE NoRow]
    /\ dataset = IF scene.installed = NoJob THEN {} ELSE {NewDataset(scene.installed, 0)}
    /\ pc = [p \in Script |-> "idle"] /\ job = [p \in Script |-> NoJob]
    /\ read = [p \in Script |-> NoRead]
    /\ captured = [p \in Script |-> {}]
    /\ index = NoIndex /\ search = [s \in Request |-> Idle]
    /\ userStation = [c \in Code |-> NoRow]
    /\ commits = 0 /\ lastCommit = 0 /\ raced = FALSE

Present(rows) == {c \in Code : rows[c] # NoRow}
Active(rows)  == {c \in Present(rows) : rows[c].active}

Current == {d \in dataset : d.status = "ACTIVE"}

\* activeDataset: the newest of them.
ActiveDatasets == {d \in Current : \A e \in Current : e.at <= d.at}

-------------------------------------------------------------------------------
(* importDataset.                                                          *)

\* No duplicate, and not a stub.
Valid(j) == Cardinality(Codes(j.input)) = Len(j.input) /\ (Len(j.input) >= MinDataset \/ j.small)

Goto(p, l) == pc' = [pc EXCEPT ![p] = l]

Submit(p, j) ==
    /\ pc[p] = "idle" /\ j \in scene.imports /\ Valid(j)
    /\ job' = [job EXCEPT ![p] = j] /\ Goto(p, "datasets")
    /\ UNCHANGED <<scene, now, row, dataset, read, captured, index, search, userStation, history>>

Finish(p) ==
    /\ Goto(p, "idle") /\ job' = [job EXCEPT ![p] = NoJob]
    /\ read' = [read EXCEPT ![p] = NoRead] /\ captured' = [captured EXCEPT ![p] = {}]

VersionFree(p) == \A d \in dataset : d.version # job[p].version

\* Identical content is not imported again, other content needs a version of its own.
ReadDatasets(p) ==
    /\ pc[p] = "datasets"
    /\ \/ /\ \A d \in ActiveDatasets : d.records # Records(job[p].input)
          /\ VersionFree(p)
          /\ Goto(p, "stations") /\ UNCHANGED <<job, read, captured>>
       \/ /\ ActiveDatasets # {}
          /\ \E d \in ActiveDatasets : d.records = Records(job[p].input)
          /\ Finish(p)
       \/ ~VersionFree(p) /\ Finish(p)
    /\ UNCHANGED <<scene, now, row, dataset, index, search, userStation, history>>

ToDeactivate(p, rows) == Active(rows) \ Codes(job[p].input)

MassRemoval(p, rows) ==
    Cardinality(ToDeactivate(p, rows)) * 100 > MaxDropPercent * Cardinality(Active(rows))

ReadStations(p) ==
    /\ pc[p] = "stations"
    /\ \/ MassRemoval(p, row) /\ ~job[p].force /\ Finish(p)
       \/ /\ ~(MassRemoval(p, row) /\ ~job[p].force)
          /\ read' = [read EXCEPT ![p] = [rows |-> row, commits |-> commits, at |-> now]]
          /\ Goto(p, "write") /\ UNCHANGED <<job, captured>>
    /\ UNCHANGED <<scene, now, row, dataset, index, search, userStation, history>>

\* What the transaction writes, from what was read before it began.
ToCreate(p) == Codes(job[p].input) \ Present(read[p].rows)

\* Fault: a station that comes back as it was stays deactivated.
ToUpdate_content(p) ==
    LET rows == read[p].rows
    IN {c \in Codes(job[p].input) \ ToCreate(p) : rows[c].content # Records(job[p].input)[c]}

ToUpdate(p) ==
    LET rows == read[p].rows
    IN {c \in Codes(job[p].input) \ ToCreate(p) :
           rows[c].content # Records(job[p].input)[c] \/ ~rows[c].active}

Writes(p) == Codes(job[p].input) \cup ToDeactivate(p, read[p].rows)

\* Fault: a transaction for each statement.
Waits_never(p) == FALSE

\* For a transaction that has written one of the stations.
Waits(p) ==
    \E o \in Script \ {p} : pc[o] \in {"archive", "commit"} /\ Writes(o) \cap Writes(p) # {}

\* The stations are written; one that another script has created is a unique violation.
Write(p) ==
    /\ pc[p] = "write" /\ ~Waits(p)
    /\ \/ ToCreate(p) \cap Present(row) = {} /\ Goto(p, "archive") /\ UNCHANGED <<job, read, captured>>
       \/ ToCreate(p) \cap Present(row) # {} /\ Finish(p)
    /\ UNCHANGED <<scene, now, row, dataset, index, search, userStation, history>>

\* The datasets that are ACTIVE are archived.
Archive(p) ==
    /\ pc[p] = "archive" /\ Goto(p, "commit")
    /\ captured' = [captured EXCEPT ![p] = Current]
    /\ UNCHANGED <<scene, now, row, dataset, job, read, index, search, userStation, history>>

Imported(p) ==
    [c \in Code |->
        IF c \in ToCreate(p) \cup ToUpdate(p)
        THEN Station(Records(job[p].input)[c])
        ELSE IF c \in ToDeactivate(p, read[p].rows) THEN [row[c] EXCEPT !.active = FALSE]
        ELSE row[c]]

\* The new dataset is inserted and the transaction commits, unless its version is taken.
Commit(p) ==
    /\ pc[p] = "commit" /\ Finish(p)
    /\ \/ /\ VersionFree(p)
          /\ row' = Imported(p)
          /\ dataset' = {IF d \in captured[p] THEN [d EXCEPT !.status = "ARCHIVED"] ELSE d : d \in dataset}
                        \cup {NewDataset(job[p], read[p].at)}
          /\ commits' = commits + 1 /\ lastCommit' = now
          /\ raced' = (raced \/ read[p].commits # commits)
       \/ ~VersionFree(p) /\ UNCHANGED <<row, dataset, history>>
    /\ UNCHANGED <<scene, now, index, search, userStation>>

-------------------------------------------------------------------------------
(* getIndex and search.                                                    *)

Entries(rows) == {[code |-> c, names |-> NamesOf[c][rows[c].content]] : c \in Active(rows)}

\* GET /api/stations/search: answered from the index, if it is young enough.
Ask(s, q) ==
    /\ search[s].pc = "idle" /\ q # <<>>
    /\ \/ /\ index # NoIndex
          /\ now - index.at < IndexTTL
          /\ search' = [search EXCEPT ![s] = [pc |-> "done", q |-> q, asked |-> now,
                                              version |-> index.version, rows |-> index.rows]]
       \/ /\ ~(IF index = NoIndex THEN FALSE ELSE now - index.at < IndexTTL)
          /\ search' = [search EXCEPT ![s] = [Idle EXCEPT !.pc = "dataset", !.q = q, !.asked = now]]

ReadVersion(s) ==
    /\ search[s].pc = "dataset"
    /\ \/ Current = {} /\ search' = [search EXCEPT ![s].pc = "rows"]
       \/ \E d \in ActiveDatasets :
             search' = [search EXCEPT ![s].pc = "rows", ![s].version = d.version]
    /\ UNCHANGED <<scene, now, row, dataset, imports, index, userStation, history>>

\* Fault: the index is as old as its completion.
Indexed_late(s) == [at |-> now, version |-> search[s].version, rows |-> search[s].rows]

\* The index is as old as the request that made it.
Indexed(s) == [at |-> search[s].asked, version |-> search[s].version, rows |-> search[s].rows]

ReadRows(s) ==
    /\ search[s].pc = "rows"
    /\ search' = [search EXCEPT ![s].pc = "store", ![s].rows = Entries(row)]
    /\ UNCHANGED <<scene, now, row, dataset, imports, index, userStation, history>>

Store(s) ==
    /\ search[s].pc = "store"
    /\ index' = Indexed(s)
    /\ search' = [search EXCEPT ![s].pc = "done"]
    /\ UNCHANGED <<scene, now, row, dataset, imports, userStation, history>>

Answered(s) == SearchStations(search[s].rows, search[s].q, Limit)

\* The other clients of the API, who search too.
AskElsewhere(s) ==
    /\ \E q \in scene.elsewhere : Ask(s, q)
    /\ UNCHANGED <<scene, now, row, dataset, imports, index, userStation, history>>

AnswerElsewhere(s) ==
    /\ search[s].pc = "done" /\ search[s].q \in scene.elsewhere
    /\ search' = [search EXCEPT ![s] = Idle]
    /\ UNCHANGED <<scene, now, row, dataset, imports, index, userStation, history>>

-------------------------------------------------------------------------------
(* setFavourite, recordUse and mine.                                       *)

NewUserStation == [fav |-> FALSE, at |-> 0]

Upsert(c, fields(_)) ==
    userStation' = [userStation EXCEPT ![c] = fields(IF @ = NoRow THEN NewUserStation ELSE @)]

\* A favourite has to be an active station, one that is removed need not.
SetFavourite(c, fav) ==
    /\ c \in scene.mine /\ (fav => c \in Active(row))
    /\ Upsert(c, LAMBDA u : [u EXCEPT !.fav = fav])
    /\ UNCHANGED <<scene, now, row, dataset, imports, index, search, history>>

\* The stations of a new journey; useCount is read nowhere.
RecordUse(c) ==
    /\ c \in scene.mine \cap Active(row)
    /\ Upsert(c, LAMBDA u : [u EXCEPT !.at = now])
    /\ UNCHANGED <<scene, now, row, dataset, imports, index, search, history>>

\* The first n of S by lastUsedAt, nulls last; those of the same moment in any order.
FirstOf(n, S) ==
    {T \in SUBSET S : /\ Cardinality(T) = Min({n, Cardinality(S)})
                      /\ \A x \in T, y \in S \ T : userStation[x].at >= userStation[y].at}

\* What mine may answer.
Mine ==
    LET rows == {c \in Code : IF userStation[c] = NoRow THEN FALSE
                              ELSE userStation[c].fav \/ userStation[c].at > 0}
    IN UNION {{[favourites |-> {c \in T : userStation[c].fav}, recents |-> R] :
                   R \in FirstOf(Slice, {c \in T : userStation[c].at > 0})} :
              T \in FirstOf(Take, rows)}

Tick ==
    /\ now < scene.time /\ now' = now + 1
    /\ UNCHANGED <<scene, row, dataset, imports, index, search, userStation, history>>

StationsNext ==
    \/ \E p \in Script :
          \/ \E j \in scene.imports : Submit(p, j)
          \/ ReadDatasets(p) \/ ReadStations(p) \/ Write(p) \/ Archive(p) \/ Commit(p)
    \/ \E s \in Request : AskElsewhere(s) \/ AnswerElsewhere(s) \/ ReadVersion(s) \/ ReadRows(s) \/ Store(s)
    \/ \E c \in Code : RecordUse(c) \/ \E fav \in BOOLEAN : SetFavourite(c, fav)
    \/ Tick

-------------------------------------------------------------------------------
\* The state is of its type, and no two datasets have the same version.
TypeOK ==
    /\ scene \in Scene /\ now \in 1..scene.time
    /\ row \in [Code -> {NoRow} \cup [content : Content, active : BOOLEAN]]
    /\ \A d \in dataset : d.version \in Version /\ d.status \in {"ACTIVE", "ARCHIVED"} /\ d.at <= now
    /\ \A d, e \in dataset : d.version = e.version => d = e
    /\ pc \in [Script -> {"idle", "datasets", "stations", "write", "archive", "commit"}]
    /\ \A s \in Request : search[s].pc \in {"idle", "dataset", "rows", "store", "done"}
    /\ userStation \in [Code -> {NoRow} \cup [fav : BOOLEAN, at : 0..scene.time]]
    /\ raced \in BOOLEAN

\* "Stations missing from the new dataset are deactivated, never deleted"
\* (station.service.ts:139): unless an import went by what another one has changed
\* since, the active stations are the records of the one active dataset.
StationsMatchDataset ==
    ~raced => /\ Cardinality(Current) = (IF dataset = {} THEN 0 ELSE 1)
              /\ \A d \in Current : /\ Active(row) = DOMAIN d.records
                                    /\ \A c \in Active(row) : row[c].content = d.records[c]

\* Whatever races, of two datasets with a station in common the later import has archived
\* the earlier one (station.service.ts:221): imports that share a row wait for each other.
TwoActiveOnlyIfDisjoint ==
    \A d, e \in Current : d # e => DOMAIN d.records \cap DOMAIN e.records = {}

\* "Guards against ... accidental mass removal" (station.service.ts:140): an import that
\* is not forced and went by the stations as they are leaves most of them active.
NoMassRemoval ==
    [][\A p \in Script :
         (pc[p] = "commit" /\ commits' = commits + 1 /\ pc'[p] = "idle" /\ ~job[p].force
          /\ read[p].commits = commits) =>
             Cardinality(Active(row) \ Active(row')) * 100
                 <= MaxDropPercent * Cardinality(Active(row))]_server

\* A search is answered from stations and a version that are no older than INDEX_TTL_MS
\* (station.service.ts:59), however slowly an index was made.
AnswersAreFresh ==
    \A s \in Request :
        (search[s].pc = "done" /\ lastCommit <= search[s].asked - IndexTTL) =>
            /\ search[s].rows = Entries(row)
            /\ search[s].version \in {d.version : d \in ActiveDatasets} \cup
                                     IF Current = {} THEN {NoVersion} ELSE {}

\* While a user has no more than Take stations (the take: 50 of station.service.ts:96),
\* all favourites are among the favourites, and the recent stations are the latest used.
MineIsComplete ==
    LET has == {c \in Code : userStation[c] # NoRow}
    IN \A m \in Mine :
          /\ Cardinality(has) <= Take => \A c \in has : userStation[c].fav => c \in m.favourites
          /\ \A x \in m.recents, y \in has \ m.recents :
                userStation[y].at > 0 => userStation[x].at >= userStation[y].at
=============================================================================
