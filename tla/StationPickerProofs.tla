-------------------------- MODULE StationPickerProofs --------------------------
(***************************************************************************)
(* Proofs about the station imports, the search index and the picker.      *)
(*                                                                         *)
(* Two imports that write one row exclude each other from the first write  *)
(* to the commit, so the second archives what the first inserted: Apart    *)
(* and Captured.  An import that nothing has overtaken goes by the         *)
(* stations as they are: Unovertaken.  What a request reads is up to date  *)
(* unless an import has committed since it began: SearchInv.               *)
(* What the search makes of it is in StationSearchProofs.                  *)
(***************************************************************************)
EXTENDS StationPicker, StationSearchProofs

Rows     == [Code -> {NoRow} \cup [content : Content, active : BOOLEAN]]
Datasets == [version : Version, records : UNION {[S -> Content] : S \in SUBSET Code},
             status : {"ACTIVE", "ARCHIVED"}, at : Nat]
Texts    == scene.texts \cup scene.elsewhere
Listed   == {Entries(rows) : rows \in Rows}
Searches == [pc : {"idle", "dataset", "rows", "store", "done"}, q : Texts \cup {<<>>}, asked : Nat,
             version : Version \cup {NoVersion}, rows : Listed]
Indexes  == [at : Nat, version : Version \cup {NoVersion}, rows : Listed]

\* The types of what the actions read.
Typed ==
    /\ scene \in Scene /\ now \in 1..scene.time
    /\ row \in Rows
    /\ dataset \subseteq Datasets
    /\ pc \in [Script -> {"idle", "datasets", "stations", "write", "archive", "commit"}]
    /\ job \in [Script -> Jobs \cup {NoJob}]
    /\ read \in [Script -> [rows : Rows, commits : Nat, at : Nat]]
    /\ captured \in [Script -> SUBSET Datasets]
    /\ commits \in Nat /\ lastCommit \in 0..now /\ raced \in BOOLEAN
    /\ userStation \in [Code -> {NoRow} \cup [fav : BOOLEAN, at : 0..scene.time]]
    /\ text \in scene.texts \cup {<<>>} /\ debounced \in scene.texts \cup {<<>>}
    /\ search \in [Request -> Searches]
    /\ index # NoIndex => index \in Indexes

\* A script at work has a job, and has read in the past; no row is ever deleted.
Busy ==
    \A p \in Script :
        /\ pc[p] # "idle" => job[p] \in Jobs
        /\ read[p].at <= now /\ read[p].commits <= commits
        /\ Present(read[p].rows) \subseteq Present(row)

\* No dataset is of the future, and a version names one dataset.
Registered ==
    /\ \A d \in dataset : d.at <= now
    /\ \A d, e \in dataset : d.version = e.version => d = e

Writing(p) == pc[p] \in {"write", "archive", "commit"}
Open(p)    == pc[p] \in {"archive", "commit"}

\* What an import has read is what there is, and what it archives is all that is ACTIVE,
\* until another one commits.
Unovertaken ==
    \A p \in Script :
        /\ Writing(p) /\ read[p].commits = commits => read[p].rows = row
        /\ pc[p] = "commit" /\ read[p].commits = commits => captured[p] = Current

\* An import that is not forced has been let through.
LetThrough ==
    \A p \in Script : Writing(p) /\ ~job[p].force => ~MassRemoval(p, read[p].rows)

\* Two transactions that write one row are not open at a time.
Apart == \A p, o \in Script : p # o /\ Open(p) /\ Open(o) => Writes(p) \cap Writes(o) = {}

\* A dataset that an import is not going to archive has none of its stations.
Captured ==
    \A p \in Script : pc[p] = "commit" =>
        \A d \in Current \ captured[p] : DOMAIN d.records \cap Codes(job[p].input) = {}

ImportInv == Busy /\ Registered /\ Unovertaken /\ LetThrough /\ Apart /\ Captured
             /\ TwoActiveOnlyIfDisjoint /\ StationsMatchDataset

CurrentVersions ==
    {d.version : d \in ActiveDatasets} \cup IF Current = {} THEN {NoVersion} ELSE {}

\* Read at or after moment at: no import has committed since, or it is up to date.
UpToDate(at, version) == lastCommit < at => version \in CurrentVersions
UpToDateRows(at, rows) == lastCommit < at => rows = Entries(row)

SearchInv ==
    /\ index # NoIndex => /\ index.at <= now
                          /\ UpToDate(index.at, index.version) /\ UpToDateRows(index.at, index.rows)
    /\ \A s \in Request :
          /\ search[s].asked <= now
          /\ search[s].pc = "dataset" => search[s].version = NoVersion
          /\ search[s].pc \in {"rows", "store"} => UpToDate(search[s].asked, search[s].version)
          /\ search[s].pc = "store" => UpToDateRows(search[s].asked, search[s].rows)
          /\ search[s].pc = "done" =>
                /\ UpToDate(search[s].asked - IndexTTL + 1, search[s].version)
                /\ UpToDateRows(search[s].asked - IndexTTL + 1, search[s].rows)

\* Every text that is fetched has a request of its own.
FetchInv ==
    /\ DOMAIN cache = scene.texts
    /\ \A q \in scene.texts :
          /\ cache[q] = [data |-> cache[q].data, at |-> cache[q].at,
                         failed |-> cache[q].failed, fetch |-> cache[q].fetch]
          /\ cache[q].fetch \in Request \cup {NoFetch}
          /\ cache[q].fetch # NoFetch =>
                search[cache[q].fetch].pc # "idle" /\ search[cache[q].fetch].q = q

-------------------------------------------------------------------------------
(* What a step can be.                                                     *)

Imports(p) ==
    \/ \E j \in scene.imports : Submit(p, j)
    \/ ReadDatasets(p) \/ ReadStations(p) \/ Write(p) \/ Archive(p) \/ Commit(p)

Still == UNCHANGED <<scene, row, dataset, imports, history>>

\* The user, and the picker with the cache.
Picks == Debounce \/ Refocus \/ (\E q \in scene.texts : Deliver(q) \/ Lose(q)) \/ (scene.texts # {} /\ Uses)

\* What a request of the other clients does.
Serves(s) == AskElsewhere(s) \/ AnswerElsewhere(s) \/ ReadVersion(s) \/ ReadRows(s) \/ Store(s)

LEMMA UsesShapes ==
    Uses => UNCHANGED <<backend, search, debounced, cache, last>>
            /\ (text' = text \/ text' \in scene.texts \cup {<<>>})
  BY DEF Uses, Type, ArrowDown, ArrowUp, Enter, Choose, Click, Hover, Close, Focus, Clear

\* A step is one of an import, of a request, of the picker, or of a favourite, or time
\* passes.
LEMMA StepShapes ==
    [Next]_vars =>
        \/ UNCHANGED picker /\ \E p \in Script : Imports(p)
        \/ UNCHANGED picker /\ \E s \in Request : Serves(s)
        \/ UNCHANGED picker /\ \E c \in Code : RecordUse(c) \/ \E fav \in BOOLEAN : SetFavourite(c, fav)
        \/ UNCHANGED picker /\ Tick
        \/ Picks
        \/ UNCHANGED vars
  BY DEF Next, StationsNext, vars, Imports, Serves, Picks

LEMMA PicksShapes == Picks => UNCHANGED backend
  BY UsesShapes DEF Picks, Debounce, Refocus, Deliver, Lose

\* Only imports touch the stations, and they touch nothing else.
LEMMA ImportShapes ==
    [Next]_vars =>
        \/ UNCHANGED <<scene, now, index, search, userStation, picker>> /\ \E p \in Script : Imports(p)
        \/ Still /\ now' \in {now, now + 1}
<1> SUFFICES ASSUME [Next]_vars PROVE
        \/ UNCHANGED <<scene, now, index, search, userStation, picker>> /\ \E p \in Script : Imports(p)
        \/ Still /\ now' \in {now, now + 1}
  OBVIOUS
<1>1. ASSUME NEW p \in Script, Imports(p) PROVE UNCHANGED <<scene, now, index, search, userStation>>
  BY <1>1 DEF Imports, Submit, ReadDatasets, ReadStations, Write, Archive, Commit
<1>2. ASSUME NEW s \in Request, Serves(s) PROVE Still /\ now' = now
  BY <1>2 DEF Serves, AskElsewhere, AnswerElsewhere, ReadVersion, ReadRows, Store, Still
<1>3. ASSUME NEW c \in Code, RecordUse(c) \/ \E fav \in BOOLEAN : SetFavourite(c, fav)
      PROVE  Still /\ now' = now
  BY <1>3 DEF RecordUse, SetFavourite, Still
<1>4. Picks => Still /\ now' = now
  BY PicksShapes DEF backend, Still
<1>5. Tick => Still /\ now' = now + 1
  BY DEF Tick, Still
<1>6. UNCHANGED vars => Still /\ now' = now
  BY DEF vars, server, Still
<1> QED
  BY <1>1, <1>2, <1>3, <1>4, <1>5, <1>6, StepShapes

\* What happens to a request.
Asked(s, q) ==
    /\ search[s].pc = "idle" /\ q \in Texts
    /\ \/ /\ index # NoIndex /\ now - index.at < IndexTTL
          /\ search'[s] = [pc |-> "done", q |-> q, asked |-> now,
                           version |-> index.version, rows |-> index.rows]
       \/ search'[s] = [pc |-> "dataset", q |-> q, asked |-> now, version |-> NoVersion, rows |-> {}]

Continued(s) ==
    \/ /\ search[s].pc = "dataset"
       /\ \/ Current = {} /\ search'[s] = [search[s] EXCEPT !.pc = "rows"]
          \/ \E d \in ActiveDatasets : search'[s] = [search[s] EXCEPT !.pc = "rows", !.version = d.version]
    \/ /\ search[s].pc = "rows"
       /\ search'[s] = [search[s] EXCEPT !.pc = "store", !.rows = Entries(row)]
    \/ /\ search[s].pc = "store" /\ index' = Indexed(s)
       /\ search'[s] = [search[s] EXCEPT !.pc = "done"]

LEMMA AskShapes ==
    ASSUME NEW s \in Request, NEW q \in Texts, Typed, Ask(s, q)
    PROVE  Asked(s, q) /\ search' = [search EXCEPT ![s] = search'[s]]
<1>1. DOMAIN search = Request
  BY DEF Typed
<1>2. CASE index # NoIndex /\ now - index.at < IndexTTL /\
           search' = [search EXCEPT ![s] = [pc |-> "done", q |-> q, asked |-> now,
                                            version |-> index.version, rows |-> index.rows]]
  BY <1>1, <1>2 DEF Ask, Asked
<1>3. CASE search' = [search EXCEPT ![s] = [Idle EXCEPT !.pc = "dataset", !.q = q, !.asked = now]]
  BY <1>1, <1>3 DEF Ask, Asked, Idle
<1> QED
  BY <1>2, <1>3 DEF Ask

LEMMA SearchShapes ==
    ASSUME Typed, FetchInv, [Next]_vars
    PROVE  \/ UNCHANGED <<search, index>>
           \/ /\ UNCHANGED <<now, row, dataset, lastCommit>>
              /\ \E s \in Request :
                    /\ search' = [search EXCEPT ![s] = search'[s]]
                    /\ \/ Continued(s) /\ (index' = index \/ search[s].pc = "store")
                       \/ index' = index /\ (search'[s] = Idle \/ \E q \in Texts : Asked(s, q))
<1> DEFINE Goal(s) ==
        /\ search' = [search EXCEPT ![s] = search'[s]]
        /\ \/ Continued(s) /\ (index' = index \/ search[s].pc = "store")
           \/ index' = index /\ (search'[s] = Idle \/ \E q \in Texts : Asked(s, q))
<1>1. ASSUME NEW p \in Script, Imports(p) PROVE UNCHANGED <<search, index>>
  BY <1>1 DEF Imports, Submit, ReadDatasets, ReadStations, Write, Archive, Commit
<1>2. ASSUME NEW s \in Request, Serves(s) PROVE UNCHANGED <<now, row, dataset, lastCommit>> /\ Goal(s)
  <2>1. DOMAIN search = Request
    BY DEF Typed
  <2>2. CASE AskElsewhere(s)
    BY <2>2, AskShapes DEF AskElsewhere, history, Texts
  <2>3. CASE AnswerElsewhere(s)
    BY <2>1, <2>3 DEF AnswerElsewhere, history
  <2>4. CASE ReadVersion(s)
    BY <2>1, <2>4 DEF ReadVersion, Continued, history
  <2>5. CASE ReadRows(s)
    BY <2>1, <2>5 DEF ReadRows, Continued, history
  <2>6. CASE Store(s)
    BY <2>1, <2>6 DEF Store, Continued, history
  <2> QED
    BY <1>2, <2>2, <2>3, <2>4, <2>5, <2>6 DEF Serves
<1>3. ASSUME NEW c \in Code, RecordUse(c) \/ \E fav \in BOOLEAN : SetFavourite(c, fav)
      PROVE  UNCHANGED <<search, index>>
  BY <1>3 DEF RecordUse, SetFavourite
<1>4. ASSUME Picks
      PROVE  \/ UNCHANGED <<search, index>>
             \/ UNCHANGED <<now, row, dataset, lastCommit, index>> /\ \E s \in Request : Goal(s)
  <2>0. UNCHANGED <<now, row, dataset, lastCommit, index>>
    BY <1>4, PicksShapes DEF backend, history
  <2>1. DOMAIN search = Request
    BY DEF Typed
  <2>2. ASSUME NEW q \in Texts, Search(q) PROVE \E s \in Request : Goal(s)
    BY <2>0, <2>2, AskShapes DEF Search
  <2>3. CASE Debounce
    <3>1. text \in Texts \cup {<<>>}
      BY DEF Typed, Texts
    <3>2. Search(text) => text # <<>>
      BY DEF Search, Stale
    <3> QED
      BY <2>0, <2>2, <2>3, <3>1, <3>2 DEF Debounce, Observe
  <2>4. CASE Refocus
    BY <2>0, <2>2, <2>4 DEF Refocus, Typed, Texts
  <2>5. ASSUME NEW q \in scene.texts, Deliver(q) \/ Lose(q) PROVE \E s \in Request : Goal(s)
    <3>1. cache[q].fetch \in Request
      BY <2>5 DEF Deliver, Lose, FetchInv
    <3>2. search' = [search EXCEPT ![cache[q].fetch] = Idle]
      BY <2>5 DEF Deliver, Lose
    <3> QED
      BY <2>0, <2>1, <3>1, <3>2
  <2>6. CASE Uses
    BY <2>0, <2>6, UsesShapes
  <2> QED
    BY <1>4, <2>0, <2>3, <2>4, <2>5, <2>6 DEF Picks
<1>5. Tick => UNCHANGED <<search, index>>
  BY DEF Tick
<1>6. UNCHANGED vars => UNCHANGED <<search, index>>
  BY DEF vars, server
<1> QED
  BY <1>1, <1>2, <1>3, <1>4, <1>5, <1>6, StepShapes

-------------------------------------------------------------------------------
(* Types.                                                                  *)

\* The records of an input are functions from its codes.
LEMMA InputType ==
    ASSUME NEW j \in Jobs \cup {NoJob}
    PROVE  Codes(j.input) \subseteq Code /\ Records(j.input) \in [Codes(j.input) -> Content]
<1>1. j.input \in Seq(Code \X Content)
  <2>1. NoJob.input = <<>>
    BY DEF NoJob
  <2>2. <<>> \in Seq(Code \X Content)
    OBVIOUS
  <2> QED
    BY <2>1, <2>2 DEF Jobs
<1>2. \A i \in DOMAIN j.input : j.input[i] \in Code \X Content
  BY <1>1
<1>3. Codes(j.input) \subseteq Code
  BY <1>2 DEF Codes
<1>4. ASSUME NEW c \in Codes(j.input)
      PROVE  (CHOOSE x \in ToSet(j.input) : x[1] = c)[2] \in Content
  <2>1. \E x \in ToSet(j.input) : x[1] = c
    BY DEF Codes, ToSet
  <2>2. (CHOOSE x \in ToSet(j.input) : x[1] = c) \in ToSet(j.input)
    BY <2>1
  <2> QED
    BY <1>2, <2>2 DEF ToSet
<1> QED
  BY <1>3, <1>4 DEF Records

LEMMA NewDatasetType ==
    ASSUME NEW j \in Jobs, NEW at \in Nat
    PROVE  /\ NewDataset(j, at) \in Datasets
           /\ DOMAIN NewDataset(j, at).records = Codes(j.input)
<1>1. Codes(j.input) \subseteq Code /\ Records(j.input) \in [Codes(j.input) -> Content]
  BY InputType
<1>2. Records(j.input) \in UNION {[S -> Content] : S \in SUBSET Code}
  BY <1>1
<1>3. j.version \in Version
  BY DEF Jobs
<1> QED
  BY <1>1, <1>2, <1>3 DEF NewDataset, Datasets

\* What a script writes of a station is one of its rows, and no row is deleted.
LEMMA ImportedType ==
    ASSUME NEW p \in Script, Typed, Busy
    PROVE  Imported(p) \in Rows /\ Present(row) \subseteq Present(Imported(p))
<1> DEFINE Row1 == [content : Content, active : BOOLEAN]
<1>1. job[p] \in Jobs \cup {NoJob} /\ row \in Rows /\ read[p].rows \in Rows
  BY DEF Typed
<1>2. \A c \in Codes(job[p].input) : Records(job[p].input)[c] \in Content
  BY <1>1, InputType
<1>3. ToCreate(p) \cup ToUpdate(p) \subseteq Codes(job[p].input)
  BY DEF ToCreate, ToUpdate
<1>4. NoRow \notin Row1
  BY StationsAssumption
<1>5. ASSUME NEW c \in Code
      PROVE  /\ Imported(p)[c] \in {NoRow} \cup Row1
             /\ row[c] # NoRow => Imported(p)[c] # NoRow
  <2>0. row[c] \in {NoRow} \cup Row1
    BY <1>1 DEF Rows
  <2>1. CASE c \in ToCreate(p) \cup ToUpdate(p)
    <3>1. Imported(p)[c] \in Row1
      BY <1>2, <1>3, <2>1 DEF Imported, Station
    <3> QED
      BY <1>4, <3>1
  <2>2. CASE c \notin ToCreate(p) \cup ToUpdate(p) /\ c \in ToDeactivate(p, read[p].rows)
    <3>1. Imported(p)[c] = [row[c] EXCEPT !.active = FALSE]
      BY <2>2 DEF Imported
    <3>2. c \in Present(row)
      BY <2>2 DEF ToDeactivate, Active, Busy
    <3>3. row[c] \in Row1
      BY <2>0, <3>2 DEF Present
    <3>4. Imported(p)[c] \in Row1
      BY <3>1, <3>3
    <3> QED
      BY <1>4, <3>4
  <2>3. CASE c \notin ToCreate(p) \cup ToUpdate(p) /\ c \notin ToDeactivate(p, read[p].rows)
    BY <2>0, <2>3 DEF Imported
  <2> QED
    BY <2>1, <2>2, <2>3
<1>6. Imported(p) \in [Code -> {NoRow} \cup Row1]
  BY <1>5 DEF Imported
<1> QED
  BY <1>5, <1>6 DEF Rows, Present

\* Without a row there is no station to search for.
LEMMA IdleTyped == Idle \in Searches /\ {} \in Listed
<1>1. [c \in Code |-> NoRow] \in Rows /\ Entries([c \in Code |-> NoRow]) = {}
  BY DEF Rows, Entries, Active, Present
<1>2. {} \in Listed
  BY <1>1 DEF Listed
<1> QED
  BY <1>2 DEF Idle, Searches

LEMMA InitTyped == Init => Typed /\ Busy /\ Registered
<1> SUFFICES ASSUME Init PROVE Typed /\ Busy /\ Registered
  OBVIOUS
<1> DEFINE i == scene.installed
<1>1. scene \in Scene /\ i \in Jobs \cup {NoJob} /\ scene.time \in Nat \ {0}
  BY SceneAssumption DEF Init, StationsInit
<1>2. Codes(i.input) \subseteq Code /\ Records(i.input) \in [Codes(i.input) -> Content]
  BY <1>1, InputType
<1>3. row \in Rows
  BY <1>2 DEF Init, StationsInit, Rows, Station
<1>4. dataset \subseteq Datasets /\ Registered
  <2>1. CASE i = NoJob
    BY <2>1 DEF Init, StationsInit, Registered
  <2>2. CASE i # NoJob
    <3>1. NewDataset(i, 0) \in Datasets
      BY <1>1, <2>2, NewDatasetType
    <3>2. dataset = {NewDataset(i, 0)} /\ now = 1
      BY <2>2 DEF Init, StationsInit
    <3> QED
      BY <3>1, <3>2 DEF Registered, NewDataset
  <2> QED
    BY <2>1, <2>2
<1>5. [c \in Code |-> NoRow] \in Rows
  BY DEF Rows
<1>6. read \in [Script -> [rows : Rows, commits : Nat, at : Nat]]
  BY <1>5 DEF Init, StationsInit, NoRead
<1>7. Busy
  BY DEF Init, StationsInit, Busy, NoRead, Present
<1>8. search \in [Request -> Searches]
  BY IdleTyped DEF Init, StationsInit
<1>9. /\ now \in 1..scene.time
      /\ pc \in [Script -> {"idle", "datasets", "stations", "write", "archive", "commit"}]
      /\ job \in [Script -> Jobs \cup {NoJob}]
      /\ captured \in [Script -> SUBSET Datasets]
  BY <1>1 DEF Init, StationsInit
<1>10. commits \in Nat /\ lastCommit \in 0..now /\ raced \in BOOLEAN
  <2>1. commits = 0 /\ lastCommit = 0 /\ now = 1
    BY DEF Init, StationsInit
  <2>2. raced \in BOOLEAN
    BY DEF Init, StationsInit
  <2>3. commits \in Nat /\ lastCommit \in 0..now
    BY <2>1
  <2> QED
    BY <2>2, <2>3
<1>11. userStation \in [Code -> {NoRow} \cup [fav : BOOLEAN, at : 0..scene.time]]
  BY DEF Init, StationsInit
<1>12. /\ text \in scene.texts \cup {<<>>} /\ debounced \in scene.texts \cup {<<>>}
       /\ index = NoIndex
  BY DEF Init, StationsInit
<1> QED
  BY <1>1, <1>3, <1>4, <1>6, <1>7, <1>8, <1>9, <1>10, <1>11, <1>12 DEF Typed

\* The imports of a script.
LEMMA ImportsTyped ==
    ASSUME Typed, Busy, Registered, NEW p \in Script, Imports(p), now' = now, scene' = scene
    PROVE  /\ row' \in Rows /\ dataset' \subseteq Datasets
           /\ pc' \in [Script -> {"idle", "datasets", "stations", "write", "archive", "commit"}]
           /\ job' \in [Script -> Jobs \cup {NoJob}]
           /\ read' \in [Script -> [rows : Rows, commits : Nat, at : Nat]]
           /\ captured' \in [Script -> SUBSET Datasets]
           /\ commits' \in Nat /\ lastCommit' \in 0..now /\ raced' \in BOOLEAN
           /\ Busy' /\ Registered'
<1> USE DEF Goto, Finish
<1>0. /\ row \in Rows /\ dataset \subseteq Datasets
      /\ pc \in [Script -> {"idle", "datasets", "stations", "write", "archive", "commit"}]
      /\ job \in [Script -> Jobs \cup {NoJob}]
      /\ read \in [Script -> [rows : Rows, commits : Nat, at : Nat]]
      /\ captured \in [Script -> SUBSET Datasets]
      /\ commits \in Nat /\ lastCommit \in 0..now /\ raced \in BOOLEAN
      /\ now \in Nat
  BY SceneAssumption DEF Typed
<1>1. NoRead \in [rows : Rows, commits : Nat, at : Nat] /\ Present(NoRead.rows) = {}
      /\ NoRead.at <= now /\ NoRead.commits <= commits
  BY <1>0 DEF NoRead, Present, Rows
<1>2. ASSUME NEW j \in scene.imports, Submit(p, j) PROVE j \in Jobs
  BY <1>2, SceneAssumption DEF Typed
<1>3. CASE \E j \in scene.imports : Submit(p, j)
  <2>1. PICK j \in Jobs : Submit(p, j)
    BY <1>2, <1>3
  <2>2. UNCHANGED <<row, dataset, read, captured, commits, lastCommit, raced>>
        /\ pc' \in [Script -> {"idle", "datasets", "stations", "write", "archive", "commit"}]
        /\ job' \in [Script -> Jobs \cup {NoJob}]
    BY <1>0, <2>1 DEF Submit, history
  <2>3. Busy' /\ Registered'
    BY <1>0, <2>1, <2>2 DEF Submit, Busy, Registered
  <2> QED
    BY <1>0, <2>2, <2>3
<1>4. CASE ReadDatasets(p) \/ (ReadStations(p) /\ Finish(p)) \/ (Write(p) /\ Finish(p)) \/ Write(p)
  <2>1. UNCHANGED <<row, dataset, commits, lastCommit, raced>>
    BY <1>4 DEF ReadDatasets, ReadStations, Write, history
  <2>2. \/ Finish(p)
        \/ UNCHANGED <<job, read, captured>> /\ pc[p] # "idle"
           /\ \E l \in {"stations", "archive"} : pc' = [pc EXCEPT ![p] = l]
    BY <1>4 DEF ReadDatasets, ReadStations, Write
  <2>3. CASE Finish(p)
    <3>1. Busy' /\ Registered'
      BY <1>0, <1>1, <2>1, <2>3 DEF Busy, Registered
    <3> QED
      BY <1>0, <1>1, <2>1, <2>3, <3>1
  <2>4. CASE UNCHANGED <<job, read, captured>> /\ pc[p] # "idle"
           /\ \E l \in {"stations", "archive"} : pc' = [pc EXCEPT ![p] = l]
    <3>1. Busy' /\ Registered'
      BY <1>0, <2>1, <2>4 DEF Busy, Registered
    <3> QED
      BY <1>0, <2>1, <2>4, <3>1
  <2> QED
    BY <2>2, <2>3, <2>4
<1>5. CASE ReadStations(p)
  <2>1. CASE Finish(p)
    BY <1>4, <1>5, <2>1
  <2>2. CASE ~Finish(p)
    <3>1. /\ pc[p] = "stations" /\ pc' = [pc EXCEPT ![p] = "write"]
          /\ read' = [read EXCEPT ![p] = [rows |-> row, commits |-> commits, at |-> now]]
          /\ UNCHANGED <<row, dataset, job, captured, commits, lastCommit, raced>>
      BY <1>5, <2>2 DEF ReadStations, history
    <3>2. Busy' /\ Registered'
      BY <1>0, <3>1 DEF Busy, Registered
    <3> QED
      BY <1>0, <3>1, <3>2
  <2> QED
    BY <2>1, <2>2
<1>6. CASE Archive(p)
  <2>1. /\ pc[p] = "archive" /\ pc' = [pc EXCEPT ![p] = "commit"]
        /\ captured' = [captured EXCEPT ![p] = Current]
        /\ UNCHANGED <<row, dataset, job, read, commits, lastCommit, raced>>
    BY <1>6 DEF Archive, history
  <2>2. Current \subseteq Datasets
    BY <1>0 DEF Current
  <2>3. Busy' /\ Registered'
    BY <1>0, <2>1 DEF Busy, Registered
  <2> QED
    BY <1>0, <2>1, <2>2, <2>3
<1>7. CASE Commit(p)
  <2>1. /\ pc[p] = "commit" /\ pc' = [pc EXCEPT ![p] = "idle"]
        /\ job' = [job EXCEPT ![p] = NoJob] /\ read' = [read EXCEPT ![p] = NoRead]
        /\ captured' = [captured EXCEPT ![p] = {}]
    BY <1>7 DEF Commit
  <2>2. CASE UNCHANGED <<row, dataset, history>>
    <3>1. UNCHANGED <<row, dataset, commits, lastCommit, raced>>
      BY <2>2 DEF history
    <3>2. Busy' /\ Registered'
      BY <1>0, <1>1, <2>1, <3>1 DEF Busy, Registered
    <3> QED
      BY <1>0, <1>1, <2>1, <3>1, <3>2
  <2>3. CASE ~UNCHANGED <<row, dataset, history>>
    <3> DEFINE Archived(d) == IF d \in captured[p] THEN [d EXCEPT !.status = "ARCHIVED"] ELSE d
               new == NewDataset(job[p], read[p].at)
    <3>1. /\ VersionFree(p) /\ row' = Imported(p)
          /\ dataset' = {Archived(d) : d \in dataset} \cup {new}
          /\ commits' = commits + 1 /\ lastCommit' = now /\ raced' \in BOOLEAN
      BY <1>0, <1>7, <2>3 DEF Commit
    <3>2. job[p] \in Jobs /\ read[p].at \in Nat /\ read[p].at <= now
      BY <1>0, <2>1 DEF Busy
    <3>3. new \in Datasets /\ new.version = job[p].version /\ new.at = read[p].at
      BY <3>2, NewDatasetType DEF NewDataset
    <3>4. \A d \in Datasets : Archived(d) \in Datasets /\ Archived(d).version = d.version
                              /\ Archived(d).at = d.at
      BY DEF Datasets
    <3>5. dataset' \subseteq Datasets
      BY <1>0, <3>1, <3>3, <3>4
    <3>6. Registered'
      <4>1. \A d \in dataset' : d.at <= now
        BY <1>0, <3>1, <3>2, <3>3, <3>4 DEF Registered
      <4>2. \A d \in dataset : Archived(d).version # new.version
        BY <1>0, <3>1, <3>3, <3>4 DEF VersionFree
      <4>3. \A d, e \in dataset : Archived(d).version = Archived(e).version => Archived(d) = Archived(e)
        BY <1>0, <3>4 DEF Registered
      <4>4. \A d, e \in dataset' : d.version = e.version => d = e
        <5> HIDE DEF Archived, new
        <5> QED
          BY <3>1, <4>2, <4>3
      <4> QED
        BY <4>1, <4>4 DEF Registered
    <3>7. row' \in Rows /\ Present(row) \subseteq Present(row')
      BY <3>1, ImportedType
    <3>8. Busy'
      BY <1>0, <1>1, <2>1, <3>1, <3>7 DEF Busy
    <3> QED
      BY <1>0, <1>1, <2>1, <3>1, <3>5, <3>6, <3>7, <3>8
  <2> QED
    BY <2>2, <2>3
<1> QED
  BY <1>3, <1>4, <1>5, <1>6, <1>7 DEF Imports

LEMMA ServesShapes ==
    [Next]_vars => /\ scene' = scene
                   /\ text' = text \/ text' \in scene.texts \cup {<<>>}
                   /\ debounced' = debounced \/ debounced' = text
                   /\ now' = now \/ (now' = now + 1 /\ now < scene.time /\ UNCHANGED <<imports, history>>)
<1> SUFFICES ASSUME [Next]_vars
             PROVE  /\ scene' = scene
                    /\ text' = text \/ text' \in scene.texts \cup {<<>>}
                    /\ debounced' = debounced \/ debounced' = text
                    /\ now' = now \/ (now' = now + 1 /\ now < scene.time /\ UNCHANGED <<imports, history>>)
  OBVIOUS
<1>1. CASE Picks
  <2>1. UNCHANGED backend
    BY <1>1, PicksShapes
  <2>2. /\ text' = text \/ text' \in scene.texts \cup {<<>>}
        /\ debounced' = debounced \/ debounced' = text
    BY <1>1, UsesShapes DEF Picks, Debounce, Refocus, Deliver, Lose
  <2> QED
    BY <2>1, <2>2 DEF backend
<1>2. CASE UNCHANGED picker /\ Tick
  BY <1>2 DEF Tick, picker
<1>3. CASE UNCHANGED vars
  BY <1>3 DEF vars, server, picker
<1>4. ASSUME NEW p \in Script, Imports(p) PROVE scene' = scene /\ now' = now
  BY <1>4 DEF Imports, Submit, ReadDatasets, ReadStations, Write, Archive, Commit
<1>5. ASSUME NEW s \in Request, Serves(s) PROVE scene' = scene /\ now' = now
  BY <1>5 DEF Serves, AskElsewhere, AnswerElsewhere, ReadVersion, ReadRows, Store
<1>6. ASSUME NEW c \in Code, RecordUse(c) \/ \E fav \in BOOLEAN : SetFavourite(c, fav)
      PROVE  scene' = scene /\ now' = now
  BY <1>6 DEF RecordUse, SetFavourite
<1> QED
  BY <1>1, <1>2, <1>3, <1>4, <1>5, <1>6, StepShapes DEF picker

\* A favourite or a use keeps the type of the user's stations.
LEMMA UserStationTyped ==
    ASSUME Typed, [Next]_vars
    PROVE  userStation' \in [Code -> {NoRow} \cup [fav : BOOLEAN, at : 0..scene.time]]
<1> DEFINE U == [fav : BOOLEAN, at : 0..scene.time]
<1>1. userStation \in [Code -> {NoRow} \cup U] /\ now \in 0..scene.time /\ scene.time \in Nat
  BY SceneAssumption DEF Typed
<1>2. NewUserStation \in U
  BY <1>1 DEF NewUserStation
<1>3. ASSUME NEW c \in Code, RecordUse(c) PROVE userStation' \in [Code -> {NoRow} \cup U]
  <2>1. userStation' = [userStation EXCEPT ![c] =
                           [(IF @ = NoRow THEN NewUserStation ELSE @) EXCEPT !.at = now]]
    BY <1>3 DEF RecordUse, Upsert
  <2>2. (IF userStation[c] = NoRow THEN NewUserStation ELSE userStation[c]) \in U
    BY <1>1, <1>2
  <2>3. \A u \in U : [u EXCEPT !.at = now] \in U
    BY <1>1
  <2> HIDE DEF U
  <2> QED
    BY <1>1, <2>1, <2>2, <2>3
<1>4. ASSUME NEW c \in Code, NEW f \in BOOLEAN, SetFavourite(c, f)
      PROVE  userStation' \in [Code -> {NoRow} \cup U]
  <2>1. userStation' = [userStation EXCEPT ![c] =
                           [(IF @ = NoRow THEN NewUserStation ELSE @) EXCEPT !.fav = f]]
    BY <1>4 DEF SetFavourite, Upsert
  <2>2. (IF userStation[c] = NoRow THEN NewUserStation ELSE userStation[c]) \in U
    BY <1>1, <1>2
  <2>3. \A u \in U : [u EXCEPT !.fav = f] \in U
    OBVIOUS
  <2> HIDE DEF U
  <2> QED
    BY <1>1, <2>1, <2>2, <2>3
<1>5. \/ userStation' = userStation \/ \E c \in Code : RecordUse(c)
      \/ \E c \in Code, f \in BOOLEAN : SetFavourite(c, f)
  <2>1. ASSUME NEW p \in Script, Imports(p) PROVE userStation' = userStation
    BY <2>1 DEF Imports, Submit, ReadDatasets, ReadStations, Write, Archive, Commit
  <2>2. ASSUME NEW s \in Request, Serves(s) PROVE userStation' = userStation
    BY <2>2 DEF Serves, AskElsewhere, AnswerElsewhere, ReadVersion, ReadRows, Store
  <2>3. Picks \/ Tick \/ UNCHANGED vars => userStation' = userStation
    BY PicksShapes DEF backend, Tick, vars, server
  <2> QED
    BY <2>1, <2>2, <2>3, StepShapes
<1> QED
  BY <1>1, <1>3, <1>4, <1>5

\* A request stays one, whatever is read for it, and so does the index.
LEMMA SearchTyped ==
    ASSUME Typed, FetchInv, [Next]_vars
    PROVE  search' \in [Request -> Searches'] /\ (index' # NoIndex => index' \in Indexes)
<1>0. /\ search \in [Request -> Searches] /\ scene' = scene /\ now \in Nat
      /\ row \in Rows /\ dataset \subseteq Datasets /\ (index # NoIndex => index \in Indexes)
  BY ServesShapes, SceneAssumption DEF Typed
<1>1. Searches' = Searches /\ Texts' = Texts
  BY <1>0 DEF Searches, Texts
<1>2. Idle \in Searches /\ {} \in Listed
  BY IdleTyped
<1>3. ASSUME NEW s \in Request, NEW q \in Texts, Asked(s, q) PROVE search'[s] \in Searches
  <2>1. CASE search'[s] = [pc |-> "dataset", q |-> q, asked |-> now, version |-> NoVersion, rows |-> {}]
    BY <1>0, <1>2, <2>1 DEF Searches
  <2>2. CASE /\ index # NoIndex
             /\ search'[s] = [pc |-> "done", q |-> q, asked |-> now,
                              version |-> index.version, rows |-> index.rows]
    <3>1. index.rows \in Listed /\ index.version \in Version \cup {NoVersion}
      BY <1>0, <2>2 DEF Indexes
    <3> QED
      BY <1>0, <2>2, <3>1 DEF Searches
  <2> QED
    BY <1>3, <2>1, <2>2 DEF Asked
<1>4. ASSUME NEW s \in Request, Continued(s)
      PROVE  search'[s] \in Searches /\ (search[s].pc = "store" => index' \in Indexes)
  <2>1. search[s] \in Searches
    BY <1>0
  <2>2. ASSUME NEW d \in ActiveDatasets PROVE d.version \in Version
    BY <1>0 DEF ActiveDatasets, Current, Datasets
  <2>3. Entries(row) \in Listed
    BY <1>0 DEF Listed
  <2>4. CASE search[s].pc = "dataset"
    BY <1>4, <2>1, <2>2, <2>4 DEF Continued, Searches
  <2>5. CASE search[s].pc = "rows"
    BY <1>4, <2>1, <2>3, <2>5 DEF Continued, Searches
  <2>6. CASE search[s].pc = "store"
    BY <1>4, <2>1, <2>6 DEF Continued, Searches, Indexed, Indexes
  <2> QED
    BY <1>4, <2>4, <2>5, <2>6 DEF Continued
<1>5. CASE UNCHANGED <<search, index>>
  BY <1>0, <1>1, <1>5
<1>6. CASE \E s \in Request :
                    /\ search' = [search EXCEPT ![s] = search'[s]]
                    /\ \/ Continued(s) /\ (index' = index \/ search[s].pc = "store")
                       \/ index' = index /\ (search'[s] = Idle \/ \E q \in Texts : Asked(s, q))
  <2>1. PICK s \in Request :
                    /\ search' = [search EXCEPT ![s] = search'[s]]
                    /\ \/ Continued(s) /\ (index' = index \/ search[s].pc = "store")
                       \/ index' = index /\ (search'[s] = Idle \/ \E q \in Texts : Asked(s, q))
    BY <1>6
  <2>2. search'[s] \in Searches
    BY <1>2, <1>3, <1>4, <2>1
  <2>3. search' \in [Request -> Searches]
    BY <1>0, <2>1, <2>2
  <2> QED
    BY <1>0, <1>1, <1>4, <2>1, <2>3
<1> QED
  BY <1>5, <1>6, SearchShapes

LEMMA NextTyped ==
    ASSUME Typed, Busy, Registered, FetchInv, [Next]_vars
    PROVE  Typed' /\ Busy' /\ Registered'
<1>1. /\ scene' = scene /\ scene' \in Scene
      /\ text' \in scene'.texts \cup {<<>>} /\ debounced' \in scene'.texts \cup {<<>>}
  BY ServesShapes DEF Typed
<1>2. now' \in 1..scene'.time /\ now <= now'
  BY ServesShapes, SceneAssumption DEF Typed
<1>3. /\ userStation' \in [Code -> {NoRow} \cup [fav : BOOLEAN, at : 0..scene'.time]]
      /\ search' \in [Request -> Searches'] /\ (index' # NoIndex => index' \in Indexes)
  BY <1>1, UserStationTyped, SearchTyped
<1>4. /\ row' \in Rows /\ dataset' \subseteq Datasets
      /\ pc' \in [Script -> {"idle", "datasets", "stations", "write", "archive", "commit"}]
      /\ job' \in [Script -> Jobs \cup {NoJob}]
      /\ read' \in [Script -> [rows : Rows, commits : Nat, at : Nat]]
      /\ captured' \in [Script -> SUBSET Datasets]
      /\ commits' \in Nat /\ lastCommit' \in 0..now' /\ raced' \in BOOLEAN
      /\ Busy' /\ Registered'
  <2>1. CASE UNCHANGED <<scene, now>> /\ \E p \in Script : Imports(p)
    BY <2>1, ImportsTyped
  <2>2. CASE Still
    <3>1. /\ UNCHANGED <<row, dataset, pc, job, read, captured, commits, lastCommit, raced>>
      BY <2>2 DEF Still, imports, history
    <3>2. now \in Nat /\ now' \in Nat /\ read \in [Script -> [rows : Rows, commits : Nat, at : Nat]]
          /\ dataset \subseteq Datasets
      BY <1>2, SceneAssumption DEF Typed
    <3>3. Busy'
      BY <1>2, <3>1, <3>2 DEF Busy, Present
    <3>4. Registered'
      BY <1>2, <3>1, <3>2 DEF Registered, Datasets
    <3> QED
      BY <1>2, <3>1, <3>2, <3>3, <3>4 DEF Typed
  <2> QED
    BY <2>1, <2>2, ImportShapes
<1> QED
  BY <1>1, <1>2, <1>3, <1>4 DEF Typed

-------------------------------------------------------------------------------
(* The texts that are fetched.                                             *)

LEMMA InitFetchInv == Init => FetchInv
<1> SUFFICES ASSUME Init PROVE FetchInv
  OBVIOUS
<1>1. DOMAIN cache = scene.texts /\ \A q \in scene.texts : cache[q] = NotAsked
  BY DEF Init
<1>2. NotAsked = [data |-> NotAsked.data, at |-> NotAsked.at,
                  failed |-> NotAsked.failed, fetch |-> NotAsked.fetch]
      /\ NotAsked.fetch = NoFetch
  BY DEF NotAsked
<1> QED
  BY <1>1, <1>2 DEF FetchInv

LEMMA CacheEntry ==
    ASSUME FetchInv, NEW q \in scene.texts, NEW s, NEW failed \in BOOLEAN
    PROVE  [cache EXCEPT ![q].fetch = s, ![q].failed = failed][q]
             = [data |-> cache[q].data, at |-> cache[q].at, failed |-> failed, fetch |-> s]
<1> DEFINE d == cache[q].data
           a == cache[q].at
           b == cache[q].failed
           e == cache[q].fetch
<1>1. cache[q] = [data |-> d, at |-> a, failed |-> b, fetch |-> e] /\ q \in DOMAIN cache
  BY DEF FetchInv
<1> HIDE DEF d, a, b, e
<1>2. [cache EXCEPT ![q].fetch = s][q] = [data |-> d, at |-> a, failed |-> b, fetch |-> s]
      /\ q \in DOMAIN [cache EXCEPT ![q].fetch = s]
  BY <1>1
<1>3. [cache EXCEPT ![q].fetch = s, ![q].failed = failed][q]
        = [data |-> d, at |-> a, failed |-> failed, fetch |-> s]
  BY <1>2
<1> QED
  BY <1>3 DEF d, a

LEMMA NextFetchInv ==
    ASSUME Typed, FetchInv, [Next]_vars
    PROVE  FetchInv'
<1> DEFINE Fetched(q) == cache[q].fetch # NoFetch
<1>0. /\ search \in [Request -> Searches] /\ scene' = scene /\ scene \in Scene
      /\ debounced \in scene.texts \cup {<<>>} /\ text \in scene.texts \cup {<<>>}
  BY ServesShapes DEF Typed
<1>1. \A z \in Scene : z.texts \cap z.elsewhere = {} /\ <<>> \notin z.texts
  BY PickerAssumption
<1>2. CASE UNCHANGED <<search, cache>>
  BY <1>0, <1>2 DEF FetchInv
<1>3. ASSUME NEW s \in Request, Serves(s) PROVE cache' = cache => FetchInv'
  <2>1. CASE AnswerElsewhere(s) \/ (\E q \in scene.elsewhere : Ask(s, q))
    <3>0. search[s].pc = "idle" \/ search[s].q \in scene.elsewhere
      BY <2>1 DEF AnswerElsewhere, Ask
    <3>1. ASSUME NEW q \in scene.texts, Fetched(q), cache[q].fetch = s PROVE FALSE
      <4>1. search[s].pc # "idle" /\ search[s].q = q
        BY <3>1 DEF FetchInv
      <4> QED
        BY <1>0, <1>1, <3>0, <4>1
    <3>2. \A o \in Request \ {s} : search'[o] = search[o]
      BY <1>0, <2>1 DEF AnswerElsewhere, Ask
    <3> QED
      BY <1>0, <3>1, <3>2 DEF FetchInv
  <2>2. CASE ReadVersion(s) \/ ReadRows(s) \/ Store(s)
    <3>1. \A o \in Request : search[o].pc # "idle" =>
              search'[o].pc # "idle" /\ search'[o].q = search[o].q
      BY <1>0, <2>2 DEF ReadVersion, ReadRows, Store, Searches
    <3> QED
      BY <1>0, <3>1 DEF FetchInv
  <2> QED
    BY <1>3, <2>1, <2>2 DEF Serves, AskElsewhere
<1>4. ASSUME NEW q \in scene.texts, Search(q) PROVE FetchInv'
  <2>1. PICK s \in Request :
          Ask(s, q) /\ cache' = [cache EXCEPT ![q].fetch = s, ![q].failed = FALSE]
    BY <1>4 DEF Search
  <2>2. search[s].pc = "idle" /\ search'[s].pc # "idle" /\ search'[s].q = q
        /\ \A o \in Request \ {s} : search'[o] = search[o]
    <3>1. q \in Texts
      BY DEF Texts
    <3>2. Asked(s, q) /\ search' = [search EXCEPT ![s] = search'[s]]
      BY <2>1, <3>1, AskShapes
    <3> QED
      BY <1>0, <3>2 DEF Asked
  <2>3. DOMAIN cache' = scene.texts /\ \A r \in scene.texts \ {q} : cache'[r] = cache[r]
    BY <2>1 DEF FetchInv
  <2>4. cache'[q] = [data |-> cache[q].data, at |-> cache[q].at, failed |-> FALSE, fetch |-> s]
    BY <2>1, CacheEntry
  <2> HIDE <1>4
  <2> QED
    BY <1>0, <2>2, <2>3, <2>4, PickerAssumption DEF FetchInv
<1>5. ASSUME NEW q \in scene.texts, Deliver(q) \/ Lose(q) PROVE FetchInv'
  <2> DEFINE s == cache[q].fetch
  <2>1. s \in Request /\ search' = [search EXCEPT ![s] = Idle] /\ s # NoFetch
    BY <1>5 DEF Deliver, Lose, FetchInv
  <2>2. DOMAIN cache' = scene.texts /\ \A r \in scene.texts \ {q} : cache'[r] = cache[r]
    BY <1>5 DEF Deliver, Lose, FetchInv
  <2>3. /\ cache'[q] = [data |-> cache'[q].data, at |-> cache'[q].at,
                        failed |-> cache'[q].failed, fetch |-> cache'[q].fetch]
        /\ cache'[q].fetch = NoFetch
    <3>1. CASE Deliver(q)
      <4>1. cache'[q] = [NotAsked EXCEPT !.data = CodesOf(Answered(s)), !.at = now]
        BY <3>1 DEF Deliver, FetchInv
      <4>2. cache'[q] = [data |-> CodesOf(Answered(s)), at |-> now, failed |-> FALSE, fetch |-> NoFetch]
        BY <4>1 DEF NotAsked
      <4> QED
        BY <4>2
    <3>2. CASE Lose(q)
      <4>1. cache' = [cache EXCEPT ![q].fetch = NoFetch, ![q].failed = TRUE]
        BY <3>2 DEF Lose
      <4>2. cache'[q] = [data |-> cache[q].data, at |-> cache[q].at, failed |-> TRUE, fetch |-> NoFetch]
        BY <4>1, CacheEntry
      <4> QED
        BY <4>2
    <3> QED
      BY <1>5, <3>1, <3>2
  <2>4. \A r \in scene.texts \ {q} : cache[r].fetch # NoFetch => cache[r].fetch # s
    BY <2>1 DEF FetchInv
  <2>5. \A o \in Request \ {s} : search'[o] = search[o]
    BY <1>0, <2>1
  <2> HIDE DEF s
  <2> QED
    BY <1>0, <2>2, <2>3, <2>4, <2>5 DEF FetchInv
<1>6. CASE Picks
  <2>1. Search(text) => text \in scene.texts
    BY <1>0 DEF Search, Stale
  <2>2. CASE Debounce
    BY <1>2, <1>4, <2>1, <2>2 DEF Debounce, Observe
  <2>3. CASE Refocus
    BY <1>0, <1>4, <2>3 DEF Refocus
  <2>4. CASE Uses
    BY <1>2, <2>4, UsesShapes
  <2> QED
    BY <1>5, <1>6, <2>2, <2>3, <2>4 DEF Picks
<1>7. ASSUME NEW p \in Script, Imports(p) PROVE search' = search
  BY <1>7 DEF Imports, Submit, ReadDatasets, ReadStations, Write, Archive, Commit
<1>8. ASSUME NEW c \in Code, RecordUse(c) \/ \E fav \in BOOLEAN : SetFavourite(c, fav)
      PROVE  search' = search
  BY <1>8 DEF RecordUse, SetFavourite
<1>9. Tick \/ UNCHANGED vars => search' = search
  BY DEF Tick, vars, server
<1>10. UNCHANGED picker \/ UNCHANGED vars => cache' = cache
  BY DEF picker, vars
<1> QED
  BY <1>2, <1>3, <1>6, <1>7, <1>8, <1>9, <1>10, StepShapes

-------------------------------------------------------------------------------
(* The imports.                                                            *)

LEMMA StationIsRow ==
    ASSUME NEW x \in Content
    PROVE  Station(x) # NoRow /\ Station(x).active /\ Station(x).content = x
<1>1. Station(x) \in [content : Content, active : BOOLEAN]
  BY DEF Station
<1>2. Station(x) # NoRow
  BY <1>1, StationsAssumption
<1> QED
  BY <1>2 DEF Station

LEMMA InitImportInv == Init => Unovertaken /\ LetThrough /\ Apart /\ Captured
                               /\ TwoActiveOnlyIfDisjoint /\ StationsMatchDataset
<1> SUFFICES ASSUME Init
             PROVE  Unovertaken /\ LetThrough /\ Apart /\ Captured
                    /\ TwoActiveOnlyIfDisjoint /\ StationsMatchDataset
  OBVIOUS
<1> DEFINE i == scene.installed
           new == NewDataset(i, 0)
<1>1. \A p \in Script : pc[p] = "idle"
  BY DEF Init, StationsInit
<1>2. Unovertaken /\ LetThrough /\ Apart /\ Captured
  BY <1>1 DEF Unovertaken, LetThrough, Apart, Captured, Writing, Open
<1>3. CASE i = NoJob
  <2>1. dataset = {} /\ Current = {}
    BY <1>3 DEF Init, StationsInit, Current
  <2> QED
    BY <1>2, <2>1, FS_EmptySet DEF TwoActiveOnlyIfDisjoint, StationsMatchDataset
<1>4. CASE i # NoJob
  <2>1. i \in Jobs
    BY <1>4, SceneAssumption DEF Init, StationsInit
  <2>2. dataset = {new}
    BY <1>4 DEF Init, StationsInit
  <2>3. Current = {new} /\ new.records = Records(i.input)
    BY <2>2 DEF Current, NewDataset
  <2>4. Cardinality(Current) = 1
    BY <2>3, FS_Singleton
  <2>5. Codes(i.input) \subseteq Code /\ Records(i.input) \in [Codes(i.input) -> Content]
    BY <2>1, InputType
  <2>6. row = [c \in Code |-> IF c \in Codes(i.input) THEN Station(Records(i.input)[c]) ELSE NoRow]
    BY DEF Init, StationsInit
  <2>7. \A c \in Codes(i.input) : row[c] # NoRow /\ row[c].active /\ row[c].content = Records(i.input)[c]
    <3> HIDE DEF i
    <3>1. \A c \in Codes(i.input) : row[c] = Station(Records(i.input)[c]) /\ Records(i.input)[c] \in Content
      BY <2>5, <2>6
    <3> QED
      BY <3>1, StationIsRow
  <2>8. Active(row) = Codes(i.input)
    BY <2>5, <2>6, <2>7 DEF Active, Present
  <2>9. StationsMatchDataset
    <3> HIDE DEF i, new
    <3> QED
      BY <2>2, <2>3, <2>4, <2>5, <2>7, <2>8 DEF StationsMatchDataset
  <2>10. TwoActiveOnlyIfDisjoint
    BY <2>3 DEF TwoActiveOnlyIfDisjoint
  <2> QED
    BY <1>2, <2>9, <2>10
<1> QED
  BY <1>3, <1>4

\* What a script writes is what its job and what it has read say.
LEMMA SameWrites ==
    ASSUME NEW o \in Script, job'[o] = job[o], read'[o] = read[o]
    PROVE  /\ Writes(o)' = Writes(o)
           /\ MassRemoval(o, read[o].rows)' = MassRemoval(o, read[o].rows)
  BY DEF Writes, MassRemoval, ToDeactivate, Active, Present

\* As long as no import commits, what holds of a script and of pairs of scripts goes on.
LEMMA NoCommit ==
    ASSUME NEW p \in Script, ImportInv, UNCHANGED <<row, dataset, history>>,
           \A o \in Script \ {p} : pc'[o] = pc[o] /\ job'[o] = job[o] /\ read'[o] = read[o]
                                   /\ captured'[o] = captured[o],
           Writing(p)' => (read'[p].commits = commits => read'[p].rows = row)
                          /\ (~job'[p].force => ~MassRemoval(p, read[p].rows)'),
           pc'[p] = "commit" => captured'[p] = Current,
           Open(p)' => /\ job'[p] = job[p] /\ read'[p] = read[p] /\ (Open(p) \/ ~Waits(p))
    PROVE  Unovertaken' /\ LetThrough' /\ Apart' /\ Captured'
           /\ TwoActiveOnlyIfDisjoint' /\ StationsMatchDataset'
<1>1. Current' = Current /\ commits' = commits /\ row' = row /\ dataset' = dataset /\ raced' = raced
  BY DEF Current, history
<1>2. Active(row)' = Active(row)
  BY <1>1 DEF Active, Present
<1>3. TwoActiveOnlyIfDisjoint' /\ StationsMatchDataset'
  BY <1>1, <1>2 DEF ImportInv, TwoActiveOnlyIfDisjoint, StationsMatchDataset
<1>4. Unovertaken'
  BY <1>1 DEF ImportInv, Unovertaken, Writing
<1>5. LetThrough'
  BY SameWrites DEF ImportInv, LetThrough, Writing
<1>6. Captured'
  <2> SUFFICES ASSUME NEW o \in Script, pc'[o] = "commit", NEW d \in Current \ captured'[o]
               PROVE  DOMAIN d.records \cap Codes(job'[o].input) = {}
    BY <1>1 DEF Captured
  <2> QED
    BY <1>1 DEF ImportInv, Captured
<1>7. Apart'
  <2>1. \A o \in Script \ {p} : Writes(o)' = Writes(o) /\ (Open(o)' <=> Open(o))
    BY SameWrites DEF Open
  <2>2. ASSUME Open(p)', NEW o \in Script \ {p}, Open(o)
        PROVE  Writes(p)' \cap Writes(o)' = {} /\ Writes(o)' \cap Writes(p)' = {}
    <3>1. Writes(p)' = Writes(p) /\ Writes(o)' = Writes(o)
      BY <2>1, <2>2, SameWrites
    <3>2. Writes(p) \cap Writes(o) = {}
      BY <2>2 DEF ImportInv, Apart, Waits, Open
    <3> QED
      BY <3>1, <3>2
  <2>3. ASSUME NEW a \in Script \ {p}, NEW o \in Script \ {p}, a # o, Open(a), Open(o)
        PROVE  Writes(a)' \cap Writes(o)' = {}
    BY <2>1, <2>3 DEF ImportInv, Apart
  <2> QED
    BY <2>1, <2>2, <2>3 DEF Apart
<1> QED
  BY <1>3, <1>4, <1>5, <1>6, <1>7

\* A dataset that is ACTIVE after a commit is the new one, or was ACTIVE and not archived.
LEMMA CommitShapes ==
    ASSUME Typed, Busy, NEW p \in Script, Commit(p), ~UNCHANGED <<row, dataset, history>>
    PROVE  LET new == NewDataset(job[p], read[p].at)
           IN /\ pc[p] = "commit" /\ VersionFree(p) /\ job[p] \in Jobs
              /\ row' = Imported(p) /\ commits' = commits + 1 /\ lastCommit' = now
              /\ raced' = (raced \/ read[p].commits # commits)
              /\ new.records = Records(job[p].input) /\ DOMAIN new.records = Codes(job[p].input)
              /\ new.version = job[p].version
              /\ new \in Current' /\ Current' \subseteq (Current \ captured[p]) \cup {new}
<1> DEFINE new == NewDataset(job[p], read[p].at)
           Archived(d) == IF d \in captured[p] THEN [d EXCEPT !.status = "ARCHIVED"] ELSE d
<1>1. /\ pc[p] = "commit" /\ VersionFree(p) /\ row' = Imported(p)
      /\ dataset' = {Archived(d) : d \in dataset} \cup {new}
      /\ commits' = commits + 1 /\ lastCommit' = now
      /\ raced' = (raced \/ read[p].commits # commits)
  BY DEF Commit
<1>2. job[p] \in Jobs /\ read[p].at \in Nat /\ dataset \subseteq Datasets
  BY <1>1 DEF Typed, Busy
<1>3. /\ DOMAIN new.records = Codes(job[p].input)
      /\ new.records = Records(job[p].input) /\ new.status = "ACTIVE" /\ new.version = job[p].version
  BY <1>2, NewDatasetType DEF NewDataset
<1>4. new \in Current'
  BY <1>1, <1>3 DEF Current
<1>5. \A d \in dataset : Archived(d).status = "ACTIVE" => Archived(d) = d /\ d \notin captured[p]
  BY <1>2 DEF Datasets
<1>6. Current' \subseteq (Current \ captured[p]) \cup {new}
  <2> HIDE DEF new, Archived
  <2> QED
    BY <1>1, <1>5 DEF Current
<1> QED
  BY <1>1, <1>2, <1>3, <1>4, <1>6

\* An import that nothing has overtaken makes the stations those of its dataset.
LEMMA ImportedMatches ==
    ASSUME Typed, Busy, NEW p \in Script, read[p].rows = row
    PROVE  LET records == Records(job[p].input)
           IN /\ Active(Imported(p)) = Codes(job[p].input)
              /\ \A c \in Codes(job[p].input) : Imported(p)[c].content = records[c]
<1> DEFINE records == Records(job[p].input)
<1>1. /\ Codes(job[p].input) \subseteq Code /\ row \in Rows
      /\ \A c \in Codes(job[p].input) : records[c] \in Content
  BY InputType DEF Typed
<1>2. ASSUME NEW c \in Codes(job[p].input)
      PROVE  Imported(p)[c] # NoRow /\ Imported(p)[c].active /\ Imported(p)[c].content = records[c]
  <2>1. CASE c \in ToCreate(p) \cup ToUpdate(p)
    <3>1. Imported(p)[c] = Station(records[c])
      BY <1>1, <2>1 DEF Imported
    <3> QED
      BY <1>1, <3>1, StationIsRow
  <2>2. CASE c \notin ToCreate(p) \cup ToUpdate(p)
    <3>1. row[c] # NoRow /\ row[c].active /\ row[c].content = records[c]
      BY <1>1, <2>2 DEF ToCreate, ToUpdate, Present
    <3>2. Imported(p)[c] = row[c]
      BY <1>1, <2>2 DEF Imported, ToDeactivate
    <3> QED
      BY <3>1, <3>2
  <2> QED
    BY <2>1, <2>2
<1>3. ASSUME NEW c \in Code \ Codes(job[p].input), Imported(p)[c] # NoRow
      PROVE  ~Imported(p)[c].active
  <2>1. c \notin ToCreate(p) \cup ToUpdate(p)
    BY DEF ToCreate, ToUpdate
  <2>2. CASE c \in Active(row)
    <3>1. Imported(p)[c] = [row[c] EXCEPT !.active = FALSE]
      BY <2>1, <2>2 DEF Imported, ToDeactivate
    <3>2. row[c] \in [content : Content, active : BOOLEAN]
      BY <1>1, <2>2 DEF Rows, Active, Present
    <3> QED
      BY <3>1, <3>2
  <2>3. CASE c \notin Active(row)
    BY <1>3, <2>1, <2>3 DEF Imported, ToDeactivate, Active, Present
  <2> QED
    BY <2>2, <2>3
<1> QED
  BY <1>1, <1>2, <1>3 DEF Active, Present

LEMMA NextImportInv ==
    ASSUME Typed, ImportInv, [Next]_vars
    PROVE  Unovertaken' /\ LetThrough' /\ Apart' /\ Captured'
           /\ TwoActiveOnlyIfDisjoint' /\ StationsMatchDataset'
<1> DEFINE Kept == Unovertaken' /\ LetThrough' /\ Apart' /\ Captured'
                   /\ TwoActiveOnlyIfDisjoint' /\ StationsMatchDataset'
<1>0. /\ pc \in [Script -> {"idle", "datasets", "stations", "write", "archive", "commit"}]
      /\ job \in [Script -> Jobs \cup {NoJob}]
      /\ read \in [Script -> [rows : Rows, commits : Nat, at : Nat]]
      /\ captured \in [Script -> SUBSET Datasets] /\ commits \in Nat
      /\ Busy
  BY DEF Typed, ImportInv
<1>1. CASE Still
  <2>1. /\ UNCHANGED <<row, dataset, pc, job, read, captured, commits, raced>>
    BY <1>1 DEF Still, imports, history
  <2>2. Unovertaken' /\ LetThrough' /\ Apart' /\ Captured'
    BY <2>1 DEF ImportInv, Unovertaken, LetThrough, Apart, Captured, Writing, Open, Writes,
                Current, MassRemoval, ToDeactivate, Active, Present
  <2>3. TwoActiveOnlyIfDisjoint' /\ StationsMatchDataset'
    BY <2>1 DEF ImportInv, TwoActiveOnlyIfDisjoint, StationsMatchDataset, Current, Active, Present
  <2> QED
    BY <2>2, <2>3
<1>2. ASSUME NEW p \in Script, Imports(p) PROVE Kept
  <2> DEFINE Others == \A o \in Script \ {p} :
                          pc'[o] = pc[o] /\ job'[o] = job[o] /\ read'[o] = read[o]
                          /\ captured'[o] = captured[o]
  <2>1. ASSUME UNCHANGED <<row, dataset, history>>, Others,
               pc'[p] \in {"idle", "datasets", "stations"}
        PROVE  Kept
    <3>1. ~Writing(p)' /\ ~Open(p)' /\ pc'[p] # "commit"
      BY <2>1 DEF Writing, Open
    <3> QED
      BY <2>1, <3>1, NoCommit
  <2>2. ASSUME NEW j \in scene.imports, Submit(p, j) PROVE Kept
    <3>1. pc'[p] = "datasets" /\ Others /\ UNCHANGED <<row, dataset, history>>
      BY <1>0, <2>2 DEF Submit, Goto
    <3> QED
      BY <2>1, <3>1
  <2>3. ASSUME Finish(p), UNCHANGED <<row, dataset, history>> PROVE Kept
    <3>1. pc'[p] = "idle" /\ Others
      BY <1>0, <2>3 DEF Finish, Goto
    <3> QED
      BY <2>1, <2>3, <3>1
  <2>4. CASE ReadDatasets(p)
    <3>1. CASE Finish(p)
      BY <2>3, <2>4, <3>1 DEF ReadDatasets
    <3>2. CASE ~Finish(p)
      <4>1. pc'[p] = "stations" /\ Others /\ UNCHANGED <<row, dataset, history>>
        BY <1>0, <2>4, <3>2 DEF ReadDatasets, Goto
      <4> QED
        BY <2>1, <4>1
    <3> QED
      BY <3>1, <3>2
  <2>5. CASE ReadStations(p)
    <3>1. CASE Finish(p)
      BY <2>3, <2>5, <3>1 DEF ReadStations
    <3>2. CASE ~Finish(p)
      <4>1. /\ pc' = [pc EXCEPT ![p] = "write"] /\ UNCHANGED <<row, dataset, history, job, captured>>
            /\ read' = [read EXCEPT ![p] = [rows |-> row, commits |-> commits, at |-> now]]
            /\ ~(MassRemoval(p, row) /\ ~job[p].force)
        BY <2>5, <3>2 DEF ReadStations, Goto
      <4>2. Others /\ pc'[p] = "write" /\ read'[p].rows = row
        BY <1>0, <4>1
      <4>3. MassRemoval(p, read[p].rows)' <=> MassRemoval(p, row)
        BY <4>1, <4>2 DEF MassRemoval, ToDeactivate, Active, Present
      <4> QED
        BY <4>1, <4>2, <4>3, NoCommit DEF Writing, Open
    <3> QED
      BY <3>1, <3>2
  <2>6. CASE Write(p)
    <3>1. CASE Finish(p)
      BY <2>3, <2>6, <3>1 DEF Write
    <3>2. CASE ~Finish(p)
      <4>1. /\ pc' = [pc EXCEPT ![p] = "archive"] /\ ~Waits(p) /\ pc[p] = "write"
            /\ UNCHANGED <<row, dataset, history, job, read, captured>>
        BY <2>6, <3>2 DEF Write, Goto
      <4>2. Others /\ pc'[p] = "archive"
        BY <1>0, <4>1
      <4>3. /\ read'[p].commits = commits => read'[p].rows = row
            /\ (~job'[p].force => ~MassRemoval(p, read[p].rows)')
        BY <4>1, SameWrites DEF ImportInv, Unovertaken, LetThrough, Writing
      <4> QED
        BY <4>1, <4>2, <4>3, NoCommit
    <3> QED
      BY <3>1, <3>2
  <2>7. CASE Archive(p)
    <3>1. /\ pc' = [pc EXCEPT ![p] = "commit"] /\ pc[p] = "archive"
          /\ captured' = [captured EXCEPT ![p] = Current]
          /\ UNCHANGED <<row, dataset, history, job, read>>
      BY <2>7 DEF Archive, Goto
    <3>2. Others /\ pc'[p] = "commit" /\ captured'[p] = Current /\ Open(p)
      BY <1>0, <3>1 DEF Open
    <3>3. /\ read'[p].commits = commits => read'[p].rows = row
          /\ (~job'[p].force => ~MassRemoval(p, read[p].rows)')
      BY <3>1, SameWrites DEF ImportInv, Unovertaken, LetThrough, Writing
    <3> QED
      BY <3>1, <3>2, <3>3, NoCommit
  <2>8. CASE Commit(p)
    <3>1. CASE UNCHANGED <<row, dataset, history>>
      BY <2>3, <2>8, <3>1 DEF Commit
    <3>2. CASE ~UNCHANGED <<row, dataset, history>>
      <4> DEFINE new == NewDataset(job[p], read[p].at)
      <4>1. /\ pc[p] = "commit" /\ VersionFree(p) /\ job[p] \in Jobs
            /\ row' = Imported(p) /\ commits' = commits + 1
            /\ raced' = (raced \/ read[p].commits # commits)
            /\ new.records = Records(job[p].input) /\ DOMAIN new.records = Codes(job[p].input)
            /\ new \in Current' /\ Current' \subseteq (Current \ captured[p]) \cup {new}
        BY <1>0, <2>8, <3>2, CommitShapes
      <4>2. Others /\ pc'[p] = "idle"
        BY <1>0, <2>8 DEF Commit, Finish, Goto
      <4> HIDE DEF new
      <4>3. \A o \in Script \ {p} : Writes(o)' = Writes(o)
               /\ MassRemoval(o, read[o].rows)' = MassRemoval(o, read[o].rows)
        BY <4>2, SameWrites
      <4>4. Unovertaken'
        <5>1. \A o \in Script \ {p} : read'[o].commits # commits'
          BY <1>0, <4>1, <4>2 DEF Busy
        <5> QED
          BY <4>2, <5>1 DEF Unovertaken, Writing
      <4>5. LetThrough'
        BY <4>2, <4>3 DEF ImportInv, LetThrough, Writing
      <4>6. Apart'
        BY <4>2, <4>3 DEF ImportInv, Apart, Open
      <4>7. Captured'
        <5> SUFFICES ASSUME NEW o \in Script, pc'[o] = "commit", NEW d \in Current' \ captured'[o]
                     PROVE  DOMAIN d.records \cap Codes(job'[o].input) = {}
          BY DEF Captured
        <5>1. o # p /\ pc[o] = "commit" /\ job'[o] = job[o] /\ captured'[o] = captured[o]
          BY <4>2
        <5>2. CASE d = new
          <6>1. Writes(p) \cap Writes(o) = {}
            BY <4>1, <5>1 DEF ImportInv, Apart, Open
          <6> QED
            BY <4>1, <5>1, <5>2, <6>1 DEF Writes
        <5>3. CASE d # new
          BY <4>1, <5>1, <5>3 DEF ImportInv, Captured
        <5> QED
          BY <5>2, <5>3
      <4>8. TwoActiveOnlyIfDisjoint'
        <5>1. \A d \in Current \ captured[p] : DOMAIN d.records \cap DOMAIN new.records = {}
          BY <4>1 DEF ImportInv, Captured
        <5> QED
          BY <4>1, <5>1 DEF ImportInv, TwoActiveOnlyIfDisjoint
      <4>9. StationsMatchDataset'
        <5>1. CASE read[p].commits # commits
          BY <4>1, <5>1 DEF StationsMatchDataset
        <5>2. CASE read[p].commits = commits
          <6>1. read[p].rows = row /\ captured[p] = Current
            BY <4>1, <5>2 DEF ImportInv, Unovertaken, Writing
          <6>2. Current' = {new}
            BY <4>1, <6>1
          <6>3. Cardinality(Current') = 1 /\ dataset' # {}
            BY <6>2, FS_Singleton DEF Current
          <6>4. /\ Active(row)' = Codes(job[p].input)
                /\ \A c \in Codes(job[p].input) : row'[c].content = Records(job[p].input)[c]
            <7>1. Active(row)' = Active(row')
              BY DEF Active, Present
            <7> QED
              BY <1>0, <4>1, <6>1, <7>1, ImportedMatches
          <6> QED
            BY <4>1, <6>2, <6>3, <6>4 DEF StationsMatchDataset
        <5> QED
          BY <5>1, <5>2
      <4> QED
        BY <4>4, <4>5, <4>6, <4>7, <4>8, <4>9
    <3> QED
      BY <3>1, <3>2
  <2> QED
    BY <1>2, <2>2, <2>4, <2>5, <2>6, <2>7, <2>8 DEF Imports
<1> QED
  BY <1>1, <1>2, ImportShapes

-------------------------------------------------------------------------------
(* The index and the searches.                                             *)

\* What is known of one request, and of the index.
RequestFresh(s) ==
    /\ search[s].asked <= now
    /\ search[s].pc = "dataset" => search[s].version = NoVersion
    /\ search[s].pc \in {"rows", "store"} => UpToDate(search[s].asked, search[s].version)
    /\ search[s].pc = "store" => UpToDateRows(search[s].asked, search[s].rows)
    /\ search[s].pc = "done" =>
          /\ UpToDate(search[s].asked - IndexTTL + 1, search[s].version)
          /\ UpToDateRows(search[s].asked - IndexTTL + 1, search[s].rows)

IndexFresh ==
    index # NoIndex => /\ index.at <= now
                       /\ UpToDate(index.at, index.version) /\ UpToDateRows(index.at, index.rows)

LEMMA SearchInvParts ==
    /\ SearchInv <=> (IndexFresh /\ \A s \in Request : RequestFresh(s))
    /\ SearchInv' <=> (IndexFresh' /\ \A s \in Request : RequestFresh(s)')
  BY DEF SearchInv, IndexFresh, RequestFresh

LEMMA InitSearchInv == Init => SearchInv
  BY DEF Init, StationsInit, SearchInv, Idle

\* Nothing is known after a commit.
LEMMA CommitForgets ==
    ASSUME Typed, SearchInv, UNCHANGED <<search, index, now>>, lastCommit' = now
    PROVE  SearchInv'
<1>1. /\ IndexTTL \in Nat \ {0} /\ now \in Nat
      /\ \A s \in Request : search[s].asked \in Nat
      /\ (index # NoIndex => index.at \in Nat)
  BY StationsAssumption, SceneAssumption DEF Typed, Searches, Indexes
<1>2. \A at \in Int : \A version, rows :
          at <= now => UpToDate(at, version)' /\ UpToDateRows(at, rows)'
  BY <1>1 DEF UpToDate, UpToDateRows
<1> QED
  BY <1>1, <1>2 DEF SearchInv

LEMMA NextSearchInv ==
    ASSUME Typed, Busy, FetchInv, SearchInv, [Next]_vars
    PROVE  SearchInv'
<1>0. /\ IndexTTL \in Nat \ {0} /\ now \in Nat /\ lastCommit \in Nat
      /\ search \in [Request -> Searches] /\ (index # NoIndex => index \in Indexes)
      /\ \A s \in Request : search[s].asked \in Nat
  BY StationsAssumption, SceneAssumption DEF Typed, Searches
<1>1. now' \in {now, now + 1}
  BY ImportShapes
<1>2. CASE \E p \in Script : Commit(p) /\ ~UNCHANGED <<row, dataset, history>>
  <2>1. lastCommit' = now /\ UNCHANGED <<search, index, now>>
    BY <1>0, <1>2, CommitShapes DEF Commit
  <2> QED
    BY <2>1, CommitForgets
<1>3. CASE UNCHANGED <<row, dataset, lastCommit>>
  <2>1. /\ Entries(row)' = Entries(row) /\ CurrentVersions' = CurrentVersions
        /\ ActiveDatasets' = ActiveDatasets /\ Current' = Current
    BY <1>3 DEF Entries, Active, Present, CurrentVersions, ActiveDatasets, Current
  <2>2. /\ \A at, version : UpToDate(at, version)' <=> UpToDate(at, version)
        /\ \A at, rows : UpToDateRows(at, rows)' <=> UpToDateRows(at, rows)
    BY <1>3, <2>1 DEF UpToDate, UpToDateRows
  <2>3. ASSUME NEW s \in Request, search'[s] = search[s] PROVE RequestFresh(s)'
    <3>1. RequestFresh(s)
      BY SearchInvParts
    <3> QED
      BY <1>0, <1>1, <2>2, <2>3, <3>1 DEF RequestFresh
  <2>4. ASSUME index' = index PROVE IndexFresh'
    <3>1. IndexFresh
      BY SearchInvParts
    <3> QED
      BY <1>0, <1>1, <2>2, <2>4, <3>1 DEF IndexFresh, Indexes
  <2>5. CASE UNCHANGED <<search, index>>
    BY <2>3, <2>4, <2>5, SearchInvParts
  <2>6. ASSUME NEW s \in Request, NEW q \in Texts, Asked(s, q), now' = now PROVE RequestFresh(s)'
    <3>1. CASE /\ index # NoIndex /\ now - index.at < IndexTTL
               /\ search'[s] = [pc |-> "done", q |-> q, asked |-> now,
                                version |-> index.version, rows |-> index.rows]
      <4>1. /\ index.at \in Nat /\ now - IndexTTL + 1 <= index.at
            /\ UpToDate(index.at, index.version) /\ UpToDateRows(index.at, index.rows)
        BY <1>0, <3>1 DEF SearchInv, Indexes
      <4>2. UpToDate(now - IndexTTL + 1, index.version) /\ UpToDateRows(now - IndexTTL + 1, index.rows)
        BY <1>0, <4>1 DEF UpToDate, UpToDateRows
      <4> QED
        BY <1>0, <2>2, <2>6, <3>1, <4>2 DEF RequestFresh
    <3>2. CASE search'[s] = [pc |-> "dataset", q |-> q, asked |-> now, version |-> NoVersion, rows |-> {}]
      BY <1>0, <2>6, <3>2 DEF RequestFresh
    <3> QED
      BY <2>6, <3>1, <3>2 DEF Asked
  <2>7. ASSUME NEW s \in Request, Continued(s), now' = now PROVE RequestFresh(s)'
    <3>1. search[s] \in Searches /\ search[s].asked <= now
      BY <1>0 DEF SearchInv
    <3>2. CASE search[s].pc = "dataset"
      <4>1. search[s].version = NoVersion
        BY <3>2 DEF SearchInv
      <4>2. /\ search'[s].asked = search[s].asked /\ search'[s].pc = "rows"
            /\ search'[s].version \in CurrentVersions
        <5>1. CASE Current = {} /\ search'[s] = [search[s] EXCEPT !.pc = "rows"]
          BY <3>1, <4>1, <5>1 DEF Searches, CurrentVersions
        <5>2. ASSUME NEW d \in ActiveDatasets,
                     search'[s] = [search[s] EXCEPT !.pc = "rows", !.version = d.version]
              PROVE  /\ search'[s].asked = search[s].asked /\ search'[s].pc = "rows"
                     /\ search'[s].version = d.version
          BY <3>1, <5>2 DEF Searches
        <5>3. \A d \in ActiveDatasets : d.version \in CurrentVersions
          BY DEF CurrentVersions
        <5> QED
          BY <2>7, <3>2, <5>1, <5>2, <5>3 DEF Continued
      <4>3. UpToDate(search[s].asked, search'[s].version)
        BY <4>2 DEF UpToDate
      <4> QED
        BY <2>2, <2>7, <3>1, <4>2, <4>3 DEF RequestFresh
    <3>3. CASE search[s].pc = "rows"
      <4>1. UpToDate(search[s].asked, search[s].version)
        BY <3>3 DEF SearchInv
      <4>2. /\ search'[s].asked = search[s].asked /\ search'[s].pc = "store"
            /\ search'[s].version = search[s].version /\ search'[s].rows = Entries(row)
        BY <2>7, <3>1, <3>3 DEF Continued, Searches
      <4>3. UpToDateRows(search[s].asked, search'[s].rows)
        BY <4>2 DEF UpToDateRows
      <4> QED
        BY <2>2, <2>7, <3>1, <4>1, <4>2, <4>3 DEF RequestFresh
    <3>4. CASE search[s].pc = "store"
      <4>1. UpToDate(search[s].asked, search[s].version) /\ UpToDateRows(search[s].asked, search[s].rows)
        BY <3>4 DEF SearchInv
      <4>2. /\ search'[s].asked = search[s].asked /\ search'[s].pc = "done"
            /\ search'[s].version = search[s].version /\ search'[s].rows = search[s].rows
        BY <2>7, <3>1, <3>4 DEF Continued, Searches
      <4>3. UpToDate(search[s].asked - IndexTTL + 1, search[s].version)
            /\ UpToDateRows(search[s].asked - IndexTTL + 1, search[s].rows)
        BY <1>0, <4>1 DEF UpToDate, UpToDateRows
      <4> QED
        BY <2>2, <2>7, <3>1, <4>2, <4>3 DEF RequestFresh
    <3> QED
      BY <2>7, <3>2, <3>3, <3>4 DEF Continued
  <2>8. ASSUME NEW s \in Request, Continued(s), search[s].pc = "store", now' = now PROVE IndexFresh'
    <3>1. /\ UpToDate(search[s].asked, search[s].version) /\ UpToDateRows(search[s].asked, search[s].rows)
          /\ search[s].asked <= now
      BY <2>8 DEF SearchInv
    <3>2. index' = [at |-> search[s].asked, version |-> search[s].version, rows |-> search[s].rows]
      BY <2>8 DEF Continued, Indexed
    <3> QED
      BY <2>2, <2>8, <3>1, <3>2 DEF IndexFresh
  <2>9. ASSUME NEW s \in Request, search'[s] = Idle, now' = now PROVE RequestFresh(s)'
    BY <1>0, <2>9 DEF RequestFresh, Idle
  <2>10. CASE /\ now' = now
              /\ \E s \in Request :
                    /\ search' = [search EXCEPT ![s] = search'[s]]
                    /\ \/ Continued(s) /\ (index' = index \/ search[s].pc = "store")
                       \/ index' = index /\ (search'[s] = Idle \/ \E q \in Texts : Asked(s, q))
    <3>1. PICK s \in Request :
                    /\ search' = [search EXCEPT ![s] = search'[s]]
                    /\ \/ Continued(s) /\ (index' = index \/ search[s].pc = "store")
                       \/ index' = index /\ (search'[s] = Idle \/ \E q \in Texts : Asked(s, q))
      BY <2>10
    <3>2. RequestFresh(s)' /\ IndexFresh'
      BY <2>4, <2>6, <2>7, <2>8, <2>9, <2>10, <3>1
    <3>3. \A o \in Request \ {s} : search'[o] = search[o]
      BY <3>1, <1>0
    <3>4. \A o \in Request : RequestFresh(o)'
      BY <2>3, <3>2, <3>3
    <3> QED
      BY <3>2, <3>4, SearchInvParts
  <2> QED
    BY <2>5, <2>10, SearchShapes
<1>4. \/ UNCHANGED <<row, dataset, lastCommit>>
      \/ \E p \in Script : Commit(p) /\ ~UNCHANGED <<row, dataset, history>>
  <2>1. ASSUME NEW p \in Script, Imports(p), ~UNCHANGED <<row, dataset, lastCommit>>
        PROVE  Commit(p) /\ ~UNCHANGED <<row, dataset, history>>
    BY <2>1 DEF Imports, Submit, ReadDatasets, ReadStations, Write, Archive, history
  <2> QED
    BY <2>1, ImportShapes DEF Still, history
<1> QED
  BY <1>2, <1>3, <1>4

-------------------------------------------------------------------------------
(* What the list shows.                                                    *)

\* What the search answers to a text, of some table of stations.
AnswersTo(q) == {CodesOf(SearchStations(stations, q, Limit)) : stations \in Listed}

CacheInv == \A q \in scene.texts : cache[q].data # NoData => cache[q].data \in AnswersTo(q)

LEMMA NextCacheInv ==
    ASSUME Typed, FetchInv, CacheInv, [Next]_vars
    PROVE  CacheInv'
<1>0. scene' = scene /\ DOMAIN cache = scene.texts /\ search \in [Request -> Searches]
  BY ServesShapes DEF Typed, FetchInv
<1>1. ASSUME \A q \in scene.texts : cache'[q].data = cache[q].data \/ cache'[q].data \in AnswersTo(q)
      PROVE  CacheInv'
  BY <1>0, <1>1 DEF CacheInv, AnswersTo
<1>2. CASE cache' = cache
  BY <1>1, <1>2
<1>3. ASSUME NEW q \in scene.texts, Search(q) PROVE CacheInv'
  <2>1. PICK s \in Request : cache' = [cache EXCEPT ![q].fetch = s, ![q].failed = FALSE]
    BY <1>3 DEF Search
  <2>2. cache'[q] = [data |-> cache[q].data, at |-> cache[q].at, failed |-> FALSE, fetch |-> s]
    BY <2>1, CacheEntry
  <2>3. \A r \in scene.texts \ {q} : cache'[r] = cache[r]
    BY <1>0, <2>1
  <2> QED
    BY <1>1, <2>2, <2>3
<1>4. ASSUME NEW q \in scene.texts, Lose(q) PROVE CacheInv'
  <2>1. cache' = [cache EXCEPT ![q].fetch = NoFetch, ![q].failed = TRUE]
    BY <1>4 DEF Lose
  <2>2. cache'[q] = [data |-> cache[q].data, at |-> cache[q].at, failed |-> TRUE, fetch |-> NoFetch]
    BY <2>1, CacheEntry
  <2>3. \A r \in scene.texts \ {q} : cache'[r] = cache[r]
    BY <1>0, <2>1
  <2> QED
    BY <1>1, <2>2, <2>3
<1>5. ASSUME NEW q \in scene.texts, Deliver(q) PROVE CacheInv'
  <2> DEFINE s == cache[q].fetch
  <2>1. s \in Request /\ search[s].q = q
    BY <1>5 DEF Deliver, FetchInv
  <2>2. cache' = [cache EXCEPT ![q] = [NotAsked EXCEPT !.data = CodesOf(Answered(s)), !.at = now]]
    BY <1>5 DEF Deliver
  <2>3. cache'[q].data = CodesOf(Answered(s))
    BY <1>0, <2>2 DEF NotAsked
  <2>4. search[s].rows \in Listed
    BY <1>0, <2>1 DEF Searches
  <2>5. CodesOf(Answered(s)) \in AnswersTo(q)
    BY <2>1, <2>4 DEF Answered, AnswersTo
  <2>6. \A r \in scene.texts \ {q} : cache'[r] = cache[r]
    BY <1>0, <2>2
  <2> QED
    BY <1>1, <2>3, <2>5, <2>6
<1>6. CASE Picks
  <2>1. Search(text) => text \in scene.texts
    BY DEF Typed, Search, Stale
  <2>2. CASE Debounce
    BY <1>2, <1>3, <2>1, <2>2 DEF Debounce, Observe
  <2>3. CASE Refocus
    BY <1>3, <2>3 DEF Refocus, Typed
  <2>4. CASE Uses
    BY <1>2, <2>4, UsesShapes
  <2> QED
    BY <1>4, <1>5, <1>6, <2>2, <2>3, <2>4 DEF Picks
<1> QED
  BY <1>2, <1>6, StepShapes DEF picker, vars

\* "Ignore placeholder data (the previous query's result) while a new query loads"
\* (StationPicker.tsx:61): the list that Enter takes from is empty, or an answer to the text
\* that has rested (debounced), never one to another text.  Which state of the stations it
\* was made of is left open: the cache keeps an answer for its staleTime, and longer while
\* nothing asks again.
ListIsOfTheText ==
    (Fresh /\ debounced # <<>> /\ Data # <<>>) => Data \in AnswersTo(debounced)

-------------------------------------------------------------------------------
(* What the search makes of an index.                                      *)

\* Texts are of letters, and each code of an index is that of one station.
LEMMA IndexType ==
    ASSUME NEW S \in Listed
    PROVE  /\ IsIndex(S)
           /\ \A st \in S : /\ st = [code |-> st.code, names |-> st.names] /\ st.code \in Code
                            /\ \E x \in Content : st.names = NamesOf[st.code][x]
<1>1. PICK rows \in Rows : S = Entries(rows)
  BY DEF Listed
<1> DEFINE A == Active(rows)
           f == [c \in A |-> [code |-> c, names |-> NamesOf[c][rows[c].content]]]
<1>2. A \in SUBSET Code /\ \A c \in A : rows[c].content \in Content
  BY <1>1 DEF Rows, Active, Present
<1>3. IsFiniteSet(A)
  <2> HIDE DEF A
  <2> QED
    BY <1>2, StationsAssumption, FS_Subset
<1> HIDE DEF A
<1>4. S = {f[c] : c \in A}
  BY <1>1 DEF Entries, A
<1>5. f \in Surjection(A, S)
  BY <1>4 DEF Surjection
<1>6. \A c \in A : /\ f[c] = [code |-> f[c].code, names |-> f[c].names]
                   /\ f[c].code = c /\ c \in Code /\ f[c].names = NamesOf[c][rows[c].content]
  BY <1>2
<1> HIDE DEF f
<1>7. IsFiniteSet(S)
  BY <1>3, <1>5, FS_Surjection
<1>8. ASSUME NEW st \in S
      PROVE  /\ IsStation(st)
             /\ st = [code |-> st.code, names |-> st.names] /\ st.code \in Code
             /\ \E x \in Content : st.names = NamesOf[st.code][x]
  <2>1. PICK c \in A : st = f[c]
    BY <1>4
  <2>2. c \in Code /\ rows[c].content \in Content /\ st.code = c
    BY <1>2, <1>6, <2>1
  <2>3. st.names = NamesOf[c][rows[c].content]
    BY <1>6, <2>1
  <2>4. st.names \in Seq(Seq(Letter)) \ {<<>>}
    BY <2>2, <2>3, CodesAssumption
  <2>5. c \in Seq(Letter) /\ Len(c) <= 8 /\ Rank[c] \in Int
    BY <2>2, CodesAssumption
  <2>6. IsStation(st)
    BY <2>2, <2>4, <2>5 DEF IsStation
  <2> QED
    BY <1>6, <2>1, <2>2, <2>3, <2>6
<1>9. ASSUME NEW st \in S, NEW other \in S, Rank[st.code] = Rank[other.code] PROVE st = other
  <2>1. PICK c \in A : st = f[c]
    BY <1>4
  <2>2. PICK d \in A : other = f[d]
    BY <1>4
  <2>3. c \in Code /\ d \in Code /\ Rank[c] = Rank[d]
    BY <1>6, <1>9, <2>1, <2>2
  <2>4. c = d
    BY <2>3, CodesAssumption
  <2> QED
    BY <2>1, <2>2, <2>4
<1>10. IsIndex(S)
  BY <1>7, <1>8, <1>9 DEF IsIndex
<1> QED
  BY <1>8, <1>10

LEMMA TextType ==
    ASSUME Typed
    PROVE  /\ Texts \subseteq Seq(Letter)
           /\ \A s \in Request : search[s].q \in Seq(Letter) /\ search[s].rows \in Listed
<1>1. scene.texts \subseteq Seq(Letter) /\ scene.elsewhere \subseteq Seq(Letter)
  BY SceneAssumption, PickerAssumption DEF Typed
<1>2. <<>> \in Seq(Letter)
  OBVIOUS
<1>3. \A s \in Request : search[s] \in Searches
  BY DEF Typed
<1> QED
  BY <1>1, <1>2, <1>3 DEF Searches, Texts

\* The score tells the kind of match, also when it is an alias that matches.
Banded(k, n) ==
    /\ n \in Int
    /\ \/ k = 1 /\ n = 1000
       \/ k = 2 /\ n > 750 /\ n < 1000
       \/ k = 3 /\ n >= 625 /\ n <= 750
       \/ k = 4 /\ n >= 575 /\ n <= 600
       \/ k = 5 /\ n >= 375 /\ n <= 400
       \/ k = 6 /\ n <= 300

LEMMA KindScores ==
    ASSUME NEW q \in Seq(Letter), NEW st, IsStation(st)
    PROVE  Banded(Kind(q, st), Score(q, st))
<1> DEFINE qCode == Without(q, Gap)
           code == ScoreCode(qCode, st.code)
           score == Score(q, st)
           I == DOMAIN st.names
           Pre(i)   == IsPrefix(q, st.names[i])
           Words1(i) == \A w \in Tokens(q) : SomeStartsWith(st.names[i], w)
           Inner(i) == Len(q) >= Enough /\ Includes(st.names[i], q)
           P(i) == Part(q, st, i)
<1>1. /\ code \in Int /\ score \in Int
      /\ code <= score /\ \A i \in I : P(i) <= score
      /\ score = code \/ \E i \in I : score = P(i)
  BY ScoreOf
<1>2. ASSUME NEW i \in I
      PROVE  /\ P(i) \in Int /\ P(i) <= 750
             /\ Pre(i) => P(i) >= 625
             /\ ~Pre(i) => P(i) <= 600
             /\ ~Pre(i) /\ Words1(i) => P(i) >= 575
             /\ ~Pre(i) /\ ~Words1(i) => P(i) <= 400
             /\ ~Pre(i) /\ ~Words1(i) /\ Inner(i) => P(i) >= 375
             /\ ~Pre(i) /\ ~Words1(i) /\ ~Inner(i) => P(i) <= 300
  <2> DEFINE n == ScoreName(q, st.names[i])
             p == P(i)
  <2>1. st.names[i] \in Seq(Letter)
    BY ScoreOf
  <2>2. Graded(q, st.names[i], n)
    BY <2>1, NameScores
  <2>3. p = n - (IF i > 1 THEN 25 ELSE 0)
    BY DEF Part, AliasPenalty
  <2> HIDE DEF n, p
  <2>4. /\ n \in Int
        /\ Pre(i) => n >= 650 /\ n <= 750
        /\ ~Pre(i) /\ Words1(i) => n = 600
        /\ ~Pre(i) /\ ~Words1(i) /\ Inner(i) => n = 400
        /\ ~Pre(i) /\ ~Words1(i) /\ ~Inner(i) => n <= 300
    BY <2>2 DEF Graded
  <2>5. p = n \/ p = n - 25
    BY <2>3, <2>4
  <2> HIDE DEF Pre, Words1, Inner
  <2>6. /\ p \in Int /\ p <= 750
        /\ Pre(i) => p >= 625
        /\ ~Pre(i) => p <= 600
        /\ ~Pre(i) /\ Words1(i) => p >= 575
        /\ ~Pre(i) /\ ~Words1(i) => p <= 400
        /\ ~Pre(i) /\ ~Words1(i) /\ Inner(i) => p >= 375
        /\ ~Pre(i) /\ ~Words1(i) /\ ~Inner(i) => p <= 300
    <3>1. CASE Pre(i)
      BY <2>4, <2>5, <3>1
    <3>2. CASE ~Pre(i) /\ Words1(i)
      BY <2>4, <2>5, <3>2
    <3>3. CASE ~Pre(i) /\ ~Words1(i) /\ Inner(i)
      BY <2>4, <2>5, <3>3
    <3>4. CASE ~Pre(i) /\ ~Words1(i) /\ ~Inner(i)
      BY <2>4, <2>5, <3>4
    <3> QED
      BY <3>1, <3>2, <3>3, <3>4
  <2> QED
    BY <2>6 DEF p
<1>3. st.code = qCode => code = 1000
  BY DEF ScoreCode
<1>4. st.code # qCode /\ Len(qCode) >= 2 /\ IsPrefix(qCode, st.code) => code > 750 /\ code < 1000
  <2> SUFFICES ASSUME st.code # qCode, Len(qCode) >= 2, IsPrefix(qCode, st.code)
               PROVE  code > 750 /\ code < 1000
    OBVIOUS
  <2>1. code = 850 - (Len(st.code) - Len(qCode))
    BY DEF ScoreCode
  <2>2. Len(qCode) \in Nat /\ Len(st.code) \in Nat /\ Len(st.code) <= 8
    <3>1. qCode \in Seq(Letter) /\ st.code \in Seq(Letter)
      BY LeavesOut DEF IsStation
    <3> HIDE DEF qCode
    <3> QED
      BY <3>1 DEF IsStation
  <2>3. Len(qCode) <= Len(st.code)
    BY DEF IsPrefix
  <2> DEFINE l == Len(st.code)
             m == Len(qCode)
  <2> HIDE DEF code, l, m
  <2>4. code = 850 - (l - m) /\ l \in Nat /\ m \in Nat /\ l <= 8 /\ m <= l /\ m >= 2
    BY <2>1, <2>2, <2>3 DEF l, m
  <2> QED
    BY ONLY <2>4
<1>5. st.code # qCode /\ ~(Len(qCode) >= 2 /\ IsPrefix(qCode, st.code)) => code = 0
  BY DEF ScoreCode
<1>6. Kind(q, st) = IF st.code = qCode THEN 1
                    ELSE IF Len(qCode) >= 2 /\ IsPrefix(qCode, st.code) THEN 2
                    ELSE IF \E i \in I : Pre(i) THEN 3
                    ELSE IF \E i \in I : Words1(i) THEN 4
                    ELSE IF \E i \in I : Inner(i) THEN 5
                    ELSE 6
  <2>1. KindOf(q, ToSet(st.names)) =
           IF \E n \in ToSet(st.names) : IsPrefix(q, n) THEN 3
           ELSE IF \E n \in ToSet(st.names) : \A w \in Tokens(q) : SomeStartsWith(n, w) THEN 4
           ELSE IF Len(q) >= Enough /\ \E n \in ToSet(st.names) : Includes(n, q) THEN 5
           ELSE 6
    BY DEF KindOf
  <2>2. /\ (\E n \in ToSet(st.names) : IsPrefix(q, n)) <=> \E i \in I : Pre(i)
        /\ (\E n \in ToSet(st.names) : \A w \in Tokens(q) : SomeStartsWith(n, w))
              <=> \E i \in I : Words1(i)
        /\ (Len(q) >= Enough /\ \E n \in ToSet(st.names) : Includes(n, q)) <=> \E i \in I : Inner(i)
    BY DEF ToSet
  <2> HIDE DEF Pre, Words1, Inner, I
  <2> QED
    BY <2>1, <2>2 DEF Kind
<1> HIDE DEF code, score, I, Pre, Words1, Inner, P
<1> HIDE DEF qCode
<1>7. ASSUME NEW i \in I PROVE P(i) <= score
  BY <1>1
<1>8. CASE st.code = qCode
  <2>1. code = 1000 /\ Kind(q, st) = 1
    BY <1>3, <1>6, <1>8
  <2>2. score = 1000
    <3>1. score = code \/ \E i \in I : score <= 750 /\ score = P(i)
      BY <1>1, <1>2
    <3> QED
      BY <1>1, <2>1, <3>1
  <2> QED
    BY <2>1, <2>2 DEF Banded, score
<1>9. CASE st.code # qCode /\ Len(qCode) >= 2 /\ IsPrefix(qCode, st.code)
  <2>1. code > 750 /\ code < 1000
    BY <1>4, <1>9
  <2>2. Kind(q, st) = 2
    BY <1>6, <1>9
  <2>3. score > 750 /\ score < 1000
    <3>1. score = code \/ score <= 750
      BY <1>1, <1>2
    <3> QED
      BY <1>1, <2>1, <3>1
  <2> QED
    BY <1>1, <2>2, <2>3 DEF Banded, score
<1>10. CASE st.code # qCode /\ ~(Len(qCode) >= 2 /\ IsPrefix(qCode, st.code))
  <2>1. code = 0 /\ score \in Int
    BY <1>1, <1>5, <1>10
  <2>2. CASE \E i \in I : Pre(i)
    <3>1. PICK i \in I : Pre(i)
      BY <2>2
    <3>2. score >= 625
      <4>1. P(i) >= 625 /\ P(i) \in Int /\ P(i) <= score
        BY <1>2, <1>7, <3>1
      <4> QED
        BY <2>1, <4>1
    <3>3. score = 0 \/ score <= 750
      BY <1>1, <1>2, <2>1
    <3>4. Kind(q, st) = 3
      BY <1>6, <1>10, <2>2
    <3> QED
      BY <2>1, <3>2, <3>3, <3>4 DEF Banded, score
  <2>3. CASE (\A i \in I : ~Pre(i)) /\ \E i \in I : Words1(i)
    <3>1. PICK i \in I : Words1(i) /\ ~Pre(i)
      BY <2>3
    <3>2. score >= 575
      <4>1. P(i) >= 575 /\ P(i) \in Int /\ P(i) <= score
        BY <1>2, <1>7, <3>1
      <4> QED
        BY <2>1, <4>1
    <3>3. score = 0 \/ score <= 600
      BY <1>1, <1>2, <2>1, <2>3
    <3>4. Kind(q, st) = 4
      BY <1>6, <1>10, <2>3
    <3> QED
      BY <2>1, <3>2, <3>3, <3>4 DEF Banded, score
  <2>4. CASE (\A i \in I : ~Pre(i) /\ ~Words1(i)) /\ \E i \in I : Inner(i)
    <3>1. PICK i \in I : Inner(i) /\ ~Pre(i) /\ ~Words1(i)
      BY <2>4
    <3>2. score >= 375
      <4>1. P(i) >= 375 /\ P(i) \in Int /\ P(i) <= score
        BY <1>2, <1>7, <3>1
      <4> QED
        BY <2>1, <4>1
    <3>3. score = 0 \/ score <= 400
      BY <1>1, <1>2, <2>1, <2>4
    <3>4. Kind(q, st) = 5
      BY <1>6, <1>10, <2>4
    <3> QED
      BY <2>1, <3>2, <3>3, <3>4 DEF Banded, score
  <2>5. CASE \A i \in I : ~Pre(i) /\ ~Words1(i) /\ ~Inner(i)
    <3>1. score = 0 \/ score <= 300
      BY <1>1, <1>2, <2>1, <2>5
    <3>2. Kind(q, st) = 6
      BY <1>6, <1>10, <2>5
    <3> QED
      BY <2>1, <3>1, <3>2 DEF Banded, score
  <2> QED
    BY <2>2, <2>3, <2>4, <2>5
<1> QED
  BY <1>8, <1>9, <1>10

-------------------------------------------------------------------------------
(* The theorems.                                                           *)

Inv == Typed /\ ImportInv /\ FetchInv /\ SearchInv /\ CacheInv

\* What the theorems rest on holds in every state.
THEOREM Invariance == Spec => []Inv
<1>1. Init => Inv
  BY InitTyped, InitImportInv, InitFetchInv, InitSearchInv DEF Inv, ImportInv, CacheInv, Init, NotAsked
<1>2. Inv /\ [Next]_vars => Inv'
  <2> SUFFICES ASSUME Inv, [Next]_vars PROVE Inv'
    OBVIOUS
  <2>1. Typed' /\ Busy' /\ Registered'
    BY NextTyped DEF Inv, ImportInv
  <2>2. ImportInv'
    BY <2>1, NextImportInv DEF Inv, ImportInv
  <2>3. FetchInv' /\ SearchInv' /\ CacheInv'
    BY NextFetchInv, NextSearchInv, NextCacheInv DEF Inv, ImportInv
  <2> QED
    BY <2>1, <2>2, <2>3 DEF Inv
<1> QED
  BY <1>1, <1>2, PTL DEF Spec

\* Every variable keeps to its type, and a version names one dataset.
THEOREM TypeCorrect == Spec => []TypeOK
<1>1. Inv => TypeOK
  <2> SUFFICES ASSUME Inv PROVE TypeOK
    OBVIOUS
  <2>1. /\ scene \in Scene /\ now \in 1..scene.time
        /\ row \in [Code -> {NoRow} \cup [content : Content, active : BOOLEAN]]
        /\ pc \in [Script -> {"idle", "datasets", "stations", "write", "archive", "commit"}]
        /\ userStation \in [Code -> {NoRow} \cup [fav : BOOLEAN, at : 0..scene.time]]
        /\ raced \in BOOLEAN
    BY DEF Inv, Typed, Rows
  <2>2. \A d \in dataset : d.version \in Version /\ d.status \in {"ACTIVE", "ARCHIVED"} /\ d.at <= now
    BY DEF Inv, Typed, ImportInv, Registered, Datasets
  <2>3. \A d, e \in dataset : d.version = e.version => d = e
    BY DEF Inv, ImportInv, Registered
  <2>4. \A s \in Request : search[s].pc \in {"idle", "dataset", "rows", "store", "done"}
    BY DEF Inv, Typed, Searches
  <2> QED
    BY <2>1, <2>2, <2>3, <2>4 DEF TypeOK
<1> QED
  BY <1>1, Invariance, PTL

\* However many imports race, over whatever stations, those that share a station leave
\* one ACTIVE dataset of it.
THEOREM ActivesAreDisjoint == Spec => []TwoActiveOnlyIfDisjoint
<1>1. Inv => TwoActiveOnlyIfDisjoint
  BY DEF Inv, ImportInv
<1> QED
  BY <1>1, Invariance, PTL

\* Unless an import went by stations that another one has changed since, the active
\* stations are the records of the one active dataset.
THEOREM StationsAreTheDataset == Spec => []StationsMatchDataset
<1>1. Inv => StationsMatchDataset
  BY DEF Inv, ImportInv
<1> QED
  BY <1>1, Invariance, PTL

\* However slowly an index is made and however many requests make one, a search is
\* answered from stations and a version that are no older than INDEX_TTL_MS.
THEOREM AnswersFresh == Spec => []AnswersAreFresh
<1>1. Inv => AnswersAreFresh
  <2> SUFFICES ASSUME Inv, NEW s \in Request,
                      search[s].pc = "done", lastCommit <= search[s].asked - IndexTTL
               PROVE  /\ search[s].rows = Entries(row)
                      /\ search[s].version \in CurrentVersions
    BY DEF AnswersAreFresh, CurrentVersions
  <2>1. search[s].asked \in Nat /\ IndexTTL \in Nat /\ lastCommit \in Nat
    BY StationsAssumption, SceneAssumption DEF Inv, Typed, Searches
  <2>2. lastCommit < search[s].asked - IndexTTL + 1
    BY <2>1
  <2> QED
    BY <2>2 DEF Inv, SearchInv, UpToDate, UpToDateRows
<1> QED
  BY <1>1, Invariance, PTL

\* An import that is not forced and went by the stations as they are leaves most of
\* them active, whatever it imports.
THEOREM RemovalsAreGuarded == Spec => NoMassRemoval
<1>1. Inv /\ [Next]_vars =>
         \A p \in Script :
            (pc[p] = "commit" /\ commits' = commits + 1 /\ pc'[p] = "idle" /\ ~job[p].force
             /\ read[p].commits = commits) =>
                Cardinality(Active(row) \ Active(row')) * 100
                    <= MaxDropPercent * Cardinality(Active(row))
  <2> SUFFICES ASSUME Inv, [Next]_vars, NEW p \in Script,
                      pc[p] = "commit", commits' = commits + 1, pc'[p] = "idle",
                      ~job[p].force, read[p].commits = commits
               PROVE  Cardinality(Active(row) \ Active(row')) * 100
                          <= MaxDropPercent * Cardinality(Active(row))
    OBVIOUS
  <2>0. /\ commits \in Nat /\ Busy /\ Typed
        /\ pc \in [Script -> {"idle", "datasets", "stations", "write", "archive", "commit"}]
    BY DEF Inv, Typed, ImportInv
  <2>1. PICK o \in Script : Imports(o)
    BY <2>0, ImportShapes DEF Still, history
  <2>2. Commit(o) /\ ~UNCHANGED <<row, dataset, history>>
    BY <2>0, <2>1 DEF Imports, Submit, ReadDatasets, ReadStations, Write, Archive, Commit, history
  <2>3. o = p
    BY <2>0, <2>2 DEF Commit, Finish, Goto
  <2>4. row' = Imported(p)
    BY <2>0, <2>2, <2>3, CommitShapes
  <2>5. read[p].rows = row /\ ~MassRemoval(p, row)
    BY DEF Inv, ImportInv, Unovertaken, LetThrough, Writing
  <2>6. Active(row') = Codes(job[p].input)
    BY <2>0, <2>4, <2>5, ImportedMatches
  <2>7. Active(row) \ Active(row') = ToDeactivate(p, row)
    BY <2>6 DEF ToDeactivate
  <2>8. /\ Cardinality(ToDeactivate(p, row)) \in Nat /\ Cardinality(Active(row)) \in Nat
        /\ MaxDropPercent \in Nat
    <3>1. Active(row) \subseteq Code /\ ToDeactivate(p, row) \subseteq Code
      BY DEF Active, Present, ToDeactivate
    <3> QED
      BY <3>1, StationsAssumption, FS_Subset, FS_CardinalityType
  <2>9. ~(Cardinality(ToDeactivate(p, row)) * 100 > MaxDropPercent * Cardinality(Active(row)))
    BY <2>5 DEF MassRemoval
  <2>10. \A x, y, m \in Nat : ~(x * 100 > m * y) => x * 100 <= m * y
    OBVIOUS
  <2> QED
    BY <2>7, <2>8, <2>9, <2>10
<1> QED
  BY <1>1, Invariance, PTL DEF Spec, NoMassRemoval

\* Whatever answers come, in whichever order, the fresh list is one that the search gives
\* for the text that has rested.
THEOREM ListsAreOfTheText == Spec => []ListIsOfTheText
<1>1. Inv => ListIsOfTheText
  <2> SUFFICES ASSUME Inv, Fresh, debounced # <<>>, Data # <<>> PROVE Data \in AnswersTo(debounced)
    BY DEF ListIsOfTheText
  <2>1. Known(debounced) /\ Data = cache[debounced].data
    BY DEF Fresh, Data
  <2>2. debounced \in scene.texts /\ cache[debounced].data # NoData
    BY <2>1 DEF Inv, Typed, Known
  <2> QED
    BY <2>1, <2>2 DEF Inv, CacheInv
<1> QED
  BY <1>1, Invariance, PTL

\* Whatever is typed and whatever the stations are called, giving up early never loses a
\* match within the edits a word is allowed, and makes none.
THEOREM TyposCounted == Spec => []TyposAreCounted
<1>1. Inv => TyposAreCounted
  <2> SUFFICES ASSUME Inv, NEW s \in Request,
                      NEW w \in Tokens(search[s].q), NEW st \in search[s].rows, NEW max \in 0..2,
                      NEW i \in DOMAIN st.names, NEW t \in Tokens(st.names[i])
               PROVE  LET d == EditDistance(w, t, max)
                          e == Distances(w, t)[<<Len(w), Len(t)>>]
                      IN IF e <= max THEN d = e ELSE d > max
    BY DEF TyposAreCounted
  <2>1. search[s].q \in Seq(Letter) /\ search[s].rows \in Listed
    BY TextType DEF Inv
  <2>2. w \in Seq(Letter)
    BY <2>1, WordsOf
  <2>3. st.names[i] \in Seq(Letter)
    BY <2>1, IndexType DEF IsIndex, IsStation
  <2>4. t \in Seq(Letter) /\ t # <<>>
    BY <2>3, WordsOf
  <2>5. max \in Nat
    OBVIOUS
  <2> QED
    BY <2>2, <2>4, <2>5, EarlyReturnsAreExact
<1> QED
  BY <1>1, Invariance, PTL

\* Whatever the stations are called, no result is of a kind that is documented to rank
\* before that of an earlier result.
THEOREM ResultsAreRanked == Spec => []RankedAsDocumented
<1>1. Inv => RankedAsDocumented
  <2> SUFFICES ASSUME Inv, NEW s \in Request,
                      NEW k \in DOMAIN Answered(s), NEW l \in DOMAIN Answered(s), k < l
               PROVE  Kind(search[s].q, Answered(s)[k]) <= Kind(search[s].q, Answered(s)[l])
    BY DEF RankedAsDocumented
  <2> DEFINE q == search[s].q
             found == Answered(s)
             a == Kind(q, found[k])
             b == Kind(q, found[l])
             m == Score(q, found[k])
             n == Score(q, found[l])
  <2>1. q \in Seq(Letter) /\ search[s].rows \in Listed
    BY TextType DEF Inv
  <2>2. IsIndex(search[s].rows)
    BY <2>1, IndexType
  <2>3. AreResults(search[s].rows, q, found)
    BY <2>1, <2>2, ResultsOf, StationsAssumption DEF Answered
  <2> HIDE DEF found
  <2>4. k \in DOMAIN found /\ l \in DOMAIN found
    BY DEF found
  <2>5. found[k] \in search[s].rows /\ found[l] \in search[s].rows /\ m >= n
    BY <2>3, <2>4 DEF AreResults
  <2>6. IsStation(found[k]) /\ IsStation(found[l])
    BY <2>2, <2>5 DEF IsIndex
  <2>7. Banded(a, m) /\ Banded(b, n)
    BY <2>1, <2>6, KindScores
  <2> HIDE DEF a, b, m, n
  <2>8. a <= b
    BY <2>5, <2>7 DEF Banded
  <2> QED
    BY <2>8 DEF a, b, found
<1> QED
  BY <1>1, Invariance, PTL

\* Whatever answers come, in whichever order, Enter takes a station that matches the text
\* that has rested.
THEOREM EntersMatch == Spec => []EnterMatchesTheText
<1>1. Inv => EnterMatchesTheText
  <2> SUFFICES ASSUME Inv, EnterTakes # NoStation, text # <<>>, text = debounced
               PROVE  \E x \in Content :
                         Score(text, [code |-> EnterTakes, names |-> NamesOf[EnterTakes][x]]) > 0
    BY DEF EnterMatchesTheText
  <2>1. Fresh /\ active + 1 \in DOMAIN Options /\ EnterTakes = Options[active + 1]
    BY DEF EnterTakes
  <2>2. Options = Without(Data, scene.exclude)
    BY DEF Options
  <2>3. text \in scene.texts /\ text \in Seq(Letter)
    BY TextType DEF Inv, Typed, Texts
  <2>4. (Known(text) /\ Data = cache[text].data) \/ Data = <<>>
    BY <2>1 DEF Fresh, Data
  <2>5. Data # <<>>
    <3> SUFFICES ASSUME Data = <<>> PROVE FALSE
      OBVIOUS
    <3>1. <<>> \in Seq({}) /\ DOMAIN <<>> = {}
      OBVIOUS
    <3>2. \E i \in DOMAIN <<>> : Options[active + 1] = <<>>[i]
      BY <2>1, <2>2, <3>1, LeavesOut
    <3> QED
      BY <3>1, <3>2
  <2>6. Data \in AnswersTo(text)
    BY <2>3, <2>4, <2>5 DEF Inv, CacheInv, Known
  <2>7. PICK S \in Listed : Data = CodesOf(SearchStations(S, text, Limit))
    BY <2>6 DEF AnswersTo
  <2> DEFINE r == SearchStations(S, text, Limit)
  <2>8. AreResults(S, text, r)
    BY <2>3, IndexType, ResultsOf, StationsAssumption
  <2> HIDE DEF r
  <2>9. r \in Seq(S) /\ \A k \in DOMAIN r : r[k] \in S /\ Score(text, r[k]) > 0
    BY <2>8 DEF AreResults
  <2>10. /\ Data = [k \in DOMAIN r |-> r[k].code]
         /\ Data \in Seq(Code)
    <3>1. Data = [k \in DOMAIN r |-> r[k].code]
      BY <2>7 DEF CodesOf, r
    <3>2. \A k \in DOMAIN r : r[k].code \in Code
      BY <2>9, IndexType
    <3> QED
      BY <2>9, <3>1, <3>2
  <2>11. PICK k \in DOMAIN Data : EnterTakes = Data[k]
    <3> DEFINE list == Data
               z == scene.exclude
    <3>1. list \in Seq(Code)
      BY <2>10
    <3> HIDE DEF list, z
    <3>2. \A j \in DOMAIN Without(list, z) :
             \E i \in DOMAIN list : Without(list, z)[j] = list[i] /\ list[i] # z
      BY ONLY <3>1, LeavesOut
    <3> QED
      BY <2>1, <2>2, <3>2 DEF list, z
  <2>12. k \in DOMAIN r /\ EnterTakes = r[k].code
    BY <2>10, <2>11
  <2>13. PICK x \in Content : r[k].names = NamesOf[r[k].code][x]
    BY <2>9, <2>12, IndexType
  <2>14. r[k] = [code |-> EnterTakes, names |-> NamesOf[EnterTakes][x]]
    BY <2>9, <2>12, <2>13, IndexType
  <2> QED
    BY <2>9, <2>12, <2>14
<1> QED
  BY <1>1, Invariance, PTL
=============================================================================
