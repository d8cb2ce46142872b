\* Imports that race, the search index, favourites, searches and the picker, each by
\* itself or with the one it works with.
CONSTANTS
    x = x y = y v1 = v1 v2 = v2 v3 = v3
    NoVersion = NoVersion NoRow = NoRow NoIndex = NoIndex
    NoStation = NoStation NoData = NoData NoFetch = NoFetch
    Letter <- Letters
    Gap = " "
    MidWord = 3
    LongWord = 5
    Enough = 2
    Rank <- Ranks
    Code <- Codes1
    Content = {x, y}
    Version = {v1, v2, v3}
    Script = {i1, i2}
    Request = {q1, q2}
    i1 = i1 i2 = i2 q1 = q1 q2 = q2
    MinDataset = 2
    MaxDropPercent = 40
    IndexTTL = 1
    Take = 2
    Slice = 1
    Limit = 4
    NamesOf <- Names
    StaleTime = 1
    Scene <- Scenes
SPECIFICATION Spec
CHECK_DEADLOCK FALSE
INVARIANTS StationsMatchDataset TwoActiveOnlyIfDisjoint AnswersAreFresh
    EnterMatchesTheText RankedAsDocumented TyposAreCounted
