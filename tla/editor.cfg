\* One user plans and edits journeys and templates while the server's facts change.
CONSTANTS
    A = A B = B C = C p1 = p1 p2 = p2 t1 = t1 t2 = t2 k1 = k1 k2 = k2 TATKAL = TATKAL general = general
    NoStation = NoStation
    NoDate = 0
    NoRule = NoRule
    NoRecord = NoRecord
    General = general
    TatkalQuota = {TATKAL}
    Senior = {p2}
    NameLength <- Names
    Station = {A, B, C}
    Date = {1, 2}
    Quota = {TATKAL, general}
    Passenger = {p1, p2}
    Train = {t1, t2}
    Class = {k1, k2}
    Blank = Blank
    Own = Own
    DefaultQuota = TATKAL
    DefaultClasses <- KeyClasses
    MaxTrains = 1
    MaxPassengers = 2
    MaxTemplates = 1
    Scene <- Scenes
SPECIFICATION Spec
INVARIANTS ReadyIsSafe OneRecordPerSave
PROPERTIES AcceptedIfKnown EditKeepsTheRest OthersDontMatter
