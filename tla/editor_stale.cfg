\* The comment on removed passengers, against the cached journey the editor starts from.
CONSTANTS
    A = A B = B C = C p1 = p1 p2 = p2 t1 = t1 t2 = t2 k1 = k1 k2 = k2 TATKAL = TATKAL general = general
    NoStation = NoStation
    NoDate = 0
    NoRule = NoRule
    NoRecord = NoRecord
    General = general
    TatkalQuota = {TATKAL}
    Senior = {p2}
    NameLength <- Names
    Station = {A, B, C}
    Date = {1, 2}
    Quota = {TATKAL, general}
    Passenger = {p1, p2}
    Train = {t1, t2}
    Class = {k1, k2}
    Blank = Blank
    Own = Own
    DefaultQuota = TATKAL
    DefaultClasses <- KeyClasses
    MaxTrains = 1
    MaxPassengers = 2
    MaxTemplates = 1
    Scene <- Removal
SPECIFICATION Spec
PROPERTIES RemovedLeftOut
