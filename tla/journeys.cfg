\* Two requests at a time on the journeys, templates and passengers of two users.
CONSTANTS
    u1 = u1 u2 = u2 j1 = j1 j2 = j2 t1 = t1 t2 = t2 t3 = t3 a1 = a1 a2 = a2 a3 = a3 x = x
    n1 = n1 n2 = n2 k1 = k1 k2 = k2 A = A B = B C = C tatkal = tatkal general = general
    User = {u1, u2}
    NoUser = NoUser
    Journey = {j1, j2}
    Template = {t1, t2, t3}
    NoRecord = NoRecord
    Passenger = {a1, a2, a3, x}
    Train = {n1, n2}
    Class = {k1, k2}
    OwnerOf <- Owners
    Station = {A, B, C}
    NoStation = NoStation
    Quota = {tatkal, general}
    DefaultQuota = tatkal
    DefaultClasses <- KeyClasses
    Limit <- Limits
    MaxTrains = 1
    MaxPassengers = 2
    MaxTemplates = 1
    MaxSaved = 1
    Proc = {p1, p2}
    Earlier = {a1, a2, x}
    Mix <- Mixes
SYMMETRY Alike
SPECIFICATION Spec
INVARIANTS RecordsWellFormed LimitHoldsUnlessRaced CapsHoldUpToConcurrency
PROPERTIES UnracedEditsApply NewRecordsSkipRemoved
