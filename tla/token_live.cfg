\* PostgreSQL: one browser with two families; every request is answered.
CONSTANTS
    u1 = u1
    Row = {r1, r2}
    Family = {f1, f2}
    User = {u1}
    Owner <- OneOwner
    Device = {d1}
    Proc = {p1, p2}
    NoRow = NoRow NoFamily = NoFamily NoDevice = NoDevice
    RefreshTTL = 2
    AccessTTL = 1
    Grace = 1
    MaxTime = 1
    SerialTx = FALSE
SPECIFICATION FairSpec
INVARIANTS SameBrowserRaceIsNotTheft
PROPERTIES Answered
