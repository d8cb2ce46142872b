\* PostgreSQL: two devices hold tokens of one family.
CONSTANTS
    u1 = u1
    Row = {r1, r2, r3}
    Family = {f1}
    User = {u1}
    Owner <- OneOwner
    Device = {d1, d2}
    Proc = {p1, p2}
    NoRow = NoRow NoFamily = NoFamily NoDevice = NoDevice
    RefreshTTL = 1
    AccessTTL = 1
    Grace = 1
    MaxTime = 1
    SerialTx = FALSE
SYMMETRY Symmetric
SPECIFICATION Spec
INVARIANTS IInv RevocationCoversWhatItSaw
PROPERTIES ImplementsFamilies
