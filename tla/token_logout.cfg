\* PostgreSQL: logout races with a refresh.
CONSTANTS
    u1 = u1
    Row = {r1, r2, r3}
    Family = {f1}
    User = {u1}
    Owner <- OneOwner
    Device = {d1}
    Proc = {p1, p2}
    NoRow = NoRow NoFamily = NoFamily NoDevice = NoDevice
    RefreshTTL = 2
    AccessTTL = 1
    Grace = 1
    MaxTime = 0
    SerialTx = FALSE
SYMMETRY Symmetric
SPECIFICATION Spec
INVARIANTS LogoutRevokesFamily
