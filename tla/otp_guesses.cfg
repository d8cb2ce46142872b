\* Three requests, any of which may be abandoned, guess, resend and consume one session.
CONSTANTS
    Session = {s1}
    Mobile = {m1}
    Ip = {i1}
    Proc = {p1, p2, p3}
    NoSession = NoSession NoMobile = NoMobile NoIp = NoIp
    MaxAttempts = 2
    MaxSends = 2
    TTL = 1
    Cooldown = 1
    Hour = 2
    Lockout = 2
    LockThreshold = 1
    MaxPerMobile = 3
    MaxPerIp = 3
    MaxTime = 2
    MayCrash = TRUE
SYMMETRY Symmetric
SPECIFICATION Spec
INVARIANTS EveryGuessCostsAnAttempt SingleUse
PROPERTIES SendsAreSpaced ClosedStaysClosed
