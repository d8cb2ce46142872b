\* Two concurrent requests of one mobile against its limits: four sessions are enough for
\* the hourly limit to be passed, and the lockout by the two codes that were under way.
CONSTANTS
    Session = {s1, s2, s3, s4}
    Mobile = {m1}
    Ip = {i1}
    Proc = {p1, p2}
    NoSession = NoSession NoMobile = NoMobile NoIp = NoIp
    MaxAttempts = 1
    MaxSends = 1
    TTL = 1
    Cooldown = 1
    Hour = 0
    Lockout = 1
    LockThreshold = 1
    MaxPerMobile = 2
    MaxPerIp = 2
    MaxTime = 1
    MayCrash = FALSE
SYMMETRY Symmetric
SPECIFICATION Spec
INVARIANTS LimitsHoldUpToConcurrency OneLiveCodePerRequest LockoutHolds ExhaustedIsClosed
