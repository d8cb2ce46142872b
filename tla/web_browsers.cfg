\* Two tabs of four browsers: with locks, with two users, with a slow clock, without locks.
CONSTANTS
    t1 = t1 t2 = t2 c1 = c1 c2 = c2 c3 = c3 u1 = u1 u2 = u2
    Tab = {t1, t2}
    Call = {c1, c2}
    Home <- TwoTabs
    User = {u1, u2}
    NoUser = NoUser
    TTL = 1
    MaxRows = 5
    Skew = 0
    Setting <- Browsers
SYMMETRY Swap
SPECIFICATION Spec
INVARIANTS NothingReplayed QuietTokensAgree QueriesOfItsTokens
PROPERTIES CookieComesBackBySignIn RacesKeepTheSession
CHECK_DEADLOCK FALSE
