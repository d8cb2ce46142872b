\* Two tabs on an unreliable network; one tab that two users sign in to.
CONSTANTS
    t1 = t1 t2 = t2 c1 = c1 c2 = c2 c3 = c3 u1 = u1 u2 = u2
    Tab = {t1, t2}
    Call = {c1, c2, c3}
    Home <- TwoTabs
    User = {u1, u2}
    NoUser = NoUser
    TTL = 1
    MaxRows = 4
    Skew = 0
    Setting <- Pages
SPECIFICATION FairSpec
PROPERTIES CallsEnd
CHECK_DEADLOCK FALSE
