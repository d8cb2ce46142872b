\* Two syncs of five registries; one sync under two requests of a server.
CONSTANTS
    k = k v = v w = w s1 = s1 s2 = s2 q1 = q1 q2 = q2
    NoRow = NoRow
    Key = {k}
    Value = {v, w}
    Critical = {k}
    Enforced = TRUE
    TTL = 1
    MaxTime = 2
    Sync = {s1, s2}
    Reader = {q1, q2}
    Registry <- Registries
    Scene <- Scenes
SYMMETRY Alike
SPECIFICATION Spec
INVARIANTS NoOverlapUnlessRaced ClosedMakesRoom AnswersAreFresh
PROPERTIES ValuesImmutable SyncApplies
