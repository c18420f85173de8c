SPECIFICATION FairSpec
CONSTANTS
    q1 = q1
    q2 = q2
    a = a
    Clients = {c1, c2}
    GC = gc
    PackIds = {p1, p2}
    Contents = {a, b}
    Questions = {q1, q2}
    Text = text
    Bodies <- MCBodies
    MaxVersion = 2
    MaxRequests = 4
    MaxCrashes = 1
INVARIANTS ReferencesHold BytesUnlessRaced
PROPERTIES EditsCompose GarbageIsCollected
CHECK_DEADLOCK FALSE
