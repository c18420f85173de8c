SPECIFICATION Spec
CONSTANTS
    q1 = q1
    q2 = q2
    a = a
    Clients = {c1, c2}
    GC = gc
    PackIds = {p1, p2}
    Contents = {a, b}
    Questions = {q1, q2}
    Text = text
    Bodies <- MCBodies
    MaxVersion = 2
    MaxRequests = 3
    MaxCrashes = 0
PROPERTY EditsNeverOverwrite
CHECK_DEADLOCK FALSE
