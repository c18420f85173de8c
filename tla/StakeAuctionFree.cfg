\* A cell of price 0.
CONSTANTS
    NoPlayer = NoPlayer
    Players = {p1, p2, p3}
    Scores <- FreeScores
    Amounts = {0, 1, 2, 3}
    Nominal = 0
    Step = 2
    MaxEdits = 1
\* The module stops where the content begins.
CHECK_DEADLOCK FALSE
SPECIFICATION Spec
INVARIANTS WonByTheLast
PROPERTIES AllInStands
