\* A cell of price 0, the timers only.
CONSTANTS
    NoPlayer = NoPlayer
    Players = {p1, p2, p3}
    Scores = {3}
    Amounts = {0, 1, 2, 3}
    Nominal = 0
    Step = 2
    MaxEdits = 0
\* The module stops where the content begins.
CHECK_DEADLOCK FALSE
SPECIFICATION FairSpec
PROPERTY EndsByTimers
