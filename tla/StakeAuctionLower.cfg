\* A bid below the stake.
CONSTANTS
    NoPlayer = NoPlayer
    Players = {p1, p2, p3}
    Scores = {3, 6}
    Amounts = {1, 2, 3, 4, 5, 6, 7}
    Nominal = 2
    Step = 2
    MaxEdits = 0
CHECK_DEADLOCK FALSE
SPECIFICATION Spec
PROPERTY StakeNeverFalls
