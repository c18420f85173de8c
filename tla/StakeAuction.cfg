\* Three players, scores in halves of a step, one CHANGE_SCORE.
CONSTANTS
    NoPlayer = NoPlayer
    Players = {p1, p2, p3}
    Scores = {1, 3, 6}
    Amounts = {1, 2, 3, 4, 5, 6, 7}
    Nominal = 2
    Step = 2
    MaxEdits = 1
\* The module stops where the content begins.
CHECK_DEADLOCK FALSE
SPECIFICATION FairSpec
INVARIANTS WonByTheLast
PROPERTIES AllInStands AuctionEnds
