\* Three players.
CONSTANTS
    NoPlayer = NoPlayer
    Players = {1, 2, 3}
    Setups <- SecretsTurnsManaged
    Price = 1
    HighPrice = 2
    MaxStaff = 1
    MaxBreaks = 2
\* The module stops when the game is over.
CHECK_DEADLOCK FALSE
SPECIFICATION FairSpec
INVARIANTS TurnsGoRound
PROPERTIES RoundsArePlayed GameEnds ReturnLeavesNoTrace SecretIsGiven
