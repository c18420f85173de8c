\* Three players: the rotation by one of a cycle of three.
CONSTANTS
    NoPlayer = NoPlayer
    Players = {1, 2, 3}
    Setups <- ThreeAtTheTable
    MaxThemes = 3
    MaxCells = 2
    ForAllCells <- FirstIsForAll
    Price = 2
    Stakes = {1, 2}
    Corrections = {0}
    Texts = {"x"}
    MaxEvents = 1
\* The module stops where the round ends.
CHECK_DEADLOCK FALSE
SPECIFICATION Spec
INVARIANT DeletionsAreShared
PROPERTIES TopGroupDeletesLast EveryAnswerIsJudged
