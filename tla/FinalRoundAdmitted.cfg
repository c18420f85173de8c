\* Two players, tied, with a leader or with only one above zero.
CONSTANTS
    NoPlayer = NoPlayer
    Players = {1, 2}
    Setups <- TieLeaderAlone
    MaxThemes = 4
    MaxCells = 2
    ForAllCells <- FirstIsForAll
    Price = 2
    Stakes = {1, 2}
    Corrections = {0}
    Texts = {"x"}
    MaxEvents = 2
\* The module stops where the round ends.
CHECK_DEADLOCK FALSE
SPECIFICATION Spec
INVARIANT AdmittedAtTheStart
