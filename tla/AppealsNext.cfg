\* Two questions, the second chosen while an appeal about the first is open.
CONSTANTS
    NoPlayer = NoPlayer
    Showman = showman
    Players = {p1, p2, p3}
    QuestionKinds = {"button", "direct", "hidden"}
    PriceRight = 2
    PriceWrong = 1
    Cells = 2
    MinAgainst = 2
    MaxOutcomes = 1
    MaxQuestions = 2
    MaxAway = 1
\* The model stops at the end of the round.
CHECK_DEADLOCK FALSE
SYMMETRY Symmetry
SPECIFICATION Spec
INVARIANT AppealLandsOnItsOutcome
