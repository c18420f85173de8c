\* One question: appeals one after another in the selection.
CONSTANTS
    NoPlayer = NoPlayer
    Showman = showman
    Players = {p1, p2, p3}
    QuestionKinds = {"button", "direct", "hidden"}
    PriceRight = 2
    PriceWrong = 1
    Cells = 2
    MinAgainst = 2
    MaxOutcomes = 2
    MaxQuestions = 1
    MaxAway = 1
\* The model stops at the end of the round.
CHECK_DEADLOCK FALSE
SYMMETRY Symmetry
SPECIFICATION Spec
INVARIANT ChooserIsAsked
