\* A select question with three options, three players.
CONSTANTS
    NoPlayer = NoPlayer
    Players = {p1, p2, p3}
    Questions <- SelectQuestions
    Texts = {"x"}
    Options = {"a", "b", "c"}
    RightOption = "a"
    RuleSets <- OpenContent
    ThinkTime = 0
    ReflectionTime = 1
    Cells = 1
    MaxOutcomes = 0
SYMMETRY Symmetry
SPECIFICATION Spec
PROPERTY OptionsLeftKeepItOpen
