\* Two players, every kind of question and every rule setting.
CONSTANTS
    NoPlayer = NoPlayer
    Players = {p1, p2}
    Questions <- AllQuestions
    Texts = {"x"}
    Options = {"a", "b"}
    RightOption = "a"
    RuleSets <- AnyRules
    ThinkTime = 2
    ReflectionTime = 1
    Cells = 1
    MaxOutcomes = 1
SYMMETRY Symmetry
SPECIFICATION Spec
INVARIANTS Driven OneClock ArmedSound OneAttemptEach
PROPERTIES ThinkingNeverRefills
