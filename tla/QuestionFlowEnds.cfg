\* Two players, no managed or oral rules: the timers alone finish a question.
CONSTANTS
    NoPlayer = NoPlayer
    Players = {p1, p2}
    Questions <- TimedQuestions
    Texts = {"x"}
    Options = {"a", "b", "c"}
    RightOption = "a"
    RuleSets <- OpenContent
    ThinkTime = 1
    ReflectionTime = 1
    Cells = 1
    MaxOutcomes = 0
SPECIFICATION FairSpec
PROPERTY QuestionEnds
