\* Expected violation: the thinking time ends the question under a race.
CONSTANTS
    NoPlayer = NoPlayer
    Players = {p1, p2}
    MaxQuestions = 1
SPECIFICATION Spec
PROPERTIES RaceIsRun
