\* Two players, two questions: an arm can outlive the question it was for.
CONSTANTS
    NoPlayer = NoPlayer
    Players = {p1, p2}
    MaxQuestions = 2
SPECIFICATION FairSpec
INVARIANTS ArmFollowsEngine
PROPERTIES RacesAreFair ArmStays RaceEnds
