\* Two players and two answers; a plain question and a hidden one.
CONSTANTS
    Players = {1, 2}
    Texts = {"known", "other"}
    Exact = {"known"}
    Fuzzy <- OneExact
    Setups <- EachMode
    Plain = {"q1"}
    Hidden = {"q2"}
    CacheSize = 1
\* The table runs out of questions.
CHECK_DEADLOCK FALSE
SPECIFICATION FairSpec
INVARIANTS ConfirmationIsCurrent RequestsAreBounded
PROPERTIES EarlyVerdictStands EveryAnswerIsJudged
