SPECIFICATION Spec
CONSTANTS
    Names = {ann, bob}
    Modes = {"human", "ai"}
    JoinModes = {"any", "viewersOnly"}
    MaxPlayers = 2
    EngineMax = 2
    MaxPersons = 3
    MaxSockets = 3
SYMMETRY NamesAlike
INVARIANTS SeatsFollowSockets SocketsAreOwned OneOfEach
PROPERTIES SeatsAreKept
CHECK_DEADLOCK FALSE
