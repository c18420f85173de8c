SPECIFICATION FairSpec
CONSTANTS
    Callers = {"c1"}
    Creators = {"m1"}
    MaxRooms = 2
    MailboxSize = 1
    MaxIds = 1
PROPERTY UnstoredRoomsAnswer
CHECK_DEADLOCK FALSE
