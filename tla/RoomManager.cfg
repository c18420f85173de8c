SPECIFICATION FairSpec
CONSTANTS
    Callers = {"c1"}
    Creators = {"m1"}
    MaxRooms = 2
    MailboxSize = 1
    MaxIds = 2
PROPERTIES EveryCallReturns ShutdownEndsRooms
CHECK_DEADLOCK FALSE
