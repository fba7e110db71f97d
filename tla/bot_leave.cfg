SPECIFICATION FairSpec
CONSTANTS
    Web = web
    Main = main
    Assistants = {}
    Rooms = {r1, r2}
    NoRoom = NoRoom
    FollowConfirm = 2
    MaxRequests = 2
    MaxMoves = 1
CHECK_DEADLOCK FALSE
PROPERTY TickKeepsOut
