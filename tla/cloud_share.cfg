SPECIFICATION FairSpec
CONSTANTS
    Rooms = {r1, r2}
    NoRoom = NoRoom
    Streams = {s1, s2}
    NoStream = NoStream
    Main = Main
    Workers = {w1}
INVARIANTS
    OneOwner
PROPERTIES
    ShareGoesQuiet
    ShareComesUp
