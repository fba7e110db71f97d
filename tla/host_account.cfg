SPECIFICATION FairSpec
CONSTANTS
    Web = web
    Main = main
    Joiners = {}
    Accounts = {alice}
    NoToken = NoToken
    Sockets = {s1, s2, s3}
    NoSocket = NoSocket
    NoFile = NoFile
INVARIANT LogoutLasts
INVARIANT SocketsKept
PROPERTY PresenceReturns
