SPECIFICATION FairSpec
CONSTANTS
    Desktop = Desktop
    Terminal = Terminal
    Cameras = {cam}
    Files = {file, bad}
    Playlists = {list}
    Broken = {bad}
    Nothing = Nothing
    Backends = {b1, b2}
    NoBackend = NoBackend
    MaxRequests = 2
INVARIANTS
    TerminalsOwned
    ShowsChoice
PROPERTIES
    StopEnds
    DeadShellLeaves
