SPECIFICATION FairSpec
CONSTANTS
    VQ = 3
    Buffers = {b1, b2, b3, b4}
    NoBuf = NoBuf
    MaxFrames = 4
    MaxToggles = 2
INVARIANTS
    BufferExclusive
    InFlightIntact
    QuietWhilePaused
PROPERTIES
    RelayIsFifo
    StopJoins
    FramesLeave
