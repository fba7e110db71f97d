SPECIFICATION Spec
CONSTANTS
    Headsets = {h1, h2}
    Nobody = Nobody
    MaxFails = 2
    Cooldown = 2
    Window = 1
    MaxTime = 5
    MaxIds = 3
SYMMETRY Symmetry
INVARIANTS
    ThrottleRate
    OnlyNewestAccepted
    PreviousGets410
PROPERTY
    PairsOneHeadset
