SPECIFICATION FairSpec
CONSTANTS
    Headsets = {h1}
    Nobody = Nobody
    Conns = {c1}
    Main = Main
    Workers = {w1, w2}
    NoWorker = NoWorker
    WarmResume = FALSE
    MaxClicks = 0
PROPERTY
    TeardownEnds
CHECK_DEADLOCK FALSE
