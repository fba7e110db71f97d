SPECIFICATION Spec
CONSTANTS
    Headsets = {h1}
    Nobody = Nobody
    Conns = {c1}
    Main = Main
    Workers = {w1, w2}
    NoWorker = NoWorker
    WarmResume = FALSE
    MaxClicks = 0
INVARIANT
    OneEncoder
CHECK_DEADLOCK FALSE
