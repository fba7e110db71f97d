SPECIFICATION Spec
CONSTANTS
    Headsets = {h1}
    Nobody = Nobody
    Conns = {c1}
    Main = Main
    Workers = {w1, w2}
    NoWorker = NoWorker
    WarmResume = TRUE
    MaxClicks = 0
INVARIANT
    ReacceptInScope
CHECK_DEADLOCK FALSE
