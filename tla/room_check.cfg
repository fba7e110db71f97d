SPECIFICATION RouterFairSpec
CONSTANTS
    Owner = owner
    Strangers = {s1, s2}
    Nobody = Nobody
    QueueMax = 1
    Threshold = 1
    MaxChecks = 2
INVARIANTS
    OneVerdict
PROPERTIES
    CheckEnds
    StrangersSilenced
