SPECIFICATION VoiceFairSpec
CONSTANTS
    MaxRounds = 3
    MaxTools = 2
INVARIANT
    RunsOnlySent
PROPERTIES
    StopStopsTools
    CycleEnds
CHECK_DEADLOCK FALSE
