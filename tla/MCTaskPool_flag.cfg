\* One connection, built with whatever its memory held.
SPECIFICATION ServeSpec
CONSTANTS
    t1 = t1
    Tasks = {t1}
    NoTask = NoTask
    NVerify = 1
    NOkay = 1
    ConnPerThread = 1
    MaxRuns = 1
INVARIANT FlagTruthful
