\* Two connections and one place.
SPECIFICATION ServeSpec
CONSTANTS
    t1 = t1
    t2 = t2
    Tasks = {t1, t2}
    NoTask = NoTask
    NVerify = 1
    NOkay = 1
    ConnPerThread = 1
    MaxRuns = 1
SYMMETRY Symmetry
INVARIANT CapacityKept
