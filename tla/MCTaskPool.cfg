\* The pool at work: two connections, one verify thread, and one okay thread that
\* may be started twice.
SPECIFICATION ServeSpec
CONSTANTS
    t1 = t1
    t2 = t2
    Tasks = {t1, t2}
    NoTask = NoTask
    NVerify = 1
    NOkay = 1
    ConnPerThread = 1
    MaxRuns = 2
SYMMETRY Symmetry
CONSTRAINT LateWithOneRun
INVARIANTS SingleOwner NoneLost StateOfPlace ContainerExact UniqueHeld CountsTrue IteratorsValid
