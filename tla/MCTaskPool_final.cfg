\* One connection, and the stop at any time: two okay threads, the first of which
\* may be started twice.
SPECIFICATION Spec
CONSTANTS
    t1 = t1
    Tasks = {t1}
    NoTask = NoTask
    NVerify = 1
    NOkay = 2
    ConnPerThread = 1
    MaxRuns = 2
CONSTRAINT FirstRunsTwice
ACTION_CONSTRAINT RoundsFindSomething
CHECK_DEADLOCK FALSE
INVARIANTS SingleOwner ReceiverExists OnlyUnreadLeft
PROPERTY ConnectionLifeKept
