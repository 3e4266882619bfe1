\* The owner and another thread send on one connection.
SPECIFICATION FairSpec
CONSTANTS
    owner = owner
    app = app
    Threads = {owner, app}
    Owner = owner
    Buffer = {TRUE, FALSE}
    FlushAt = 0
    Lens = {1, 3}
    MaxMsgs = 3
    MaxRoom = 2
INVARIANTS AloneInOrder NothingDropped
PROPERTIES Flushed CallsReturn
CHECK_DEADLOCK FALSE
