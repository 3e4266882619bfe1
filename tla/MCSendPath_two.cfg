\* A second thread sends on the connection.
SPECIFICATION Spec
CONSTANTS
    owner = owner
    app = app
    Threads = {owner, app}
    Owner = owner
    Buffer = {FALSE}
    FlushAt = 0
    Lens = {2}
    MaxMsgs = 2
    MaxRoom = 2
INVARIANT WireInOrder
CHECK_DEADLOCK FALSE
