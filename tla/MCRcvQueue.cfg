\* At most half a trunk is waiting: the block never moves.
SPECIFICATION Spec
CONSTANTS
    Lens = {2, 3}
    MaxPackets = 5
    Zero = Zero
    Trunk = 12
    MaxPending = 6
    Epoll = "epoll"
INVARIANTS PacketsRight ApartInBlock
CHECK_DEADLOCK FALSE
