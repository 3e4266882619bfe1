\* More may wait: the block grows.
SPECIFICATION Spec
CONSTANTS
    Lens = {2, 3}
    MaxPackets = 3
    Zero = Zero
    Trunk = 4
    MaxPending = 6
    Epoll = "epoll"
INVARIANT ApartInBlock
CHECK_DEADLOCK FALSE
