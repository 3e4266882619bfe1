\* Three packets of two or three bytes, of which three are too many.
SPECIFICATION FairSpec
CONSTANTS
    Lens = {2, 3}
    MaxData = 2
    MaxFrames = 3
INVARIANTS InOrder FaultCloses NothingLost QueueWhole
PROPERTIES Delivered CloseNoticed
CHECK_DEADLOCK FALSE
