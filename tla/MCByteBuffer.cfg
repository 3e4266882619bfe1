\* Two byte values, trunks of two bytes, at most five bytes waiting.
SPECIFICATION Spec
CONSTANTS
    Zero = Zero
    other = other
    Bytes = {Zero, other}
    Trunk = 2
    MaxPending = 5
INVARIANTS MemoryBounded BufferInv
PROPERTY FifoKept
