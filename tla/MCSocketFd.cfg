\* Two connections, of which the second may get the number of the first.
SPECIFICATION FairSpec
CONSTANTS
    c1 = c1
    c2 = c2
    Conns = {c1, c2}
    None = None
    Junk = Junk
    Fds = {5, 6}
INVARIANTS AloneUnharmed NoneLeft
PROPERTIES ClosedGivenBack
CHECK_DEADLOCK FALSE
