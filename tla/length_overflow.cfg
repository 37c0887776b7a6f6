\* 5-bit ints: a request whose pkg_len is INT_MAX.
CONSTANTS
    Conns = {c1}
    Reqs <- MCOverflowReqs
    MaxReqs = 2
    HeaderSize = 2
    MaxPkgSize = 8
    MinBuffSize = 2
    Bits = 5
    GarbageLens <- MCGarbageLens
    EventAddFails = FALSE
    AllocFails = TRUE
SPECIFICATION Spec
PROPERTY FramerRefined
CHECK_DEADLOCK FALSE
