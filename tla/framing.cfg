\* Two connections sharing the one task, up to two requests each, realloc
\* failures; no event_add failures.  Clients stop, so the model may end with
\* every connection closed.
CONSTANTS
    Conns = {c1, c2}
    Reqs <- MCReqs
    MaxReqs = 2
    HeaderSize = 2
    MaxPkgSize = 3
    MinBuffSize = 2
    Bits = 8
    GarbageLens <- MCGarbageLens
    EventAddFails = FALSE
    AllocFails = TRUE
SPECIFICATION Spec
INVARIANT TypeOK NoHeapOverflow
PROPERTY FramerRefined
SYMMETRY Symmetry
CHECK_DEADLOCK FALSE
