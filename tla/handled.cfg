\* One connection, up to two requests, under the fairness of the event loop
\* and the worker threads, with every event_add and realloc failure path.
\* The client stops, so the model may end with the connection closed.
CONSTANTS
    Conns = {c1}
    Reqs <- MCReqs
    MaxReqs = 2
    HeaderSize = 2
    MaxPkgSize = 3
    MinBuffSize = 2
    Bits = 8
    GarbageLens <- MCGarbageLens
    EventAddFails = TRUE
    AllocFails = TRUE
SPECIFICATION FairSpec
PROPERTY EventuallyHandled
CHECK_DEADLOCK FALSE
