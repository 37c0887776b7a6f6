\* One worker thread and one sync thread, small and large records, segments
\* of three units, no crash: does a peer ever get bytes that are not one
\* record once the writer lock has been destroyed by a rotation?
CONSTANTS
    Peers = {p1}
    Appenders = {w1}
    Ops = {"SOURCE_SET"}
    RecLens = {2, 3}
    BuffSize = 3
    MaxFileSize = 3
    MarkEvery = 2
    Untils = {0}
    MaxAppends = 3
    MaxTime = 1
    MaxSeg = 4
    MaxDepth = 2
    Crashes = FALSE
    NetFails = FALSE
    FirstStart = FALSE
SPECIFICATION Spec
INVARIANT DeliveredIntact
