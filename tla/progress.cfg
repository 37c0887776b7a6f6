\* Every record is written directly and fills a segment: each write rotates.
\* One peer, reliable requests, no crash; threads are weakly fair.  Safety
\* of tailing and of rotation, and delivery once rotation completes.
CONSTANTS
    Peers = {p1}
    Appenders = {w1}
    Ops = {"SOURCE_SET", "REPLICA_SET"}
    RecLens = {3}
    BuffSize = 3
    MaxFileSize = 3
    MarkEvery = 2
    Untils = {0}
    MaxAppends = 3
    MaxTime = 2
    MaxSeg = 3
    MaxDepth = 1
    Crashes = FALSE
    NetFails = FALSE
    FirstStart = TRUE
SPECIFICATION FairSpec
INVARIANT MarkNeverAheadInSegment MarkAtBoundary DeliveredOnce WriterOnIndexedSegment
PROPERTY ReaderFollowsWriter
