\* A flush of the buffer fills a segment while the buffer is reset only
\* after open_next_writable_binlog: are the segments still contiguous?
CONSTANTS
    Peers = {p1}
    Appenders = {w1}
    Ops = {"SOURCE_SET"}
    RecLens = {2, 3}
    BuffSize = 3
    MaxFileSize = 2
    MarkEvery = 2
    Untils = {0}
    MaxAppends = 3
    MaxTime = 1
    MaxSeg = 3
    MaxDepth = 2
    Crashes = FALSE
    NetFails = FALSE
    FirstStart = FALSE
SPECIFICATION Spec
INVARIANT SegmentsContiguous
\* The server may stop for good: a kill or a stack overflow while
\* binlog.index is truncated leaves it unable to start.
CHECK_DEADLOCK FALSE
