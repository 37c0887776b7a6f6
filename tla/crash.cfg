\* Buffered records only, segments of three units: the first flush does not
\* rotate, the next does.  The process may crash at any step and requests to
\* the peer may fail.
CONSTANTS
    Peers = {p1}
    Appenders = {w1}
    Ops = {"SOURCE_SET", "REPLICA_SET"}
    RecLens = {2}
    BuffSize = 3
    MaxFileSize = 3
    MarkEvery = 2
    Untils = {0, 2}
    MaxAppends = 3
    MaxTime = 2
    MaxSeg = 4
    MaxDepth = 2
    Crashes = TRUE
    NetFails = TRUE
    FirstStart = TRUE
SPECIFICATION Spec
INVARIANT TypeOK MarkNeverAheadInSegment MarkAtBoundary
\* The server may stop for good: a kill or a stack overflow while
\* binlog.index is truncated leaves it unable to start.
CHECK_DEADLOCK FALSE
