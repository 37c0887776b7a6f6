\* Buffered records into 2-unit segments, so that a flush rotates; the
\* process may be killed at any step.  Does every restart find binlog.index
\* readable?
CONSTANTS
    Peers = {p1}
    Appenders = {w1}
    Ops = {"SOURCE_SET"}
    RecLens = {2}
    BuffSize = 3
    MaxFileSize = 2
    MarkEvery = 2
    Untils = {0}
    MaxAppends = 2
    MaxTime = 1
    MaxSeg = 2
    MaxDepth = 2
    Crashes = TRUE
    NetFails = FALSE
    FirstStart = FALSE
SPECIFICATION Spec
INVARIANT RestartSucceeds
CHECK_DEADLOCK FALSE
