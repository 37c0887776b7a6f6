\* One appender whose buffered records fill 2-unit segments, one peer, no
\* crash and no failed request: does a sync thread that reaches the end of
\* a segment lose a record the writer flushes into it just then?
CONSTANTS
    Peers = {p1}
    Appenders = {w1}
    Ops = {"SOURCE_SET"}
    RecLens = {2}
    BuffSize = 3
    MaxFileSize = 2
    MarkEvery = 2
    Untils = {0}
    MaxAppends = 2
    MaxTime = 1
    MaxSeg = 2
    MaxDepth = 1
    Crashes = FALSE
    NetFails = FALSE
    FirstStart = FALSE
SPECIFICATION Spec
INVARIANT MarkNeverAhead
