\* Small and large records, one segment, no failures: is the log in the
\* order of the fdht_binlog_write calls?
CONSTANTS
    Peers = {p1}
    Appenders = {w1}
    Ops = {"SOURCE_SET"}
    RecLens = {2, 3}
    BuffSize = 3
    MaxFileSize = 100
    MarkEvery = 2
    Untils = {0}
    MaxAppends = 2
    MaxTime = 1
    MaxSeg = 0
    MaxDepth = 1
    Crashes = FALSE
    NetFails = FALSE
    FirstStart = FALSE
SPECIFICATION Spec
INVARIANT LogOrder
