\* One "all" run over two closed segments, no failures; the peer starts at
\* the beginning of the log with an empty table and reads while the tool
\* runs.
CONSTANTS
    Keys <- MCKeys
    Shapes <- MCShapesSmall
    MaxRecs = 2
    CurRecs = 0
    CurIndex = 2
    Modes = {"all"}
    MaxRuns = 1
    IoFails = FALSE
    Crashes = FALSE
    MarkSegs = {0}
SPECIFICATION Spec
INVARIANT PeerConverges
