\* Two closed segments of up to two records and an empty current one; the
\* operator runs the tool twice in any mode; reads, writes, opens and the
\* rename may fail and the tool may be killed between any two steps, while
\* a peer reads the same segments from its mark.
CONSTANTS
    Keys <- MCKeys
    Shapes <- MCShapesSmall
    MaxRecs = 2
    CurRecs = 0
    CurIndex = 2
    Modes = {"all", "auto", "single"}
    MaxRuns = 2
    IoFails = TRUE
    Crashes = TRUE
    MarkSegs = {0, 1, 2}
SPECIFICATION Spec
INVARIANT TypeOK CompactionSound IndexSound
