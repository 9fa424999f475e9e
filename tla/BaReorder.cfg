SPECIFICATION Spec
CONSTANTS
    f1 = f1
    f2 = f2
    NoFlow = NoFlow
    Flows = {f1, f2}
    MAXSEQ = 7
    MAX_LEN_OF_BA_REC_TABLE = 2
    MAX_REORDERING_MPDU_NUM = 2
    RxBAWinLimit = 3
    DefaultWin = 3
    BufSizes = {0, 1}
    FirstFrame = 16
    MaxFrames = 4
    EapFrames = {17}
    MaxAdds = 2
    MaxUpsets = 1
SYMMETRY Symmetry
\* the bounds on frames and sessions let the instance stop
CHECK_DEADLOCK FALSE
INVARIANTS
    TypeOK
    BlocksAccounted
    ListInWindow
    TableConsistent
    NoReorder
    NoDuplicate
    AckedNotLost
