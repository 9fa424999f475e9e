SPECIFICATION Spec
CONSTANTS
    f1 = f1
    NoFlow = NoFlow
    Flows = {f1}
    MAXSEQ = 7
    MAX_LEN_OF_BA_REC_TABLE = 2
    MAX_REORDERING_MPDU_NUM = 2
    RxBAWinLimit = 3
    DefaultWin = 3
    BufSizes = {3}
    FirstFrame = 16
    MaxFrames = 4
    EapFrames = {}
    MaxAdds = 2
    MaxUpsets = 1
CHECK_DEADLOCK FALSE
PROPERTY TakenEmpty
