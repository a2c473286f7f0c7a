SPECIFICATION Spec
VIEW View
CONSTANTS
    BUFFER_SIZE = 3
    VGA_WIDTH = 4
    VGA_HEIGHT = 2
    CMD_MAX = 4
    HIST_MAX = 3
    CAND_MAX = 3
    CAND_LEN = 4
    MAX_KIDS = 2
    Dirs <- SmallDirs
    Setups <- AllSetups
INVARIANTS TypeOK ShiftFollowsHands LocksFollowHands ScreenShowsLine RowsTerminated HistoryKeepsLines ShiftCountsKeys
PROPERTIES RingIsFifo
CHECK_DEADLOCK FALSE
