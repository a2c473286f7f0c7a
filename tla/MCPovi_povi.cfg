SPECIFICATION Spec
CONSTANTS
    Letters = {"x", "i"}
    UI_ROWS = 2
    Files <- SmallFiles
    MAX_TEXT = 3
    MAX_CMD = 2
INVARIANTS CursorInBounds CursorOnScreen CleanMeansSaved
PROPERTIES EditsAreLocal
CHECK_DEADLOCK FALSE
