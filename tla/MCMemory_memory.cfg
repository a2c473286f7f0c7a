SPECIFICATION Spec
CONSTANTS
    Frame <- Frames
    Slot <- Slots
    TABLE_SIZE = 2
    LAST_PAGE = 3
    Programs <- SomePrograms
    MEM_LIMITS <- Limits
    MAX_KERNEL_FRAMES = 1
INVARIANTS NoFrameTwice RefCountsMapped
PROPERTIES EnoughFramesSuffice ImageAllOrNothing ExitFreesAll
VIEW View
