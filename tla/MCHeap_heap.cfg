SPECIFICATION Spec
CONSTANTS
    PAGE_SIZE = 8
    HEAP_INIT_PAGES = 1
    MAX_PAGES = 3
    Requests = {1, 3, 9}
    DATA = DATA
    MAX_LIVE = 5
INVARIANTS TagsAgree FreeListExact DataKept AllFreedIsOneBlock
PROPERTIES TagsImplementBlocks
VIEW View
