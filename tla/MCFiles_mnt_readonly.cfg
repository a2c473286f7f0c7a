SPECIFICATION Spec
CONSTANTS
    SECTOR = 2
    PAGE_SIZE = 4
    PAGE_CACHE_SIZE = 3
    TARFS_READAHEAD = 2
    JUNK = JUNK
    STALE = STALE
    RAW = RAW
    Task <- Tasks
    RootPath <- Roots
    Disk <- SomeDisk
    Initrd <- SomeInitrd
    Paths <- SomePaths
    Listed <- SomeListed
    BootReads <- SomeBoot
    PATH_NAMES = 2
    FD_MAX = 4
    MEMFS_MIN = 1
    Bytes = {u, v}
    Lens = {5}
    EXEC_LEN = 9
    Faulty = {1}
    MAX_WRITE = 2
    MAX_SIZE = 2
    MAX_CREATED = 2
    MAX_FREED = 1
VIEW View
PROPERTY MntIsReadOnly
