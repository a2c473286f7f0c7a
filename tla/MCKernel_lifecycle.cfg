\* Processes fork, exit, wait for and kill each other in three slots; the shell dies and
\* is restarted.
CONSTANTS
    MAX_TASKS = 3
    MLFQ_AGING_TICKS = 3
    QUOTA_PERIOD_TICKS = 4
    WATCHDOG_TICKS = 1
    TICK_WRAP = 2
    WD_MAX_RESTARTS = 1
    WD_UNSTABLE_LIMIT = 2
    WD_BACKOFF_BASE = 1
    WD_UNSTABLE_TICKS = 1
    Calls <- LifecycleCalls
    CpuQuotas <- Inherit
    ForkTiers <- Inherit
    Tiers <- NoTiers

SPECIFICATION Spec

INVARIANTS
    ParentAlive
    WaiterHasLiveChild
    WatchdogTaskIsOurs
    IdleOnlyWhenNothingElse

PROPERTIES
    NoResurrection
