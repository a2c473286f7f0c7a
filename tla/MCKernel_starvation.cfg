\* One SYSTEM task and three USER tasks that may never yield.
CONSTANTS
    MAX_TASKS = 4
    MLFQ_AGING_TICKS = 6
    QUOTA_PERIOD_TICKS = 6
    WATCHDOG_TICKS = 6
    TICK_WRAP = 6
    WD_MAX_RESTARTS = 1
    WD_UNSTABLE_LIMIT = 2
    WD_BACKOFF_BASE = 1
    WD_UNSTABLE_TICKS = 1
    Calls <- ForkYieldCalls
    CpuQuotas <- Inherit
    ForkTiers <- AsUser
    Tiers <- NoTiers

SPECIFICATION FairSpec

PROPERTIES
    ReadyEventuallyRuns
