\* CPU quotas of 1 tick in a period of 6, for three USER tasks.
CONSTANTS
    MAX_TASKS = 3
    MLFQ_AGING_TICKS = 3
    QUOTA_PERIOD_TICKS = 6
    WATCHDOG_TICKS = 2
    TICK_WRAP = 6
    WD_MAX_RESTARTS = 1
    WD_UNSTABLE_LIMIT = 2
    WD_BACKOFF_BASE = 1
    WD_UNSTABLE_TICKS = 1
    Calls <- ExecCalls
    CpuQuotas <- QuotaOf30
    ForkTiers <- AsUser
    Tiers <- NoTiers

SPECIFICATION Spec

INVARIANTS
    NoTaskLinkedTwice
