\* Parents wait for children with CPU quotas of 1 tick in a period of 5; every program may
\* exit, and the watchdog brings the shell back.
CONSTANTS
    MAX_TASKS = 2
    MLFQ_AGING_TICKS = 3
    QUOTA_PERIOD_TICKS = 5
    WATCHDOG_TICKS = 1
    TICK_WRAP = 5
    WD_MAX_RESTARTS = 1
    WD_UNSTABLE_LIMIT = 2
    WD_BACKOFF_BASE = 1
    WD_UNSTABLE_TICKS = 1
    Calls <- WaitCalls
    CpuQuotas <- QuotaOf20
    ForkTiers <- AsUser
    Tiers <- NoTiers

SPECIFICATION RestartSpec

INVARIANTS
    QuotaOverrunBounded

PROPERTIES
    NoDispatchOverQuota
    WaitReturns
    ShellRestartedWhenIdle
