\* Programs compute, yield, exec and change tiers in every way the kernel offers, memory
\* pressure included; levels rise and age.
CONSTANTS
    MAX_TASKS = 2
    MLFQ_AGING_TICKS = 3
    QUOTA_PERIOD_TICKS = 2
    WATCHDOG_TICKS = 2
    TICK_WRAP = 3
    WD_MAX_RESTARTS = 1
    WD_UNSTABLE_LIMIT = 2
    WD_BACKOFF_BASE = 1
    WD_UNSTABLE_TICKS = 1
    Calls <- ComputeCalls
    CpuQuotas <- Inherit
    ForkTiers <- InheritOrUser
    Tiers <- FromZeroToCritical

SPECIFICATION Spec

INVARIANTS
    TypeOK
    QueuesHoldTheReady

PROPERTIES
    NoInversionAcrossTick
