------------------------------- MODULE Kernel -------------------------------
(***************************************************************************)
(* The life of tasks: the timer interrupt of kernel/sched.c, the process   *)
(* system calls of kernel/process.c and kernel/syscall.c, the watchdog of  *)
(* kernel/watchdog.c and the idle loop of kernel/kernel.c, on one CPU.     *)
(*                                                                         *)
(* int 0x80 and the PIT enter through interrupt gates, so a system call    *)
(* and the timer handler run with interrupts off and are one step each.    *)
(* sys_wait is left in the middle (it blocks inside its loop) and is       *)
(* continued by WaitResume.  The idle loop runs with interrupts on: the    *)
(* timer may strike between any two of its steps.                          *)
(***************************************************************************)
EXTENDS Sched

CONSTANTS
    WATCHDOG_TICKS,     \* ticks between two calls of watchdog_tick (50)
    TICK_WRAP,          \* tick_count counts modulo this (2^32 in the code)
    WD_MAX_RESTARTS, WD_UNSTABLE_LIMIT, WD_BACKOFF_BASE, WD_UNSTABLE_TICKS,
    Calls,              \* the system calls the programs of this instance issue
    CpuQuotas,          \* cpu_quota values passed to fork_with_sandbox, 0 = inherit
    ForkTiers,          \* tier_override values passed to it, 0 = inherit
    Tiers               \* tiers asked for with set_tier and tier_request

SystemCalls == {"yield", "fork", "exec", "exit", "wait", "kill",
                "set_tier", "tier_request", "no_memory"}

ASSUME KernelConstants ==
    /\ WATCHDOG_TICKS \in Nat \ {0}
    /\ TICK_WRAP \in Nat \ {0, 1}
    /\ WD_MAX_RESTARTS \in Nat
    /\ WD_UNSTABLE_LIMIT \in Nat \ {0}
    /\ WD_BACKOFF_BASE \in Nat \ {0}
    /\ WD_UNSTABLE_TICKS \in Nat
    /\ Calls \subseteq SystemCalls
    /\ CpuQuotas \subseteq 0 .. 100
    /\ ForkTiers \subseteq Tier
    /\ Tiers \subseteq Tier

VARIABLES
    k,      \* the kernel state of module Sched
    tick,   \* tick_count
    wd,     \* wd_table[0], the entry of the shell
    idle    \* where kernel_main is in its idle loop

vars == <<k, tick, wd, idle>>

(***************************************************************************)
(* The watchdog entry.  Only wd_tick - spawn_tick is ever used, compared   *)
(* with WD_UNSTABLE_TICKS: life is that difference, stopped there.         *)
(***************************************************************************)
WatchdogEntry ==
    [task : Slot \cup {NULL}, restarts : Nat, unstable : Nat, delay_ticks : Nat,
     spawn_due : BOOLEAN, active : BOOLEAN, life : 0 .. WD_UNSTABLE_TICKS]

(***************************************************************************)
(* The idle loop: "boot" is its first iteration, before the first sti;     *)
(* "spawn" to "stamp" are inside watchdog_check.  idle.new is the slot of  *)
(* the new shell, and from "mark" on the pointer that was loaded from the  *)
(* watchdog's entry to be written through.                                 *)
(***************************************************************************)
IdleLoop ==
    [pc : {"boot", "check", "spawn", "enqueue", "record", "test", "load", "mark", "stamp",
           "schedule", "halt"},
     new : Slot \cup {NULL}]

TypeOK ==
    /\ k \in KernelState
    /\ tick \in 0 .. TICK_WRAP - 1
    /\ wd \in WatchdogEntry
    /\ idle \in IdleLoop

-----------------------------------------------------------------------------
(* Slots, children, exit *)

FreeSlots(s) == {t \in Slot : ~s.task[t].in_use}

free_task_slot(s, t) == [s EXCEPT !.task[t] = ZeroTask]

\* A slot taken by create_task_slot.
NewTask == [ZeroTask EXCEPT !.in_use = TRUE, !.cur_queue = NULL]

Children(s, p) == {c \in Slot : s.task[c].in_use /\ s.task[c].parent = p}

task_find_child(s, p, pid) ==
    LET found == {c \in Children(s, p) : pid = AnyChild \/ c = pid}
    IN  IF found = {} THEN NULL ELSE Min(found)

\* Mutants: the waiting parent is not woken; it is not queued.
WakeParent_not(s, p) == s
WakeParent_unqueued(s, p) ==
    IF p = NULL \/ s.task[p].state # "WAITING" THEN s ELSE [s EXCEPT !.task[p].state = "READY"]

WakeParent(s, p) ==
    IF p = NULL \/ s.task[p].state # "WAITING" THEN s
    ELSE LET ready == [s EXCEPT !.task[p].state = "READY"]
         IN  enqueue_task(IF s.task[p].tier = USER
                          THEN [ready EXCEPT !.task[p].mlfq_cont_ticks = 0,
                                             !.task[p].mlfq_level = 0]
                          ELSE ready, p)

\* Mutant: the children keep their parent pointer.
Disown_not(s, p) == s

Disown(s, p) ==
    [s EXCEPT !.task = [t \in Task |-> IF t \in Children(s, p)
                                       THEN [s.task[t] EXCEPT !.parent = NULL]
                                       ELSE s.task[t]]]

\* Mutant: the dying task stays on its ready list.
task_exit_queued(s) ==
    LET t == s.cur
        dead == [s EXCEPT !.task[t].state = "EXITED"]
    IN  schedule(Disown(WakeParent(dead, dead.task[t].parent), t))

task_exit(s) ==
    LET t == s.cur
        dead == [dequeue_task(s, t) EXCEPT !.task[t].state = "EXITED"]
    IN  schedule(Disown(WakeParent(dead, dead.task[t].parent), t))

-----------------------------------------------------------------------------
(* Watchdog *)

\* Back-off: the shell is respawned when the delay has run out.
CountDown(e) == [e EXCEPT !.delay_ticks = @ - 1, !.spawn_due = @ \/ e.delay_ticks = 1]

\* The delays of the restarts: WD_BACKOFF_BASE << n.
Backoff[n \in 0 .. WD_MAX_RESTARTS] == IF n = 0 THEN WD_BACKOFF_BASE ELSE 2 * Backoff[n - 1]

\* The shell was found dead: give up, or restart it after a delay that doubles.
Restart(e) ==
    LET unstable == IF e.life < WD_UNSTABLE_TICKS THEN e.unstable + 1 ELSE 0
        let_go   == [e EXCEPT !.unstable = unstable, !.task = NULL]
    IN  IF unstable >= WD_UNSTABLE_LIMIT THEN [let_go EXCEPT !.active = FALSE]
        ELSE IF e.restarts + 1 > WD_MAX_RESTARTS
             THEN [let_go EXCEPT !.restarts = @ + 1, !.active = FALSE]
             ELSE [let_go EXCEPT !.restarts = @ + 1,
                                 !.delay_ticks = Backoff[e.restarts]]

\* Mutant: an entry that has no task is passed over as well.
watchdog_tick_no_task(s, e) ==
    LET seen == [e EXCEPT !.life = Min({@ + 1, WD_UNSTABLE_TICKS})]
    IN  IF ~e.active \/ e.task = NULL \/ s.task[e.task].state # "EXITED" THEN seen
        ELSE IF e.delay_ticks > 0 THEN CountDown(seen)
        ELSE Restart(seen)

\* The pass of watchdog_tick over the entry of the shell.
watchdog_tick(s, e) ==
    LET seen == [e EXCEPT !.life = Min({@ + 1, WD_UNSTABLE_TICKS})]
    IN  IF ~e.active \/ (e.task # NULL /\ s.task[e.task].state # "EXITED") THEN seen
        ELSE IF e.delay_ticks > 0 THEN CountDown(seen)
        ELSE IF e.task # NULL THEN Restart(seen)
        ELSE [seen EXCEPT !.spawn_due = TRUE]

\* An entry that lets go of its dead task also frees the slot.
WatchdogReap(s, e, e1) ==
    IF e.task # NULL /\ e1.task = NULL THEN free_task_slot(s, e.task) ELSE s

-----------------------------------------------------------------------------
(* The timer interrupt *)

InUser == k.cur # Idle /\ k.task[k.cur].wait = NULL
InIdle == k.cur = Idle
InterruptsOn == InUser \/ (InIdle /\ idle.pc # "boot")

\* An interrupt ends the hlt of the idle loop.
WakeIdle == IF InIdle /\ idle.pc = "halt" THEN [idle EXCEPT !.pc = "check"] ELSE idle

\* A task marked by kill dies here and the rest of the handler is not reached.
KilledAtTick ==
    /\ k.task[k.cur].kill_pending
    /\ k' = task_exit([k EXCEPT !.task[k.cur].kill_pending = FALSE])
    /\ UNCHANGED wd

ChargedAtTick(now) ==
    LET charged  == ChargeMlfq(ChargeQuota(k))
        checked  == IF now % WATCHDOG_TICKS = 0 THEN watchdog_tick(charged, wd) ELSE wd
        reaped   == WatchdogReap(charged, wd, checked)
        aged     == IF now % MLFQ_AGING_TICKS = 0 THEN task_mlfq_aging(reaped) ELSE reaped
        refilled == IF now % QUOTA_PERIOD_TICKS = 0 THEN task_quota_period_reset(aged) ELSE aged
    IN  /\ ~k.task[k.cur].kill_pending
        /\ k' = schedule(refilled)
        /\ wd' = checked

pit_handler ==
    /\ InterruptsOn
    /\ tick' = (tick + 1) % TICK_WRAP
    /\ KilledAtTick \/ ChargedAtTick(tick')
    /\ idle' = WakeIdle

\* Any other interrupt only ends the hlt (keyboard_handler touches no task).
OtherInterrupt ==
    /\ InIdle /\ idle.pc = "halt"
    /\ idle' = WakeIdle
    /\ UNCHANGED <<k, tick, wd>>

-----------------------------------------------------------------------------
(* System calls of the running task *)

SystemCall(call) == InUser /\ call \in Calls /\ UNCHANGED <<tick, wd, idle>>

Yield == SystemCall("yield") /\ k' = yield(k)

\* Also the end of a faulting user task: exception_trap calls task_exit.
Exit == SystemCall("exit") /\ k' = task_exit(k)

Min2(a, b) == IF a <= b THEN a ELSE b

InheritQuota(parent, asked) ==
    IF asked = 0 THEN parent
    ELSE IF parent = 0 THEN asked
    ELSE Min2(asked, parent)

ForkChild(p, quota, tier) ==
    [NewTask EXCEPT !.state = "READY", !.parent = p,
                    !.tier = IF tier # 0 THEN tier ELSE k.task[p].tier,
                    !.tier_override = IF tier # 0 THEN tier ELSE k.task[p].tier_override,
                    !.cpu_quota = InheritQuota(k.task[p].cpu_quota, quota)]

\* sys_fork with a slot and enough frames.
Fork(quota, tier) ==
    /\ SystemCall("fork")
    /\ FreeSlots(k) # {}
    /\ LET c == Min(FreeSlots(k))
       IN  k' = enqueue_task([k EXCEPT !.task[c] = ForkChild(k.cur, quota, tier)], c)

(***************************************************************************)
(* fork or exec out of page frames: the slot is given back, the call       *)
(* fails, and vm_handle_pressure has left a USER caller at CRITICAL.       *)
(***************************************************************************)
OutOfMemory ==
    /\ SystemCall("no_memory")
    /\ k.task[k.cur].tier = USER
    /\ k' = [k EXCEPT !.task[k.cur].tier = CRITICAL]

\* sys_exec succeeds; the tier follows the name of the file unless overridden.
Exec(tier) ==
    /\ SystemCall("exec")
    /\ k' = IF k.task[k.cur].tier_override = NULL THEN task_set_tier(k, k.cur, tier) ELSE k

\* One turn of the loop of sys_wait(pid).
WaitLoop(pid) ==
    LET t     == k.cur
        child == task_find_child(k, t, pid)
    IN  k' = IF child = NULL THEN [k EXCEPT !.task[t].wait = NULL]
             ELSE IF k.task[child].state = "EXITED"
                  THEN free_task_slot([k EXCEPT !.task[t].wait = NULL], child)
             ELSE schedule(dequeue_task([k EXCEPT !.task[t].state = "WAITING",
                                                  !.task[t].wait = pid], t))

Wait(pid) == SystemCall("wait") /\ WaitLoop(pid)

WaitResume ==
    /\ k.cur # Idle
    /\ k.task[k.cur].wait # NULL
    /\ WaitLoop(k.task[k.cur].wait)
    /\ UNCHANGED <<tick, wd, idle>>

Kill(pid) ==
    LET child == task_find_child(k, k.cur, pid)
    IN  /\ SystemCall("kill")
        /\ child # NULL
        /\ k.task[child].state # "EXITED"
        /\ k' = [k EXCEPT !.task[child].kill_pending = TRUE]

TierRequest(tier) == SystemCall("tier_request") /\ k' = task_set_tier(k, k.cur, tier)

SetTier(tier) ==
    /\ SystemCall("set_tier")
    /\ k' = [task_set_tier(k, k.cur, tier) EXCEPT !.task[k.cur].tier_override = tier]

-----------------------------------------------------------------------------
(* The idle loop of kernel_main *)

IdleAt(pc) == InIdle /\ idle.pc = pc /\ UNCHANGED tick

IdleGoto(pc) == idle' = [pc |-> pc, new |-> NULL]

\* The first iteration finds nothing due and runs the shell.
Boot == IdleAt("boot") /\ k' = schedule(k) /\ IdleGoto("halt") /\ UNCHANGED wd

WatchdogCheck ==
    /\ IdleAt("check")
    /\ IF wd.active /\ wd.spawn_due
       THEN IdleGoto("spawn") /\ wd' = [wd EXCEPT !.spawn_due = FALSE]
       ELSE IdleGoto("schedule") /\ UNCHANGED wd
    /\ UNCHANGED k

\* spawn_user_process gives up: no slot, no memory, or no readable ELF file.
SpawnFails ==
    /\ IdleAt("spawn")
    /\ wd' = [wd EXCEPT !.task = NULL, !.spawn_due = TRUE]
    /\ IdleGoto("schedule")
    /\ UNCHANGED k

\* create_task: the slot is taken, the task is READY but not yet queued.
SpawnCreate ==
    /\ IdleAt("spawn")
    /\ FreeSlots(k) # {}
    /\ LET t == Min(FreeSlots(k))
       IN  /\ k' = [k EXCEPT !.task[t] = [NewTask EXCEPT !.state = "READY", !.tier = USER,
                                                         !.tier_override = NULL]]
           /\ idle' = [pc |-> "enqueue", new |-> t]
    /\ UNCHANGED wd

\* elf_assign_tier makes shell.elf a SYSTEM task.
SpawnEnqueue ==
    /\ IdleAt("enqueue")
    /\ k' = enqueue_task([k EXCEPT !.task[idle.new].tier = SYSTEM], idle.new)
    /\ idle' = [idle EXCEPT !.pc = "record"]
    /\ UNCHANGED wd

\* spawn_user_process has returned.
SpawnRecord ==
    /\ IdleAt("record")
    /\ wd' = [wd EXCEPT !.task = idle.new]
    /\ idle' = [idle EXCEPT !.pc = "test"]
    /\ UNCHANGED k

\* The entry is read again: a tick may have freed the shell that died at once, and
\* the spawn then counts as failed.
SpawnTest ==
    /\ IdleAt("test")
    /\ IF wd.task = NULL THEN wd' = [wd EXCEPT !.spawn_due = TRUE] /\ IdleGoto("schedule")
       ELSE idle' = [idle EXCEPT !.pc = "load"] /\ UNCHANGED wd
    /\ UNCHANGED k

\* And again, for the write.
SpawnLoad ==
    /\ IdleAt("load")
    /\ idle' = [pc |-> "mark", new |-> wd.task]
    /\ UNCHANGED <<k, wd>>

\* Mutant: the new shell is not marked as managed.
SpawnMark_not ==
    /\ IdleAt("mark")
    /\ idle' = [idle EXCEPT !.pc = "stamp"]
    /\ UNCHANGED <<k, wd>>

\* A NULL pointer writes to the first page, which is mapped and holds no task; the
\* slot of a shell that was freed since is marked all the same.
SpawnMark ==
    /\ IdleAt("mark")
    /\ k' = IF idle.new = NULL THEN k ELSE [k EXCEPT !.task[idle.new].wd_managed = TRUE]
    /\ idle' = [idle EXCEPT !.pc = "stamp"]
    /\ UNCHANGED wd

\* spawn_tick = wd_tick
SpawnStamp ==
    /\ IdleAt("stamp")
    /\ wd' = [wd EXCEPT !.life = 0]
    /\ idle' = [idle EXCEPT !.pc = "schedule"]
    /\ UNCHANGED k

\* Mutant: the idle loop goes to hlt without calling schedule.
IdleSchedule_not == IdleAt("schedule") /\ IdleGoto("halt") /\ UNCHANGED <<k, wd>>

IdleSchedule == IdleAt("schedule") /\ k' = schedule(k) /\ IdleGoto("halt") /\ UNCHANGED wd

-----------------------------------------------------------------------------

ShellTask ==
    [NewTask EXCEPT !.state = "READY", !.tier = SYSTEM, !.tier_override = NULL,
                    !.cur_queue = 1, !.wd_managed = TRUE]

\* The end of boot: the shell is spawned, queued and registered.
Init ==
    /\ k = [task  |-> [t \in Task |-> IF t = 1 THEN ShellTask ELSE ZeroTask],
            rq    |-> [q \in Queue |-> IF q = 1 THEN <<1>> ELSE << >>],
            cur   |-> Idle, slice |-> 0]
    /\ tick = 0
    /\ wd = [task |-> 1, restarts |-> 0, unstable |-> 0, delay_ticks |-> 0,
             spawn_due |-> FALSE, active |-> TRUE, life |-> 0]
    /\ idle = [pc |-> "boot", new |-> NULL]

Next ==
    \/ pit_handler
    \/ OtherInterrupt
    \/ Yield
    \/ Exit
    \/ \E quota \in CpuQuotas, tier \in ForkTiers : Fork(quota, tier)
    \/ OutOfMemory
    \/ \E tier \in {SYSTEM, USER} : Exec(tier)
    \/ \E pid \in Slot \cup {AnyChild} : Wait(pid)
    \/ WaitResume
    \/ \E pid \in Slot \cup {AnyChild} : Kill(pid)
    \/ \E tier \in Tiers : TierRequest(tier)
    \/ \E tier \in Tiers : SetTier(tier)
    \/ Boot
    \/ WatchdogCheck
    \/ SpawnFails
    \/ SpawnCreate
    \/ SpawnEnqueue
    \/ SpawnRecord
    \/ SpawnTest
    \/ SpawnLoad
    \/ SpawnMark
    \/ SpawnStamp
    \/ IdleSchedule

Spec == Init /\ [][Next]_vars

(***************************************************************************)
(* Fairness.  A timer interrupt that finds interrupts off stays pending in *)
(* the PIC and strikes when they are on again: strong fairness of the tick *)
(* (only pit_handler changes tick).  A task inside a system call executes  *)
(* its next instruction when it holds the CPU, and so does the idle loop:  *)
(* it is resumed where it was preempted, so holding the CPU again and      *)
(* again is enough (strong fairness).  Programs are under no obligation to *)
(* issue any system call, and a spawn need not succeed.                    *)
(***************************************************************************)
TimerStrikes == InterruptsOn /\ tick' = (tick + 1) % TICK_WRAP

IdleStep ==
    \/ Boot \/ WatchdogCheck \/ SpawnFails \/ SpawnCreate \/ SpawnEnqueue
    \/ SpawnRecord \/ SpawnTest \/ SpawnLoad \/ SpawnMark \/ SpawnStamp \/ IdleSchedule

Fairness ==
    /\ SF_tick(TimerStrikes)
    /\ WF_vars(WaitResume)
    /\ SF_vars(IdleStep)

FairSpec == Spec /\ Fairness

\* A spawn that is tried again and again succeeds in the end.
RestartSpec == FairSpec /\ SF_vars(SpawnCreate)

-----------------------------------------------------------------------------
(* Properties *)

\* enqueue_task never links a task that is on a list already: the ready lists
\* stay linear and disjoint (the defensive dequeue of sched.c:117 is there to
\* keep a second enqueue from breaking the list).
NoTaskLinkedTwice ==
    \A p, q \in Queue : \A i \in 1 .. Len(k.rq[p]), j \in 1 .. Len(k.rq[q]) :
        k.rq[p][i] = k.rq[q][j] => p = q /\ i = j

BeingSpawned(t) == idle.pc = "enqueue" /\ idle.new = t

Queued(t, q) == \E i \in 1 .. Len(k.rq[q]) : k.rq[q][i] = t

\* No READY task is ever lost and no blocked, dead or freed task can be
\* dispatched: apart from the running task, the tasks on the list of queue q
\* are exactly the READY tasks whose tier and level put them in q, and
\* dequeue_task will look for them there.
QueuesHoldTheReady ==
    /\ \A t \in Slot :
         k.task[t].in_use /\ k.task[t].state = "READY" /\ t # k.cur /\ ~BeingSpawned(t)
            => Queued(t, task_qidx(k, t))
    /\ \A q \in Queue, t \in Slot :
         Queued(t, q) => /\ k.task[t].in_use
                         /\ k.task[t].cur_queue = q
                         /\ t # k.cur => k.task[t].state = "READY" /\ task_qidx(k, t) = q

\* The CPU runs a live task: current_task is never blocked, exited or a freed
\* slot once a handler has returned, and no other task believes it is running.
CurrentIsRunnable ==
    /\ k.cur # Idle => k.task[k.cur].in_use /\ k.task[k.cur].state \in {"RUNNING", "READY"}
    /\ \A t \in Slot : k.task[t].in_use /\ k.task[t].state = "RUNNING" => t = k.cur

\* A parent pointer is never dangling: task_exit disowns its children before
\* its slot can be freed and reused, so parent is always a live task.
ParentAlive ==
    \A t \in Slot : k.task[t].in_use /\ k.task[t].parent # NULL
        => LET p == k.task[t].parent
           IN  k.task[p].in_use /\ k.task[p].state # "EXITED" /\ p # t

\* No lost wake-up in sys_wait: a blocked task is inside sys_wait and the child
\* its next turn of the loop will look at is still alive, so an exit that wakes
\* it is still to come.
WaiterHasLiveChild ==
    \A t \in Slot : k.task[t].in_use /\ k.task[t].state = "WAITING"
        => LET c == task_find_child(k, t, k.task[t].wait)
           IN  /\ k.task[t].wait # NULL
               /\ c # NULL
               /\ k.task[c].state # "EXITED"

EligibleTasks == UNION {{k.rq[q][i] : i \in Eligible(k, q)} : q \in Queue}

\* The idle task holds the CPU only when no queued task may run, apart from the
\* shell that it has just spawned itself.  So the schedule() of the idle loop,
\* which runs with interrupts on, never resumes a task inside sys_wait.
IdleOnlyWhenNothingElse ==
    InIdle /\ idle.pc # "boot"
        => EligibleTasks \subseteq
              (IF idle.pc \in {"record", "test", "load", "mark", "stamp", "schedule"}
               THEN {idle.new} ELSE {})

\* The watchdog's pointer to the shell is never stale: the slot it would free is
\* a task that it manages and that no sys_wait can free behind its back.
WatchdogTaskIsOurs ==
    wd.task # NULL => /\ k.task[wd.task].in_use
                      /\ k.task[wd.task].wd_managed \/ idle.pc \in {"test", "load", "mark"}
                      /\ k.task[wd.task].parent = NULL

\* A task that used up its quota keeps the CPU at most for the rest of its slice:
\* it overruns the quota of the period by less than the longest slice.
QuotaOverrunBounded ==
    \A t \in Slot : k.task[t].cpu_quota > 0
        => k.task[t].quota_used_ticks <= QuotaLimit(k.task[t].cpu_quota) + 2

\* A dead task stays dead until its slot is freed: no late wake-up, requeue or
\* tier change makes it runnable again.
NoResurrection ==
    [][\A t \in Slot : k.task[t].in_use /\ k.task[t].state = "EXITED"
            => ~k'.task[t].in_use \/ k'.task[t].state = "EXITED"]_vars

\* Priority inversion lasts one tick: a task that keeps the CPU across a timer
\* interrupt has no queued task of a more urgent queue that could run instead
\* (the slice lent to lower queues in sched.c:155 is taken back at once).
NoInversionAcrossTick ==
    [][pit_handler /\ k'.cur = k.cur /\ k.cur # Idle
            => \A q \in EligibleQueues(k', 0) : q >= task_qidx(k', k.cur)]_vars

\* A task out of quota is not given the CPU (sched.c:190).
NoDispatchOverQuota ==
    [][k'.cur # k.cur /\ k'.cur # Idle => ~k'.task[k'.cur].quota_done]_vars

\* No starvation: a READY task gets the CPU (ageing brings every task to level 0,
\* and an expired slice of a lone SYSTEM task is lent to the lower queues).
ReadyEventuallyRuns ==
    \A t \in Slot : (k.task[t].in_use /\ k.task[t].state = "READY") ~> (k.cur = t)

\* wait returns: when the awaited child has exited, the parent leaves sys_wait.
WaitReturns ==
    \A t \in Slot :
        (/\ k.task[t].wait # NULL
         /\ task_find_child(k, t, k.task[t].wait) # NULL
         /\ k.task[task_find_child(k, t, k.task[t].wait)].state = "EXITED")
            ~> k.task[t].wait = NULL

\* The shell of the watchdog's entry, or the one it has spawned and not yet recorded.
Shell == IF idle.pc = "record" THEN idle.new ELSE wd.task

ShellAlive == Shell # NULL /\ k.task[Shell].in_use /\ k.task[Shell].state # "EXITED"

\* The watchdog restarts a crashed shell (README.md:18), unless it has given up or no
\* slot is free.
ShellRestarted == ~ShellAlive ~> (ShellAlive \/ ~wd.active \/ FreeSlots(k) = {})

\* What the watchdog does achieve: watchdog_check runs in the idle loop, so the shell
\* comes back if the CPU is idle again and again.
ShellRestartedWhenIdle == []<>InIdle => ShellRestarted

=============================================================================
