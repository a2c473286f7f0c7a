------------------------------- MODULE Sched -------------------------------
(***************************************************************************)
(* The ready queues of kernel/task.c and the dispatcher of kernel/sched.c. *)
(*                                                                         *)
(* The code mutates global state and every handler is a straight line of   *)
(* calls that runs with interrupts off, so a handler is modelled as a      *)
(* composition of operators from kernel states to kernel states.  A kernel *)
(* state k is a record                                                     *)
(*   k.task   the task structs: tasks[MAX_TASKS] and idle_task             *)
(*   k.rq     the ready queues rq_head[]/rq_tail[], each as the sequence   *)
(*            of tasks on the list, head first                             *)
(*   k.cur    current_task                                                 *)
(*   k.slice  current_task->timeslice; switch_to_task reloads the field,   *)
(*            so its value in a task that is not current is never read     *)
(* A sequence describes an intrusive list exactly as long as no task is    *)
(* linked twice, which is what NoTaskLinkedTwice of module Kernel says.    *)
(***************************************************************************)
EXTENDS Integers, Sequences, FiniteSetsExt

CONSTANTS
    MAX_TASKS,          \* slots of the task table (16 in the code)
    MLFQ_AGING_TICKS,   \* ticks between two agings (300)
    QUOTA_PERIOD_TICKS  \* ticks of a quota period (1000)

ASSUME SchedConstants ==
    /\ MAX_TASKS \in Nat \ {0}
    /\ MLFQ_AGING_TICKS \in Nat \ {0}
    /\ QUOTA_PERIOD_TICKS \in Nat \ {0}

NULL == -1
Idle == 0
Slot == 1 .. MAX_TASKS
Task == {Idle} \cup Slot
Queue == 0 .. 4                       \* NR_QUEUES

MLFQ_DEMOTE_TICKS == 3
MlfqLevel == 0 .. 2
MlfqTicks == 0 .. MLFQ_DEMOTE_TICKS

\* tier_t
KERNEL == 0
SYSTEM == 1
USER == 2
CRITICAL == 3
Tier == 0 .. 3

TaskState == {"RUNNING", "READY", "WAITING", "EXITED"}

\* The argument -1 of wait and kill: any child.
AnyChild == 0

TaskRecord ==
    [in_use : BOOLEAN, state : TaskState, tier : Tier,
     tier_override : Tier \cup {NULL},
     mlfq_level : MlfqLevel, mlfq_cont_ticks : MlfqTicks,
     cur_queue : Queue \cup {NULL},
     cpu_quota : 0 .. 100, quota_used_ticks : Nat, quota_done : BOOLEAN,
     kill_pending : BOOLEAN, parent : Slot \cup {NULL},
     wait : Slot \cup {NULL, AnyChild}, wd_managed : BOOLEAN]

KernelState ==
    [task : [Task -> TaskRecord], rq : [Queue -> Seq(Slot)],
     cur : Task, slice : 0 .. 3]

(***************************************************************************)
(* A struct after memset 0.  The field wait records where a task is inside *)
(* the loop of sys_wait: NULL when it is not, else the pid it asked for.   *)
(* A pid is represented by the slot that holds it: wait and kill look only *)
(* among the children of the caller, and no child is freed while its       *)
(* parent is inside sys_wait except by that call.                          *)
(***************************************************************************)
ZeroTask ==
    [in_use |-> FALSE, state |-> "RUNNING", tier |-> KERNEL,
     tier_override |-> 0, mlfq_level |-> 0, mlfq_cont_ticks |-> 0,
     cur_queue |-> 0, cpu_quota |-> 0, quota_used_ticks |-> 0,
     quota_done |-> FALSE, kill_pending |-> FALSE, parent |-> NULL,
     wait |-> NULL, wd_managed |-> FALSE]

-----------------------------------------------------------------------------
(* Ready queues *)

tier_to_queue_idx(tier) ==
    CASE tier = KERNEL -> 0
      [] tier \in {SYSTEM, CRITICAL} -> 1
      [] OTHER -> 2

QueueOf(tier, level) == IF tier = USER THEN 2 + level ELSE tier_to_queue_idx(tier)

task_qidx(k, t) == QueueOf(k.task[t].tier, k.task[t].mlfq_level)

enqueue_task(k, t) ==
    LET q == task_qidx(k, t)
    IN  [k EXCEPT !.task[t].cur_queue = q, !.rq[q] = Append(@, t)]

PositionsOf(t, s) == {i \in 1 .. Len(s) : s[i] = t}

RemoveIndex(s, n) ==
    [i \in 1 .. Len(s) - 1 |-> IF i < n THEN s[i] ELSE s[i + 1]]

\* The list of cur_queue is searched; a task that is not on it is left alone.
dequeue_task(k, t) ==
    LET q == k.task[t].cur_queue
    IN  IF q \in Queue /\ PositionsOf(t, k.rq[q]) # {}
        THEN [k EXCEPT !.rq[q] = RemoveIndex(@, Min(PositionsOf(t, @)))]
        ELSE k

\* Mutant: every queued task may run.
Eligible_any(k, q) == 1 .. Len(k.rq[q])

\* Positions of the tasks of queue q that have quota left.
Eligible(k, q) == {i \in 1 .. Len(k.rq[q]) : ~k.task[k.rq[q][i]].quota_done}

EligibleQueues(k, min_q) == {q \in Queue : q >= min_q /\ Eligible(k, q) # {}}

\* The first n elements move to the back, in order.
Rotate(s, n) ==
    [i \in 1 .. Len(s) |-> IF i + n <= Len(s) THEN s[i + n] ELSE s[i + n - Len(s)]]

(***************************************************************************)
(* pick_next_task is pick_next_lower(0).  The first queue with an eligible *)
(* task is rotated until that task has passed from its head to its tail:   *)
(* the task picked stays linked, unless it was alone on the list.          *)
(***************************************************************************)
Picked(k, min_q) ==
    IF EligibleQueues(k, min_q) = {} THEN NULL
    ELSE LET q == Min(EligibleQueues(k, min_q))
         IN  k.rq[q][Min(Eligible(k, q))]

AfterPick(k, min_q) ==
    IF EligibleQueues(k, min_q) = {} THEN k
    ELSE LET q == Min(EligibleQueues(k, min_q))
         IN  [k EXCEPT !.rq[q] = IF Len(@) = 1 THEN << >>
                                 ELSE Rotate(@, Min(Eligible(k, q)))]

peek_next_task(k) == Picked(k, 0)

-----------------------------------------------------------------------------
(* Dispatching *)

tier_timeslice(k, t) ==
    CASE k.task[t].tier = KERNEL -> 1
      [] k.task[t].tier \in {SYSTEM, CRITICAL} -> 2
      [] OTHER -> 3 - k.task[t].mlfq_level

set_task_timeslice(k) == [k EXCEPT !.slice = tier_timeslice(k, k.cur)]

switch_to_task(k, next) ==
    set_task_timeslice([k EXCEPT !.cur = next, !.task[next].state = "RUNNING"])

\* cand = pick_next_task(), or the idle task when there is none.
Dispatch(k) ==
    switch_to_task(AfterPick(k, 0), IF Picked(k, 0) = NULL THEN Idle ELSE Picked(k, 0))

\* Mutant: prev is not put back when the slice is lent to a lower queue.
Expire_loses_prev(k, prev) ==
    LET lower == task_qidx(k, prev) + 1
        k1    == AfterPick(k, 0)
    IN  IF Picked(k, 0) # prev THEN Dispatch(k)
        ELSE IF Picked(k1, lower) = NULL THEN set_task_timeslice(k1)
        ELSE switch_to_task(AfterPick(k1, lower), Picked(k1, lower))

\* The slice of prev is used up and prev is back on the tail of its queue.
Expire(k, prev) ==
    LET lower == task_qidx(k, prev) + 1
        k1    == AfterPick(k, 0)
    IN  IF Picked(k, 0) # prev THEN Dispatch(k)
        ELSE IF Picked(k1, lower) = NULL THEN set_task_timeslice(k1)
        ELSE switch_to_task(enqueue_task(AfterPick(k1, lower), prev), Picked(k1, lower))

\* Mutant: the running task keeps the CPU to the end of its slice.
Preempts_never(k, cand, prev) == FALSE

Preempts(k, cand, prev) == cand # NULL /\ task_qidx(k, cand) < task_qidx(k, prev)

\* The running task, taken off its list, has used a tick of its slice.
UseSlice(k) ==
    [dequeue_task(k, k.cur) EXCEPT !.slice = IF @ > 0 THEN @ - 1 ELSE @]

schedule(k) ==
    LET prev == k.cur
        k1   == UseSlice(k)
        back == enqueue_task([k1 EXCEPT !.task[prev].state = "READY"], prev)
    IN  CASE prev = Idle -> IF Picked(k, 0) = NULL THEN k ELSE Dispatch(k)
          [] prev # Idle /\ k.task[prev].state = "EXITED" -> Dispatch(k)
          [] prev # Idle /\ k.task[prev].state = "WAITING" -> Dispatch(dequeue_task(k, prev))
          [] OTHER -> IF Preempts(k1, peek_next_task(k1), prev) THEN Dispatch(back)
                      ELSE IF k1.slice = 0 THEN Expire(back, prev)
                      ELSE k1

-----------------------------------------------------------------------------
(* Changes of tier and MLFQ level *)

\* A READY task that is not running moves to the queue it now belongs to.
Requeue(k, oldq, t) ==
    IF oldq # task_qidx(k, t) /\ k.task[t].state = "READY" /\ t # k.cur
    THEN enqueue_task(dequeue_task(k, t), t)
    ELSE k

task_set_tier(k, t, tier) ==
    Requeue([k EXCEPT !.task[t].tier = tier], task_qidx(k, t), t)

task_set_mlfq_level(k, t, level) ==
    Requeue([k EXCEPT !.task[t].mlfq_level = level], task_qidx(k, t), t)

\* yield: giving up the CPU counts as interactive, back to MLFQ level 0.
yield(k) ==
    LET t == k.cur
        interactive == IF k.task[t].tier # USER THEN k
                       ELSE task_set_mlfq_level([k EXCEPT !.task[t].mlfq_cont_ticks = 0], t, 0)
    IN  schedule([interactive EXCEPT !.task[t].state = "READY"])

Ages(k, t) ==
    /\ k.task[t].in_use
    /\ k.task[t].tier = USER
    /\ k.task[t].mlfq_level > 0
    /\ ~k.task[t].quota_done
    /\ k.task[t].state \in {"READY", "RUNNING"}

\* Mutant: no ageing.
AgeTask_not(k, t) == k

AgeTask(k, t) ==
    IF Ages(k, t) THEN task_set_mlfq_level(k, t, k.task[t].mlfq_level - 1) ELSE k

\* The loop over the slots, in slot order: it decides who is queued first.
task_mlfq_aging(k) ==
    LET aged[i \in 0 .. MAX_TASKS] == IF i = 0 THEN k ELSE AgeTask(aged[i - 1], i)
    IN  aged[MAX_TASKS]

task_quota_period_reset(k) ==
    [k EXCEPT !.task = [t \in Task |->
        IF k.task[t].in_use
        THEN [k.task[t] EXCEPT !.quota_used_ticks = 0, !.quota_done = FALSE]
        ELSE k.task[t]]]

-----------------------------------------------------------------------------
(* What the timer interrupt charges to the running task *)

QuotaLimit(quota) == Max({1, (QUOTA_PERIOD_TICKS * quota) \div 100})

\* Mutant: the quota is spent one tick late.
ChargeQuota_late(k) ==
    LET t == k.cur
    IN  IF k.task[t].cpu_quota = 0 THEN k
        ELSE [k EXCEPT !.task[t].quota_used_ticks = @ + 1,
                       !.task[t].quota_done =
                            @ \/ k.task[t].quota_used_ticks + 1 > QuotaLimit(k.task[t].cpu_quota)]

ChargeQuota(k) ==
    LET t == k.cur
    IN  IF k.task[t].cpu_quota = 0 THEN k
        ELSE [k EXCEPT !.task[t].quota_used_ticks = @ + 1,
                       !.task[t].quota_done =
                            @ \/ k.task[t].quota_used_ticks + 1 >= QuotaLimit(k.task[t].cpu_quota)]

\* Mutant: a task on the last level is demoted too.
ChargeMlfq_no_floor(k) ==
    LET t == k.cur
        cont == Min({k.task[t].mlfq_cont_ticks + 1, MLFQ_DEMOTE_TICKS})
        demoted == task_set_mlfq_level(k, t, k.task[t].mlfq_level + 1)
    IN  IF k.task[t].tier # USER \/ k.task[t].quota_done THEN k
        ELSE IF cont = MLFQ_DEMOTE_TICKS THEN [demoted EXCEPT !.task[t].mlfq_cont_ticks = 0]
        ELSE [k EXCEPT !.task[t].mlfq_cont_ticks = cont]

(***************************************************************************)
(* The count of continuous ticks grows without bound on level 2.  It is    *)
(* only compared with MLFQ_DEMOTE_TICKS, so the model stops it there.      *)
(***************************************************************************)
ChargeMlfq(k) ==
    LET t == k.cur
        cont == Min({k.task[t].mlfq_cont_ticks + 1, MLFQ_DEMOTE_TICKS})
        demoted == task_set_mlfq_level(k, t, k.task[t].mlfq_level + 1)
    IN  IF k.task[t].tier # USER \/ k.task[t].quota_done THEN k
        ELSE IF cont = MLFQ_DEMOTE_TICKS /\ k.task[t].mlfq_level < 2
             THEN [demoted EXCEPT !.task[t].mlfq_cont_ticks = 0]
             ELSE [k EXCEPT !.task[t].mlfq_cont_ticks = cont]

=============================================================================
