---------------------------- MODULE KernelProofs ----------------------------
(*****************************************************************************)
(* Type correctness of module Kernel, for every number of slots and          *)
(* every value of the other constants.                                       *)
(*****************************************************************************)
EXTENDS Kernel, RunProofs

\* Each leaf goes to the SMT solver unless it names another prover.
USE SMTT(60)

\* A struct after memset is well typed.
LEMMA ZeroTaskType == ZeroTask \in TaskRecord
BY DEF ZeroTask, TaskRecord, TaskState, Tier, KERNEL, MlfqLevel, MlfqTicks,
       MLFQ_DEMOTE_TICKS, Queue, NULL, AnyChild

\* So is a slot just taken by create_task_slot.
LEMMA NewTaskType == 
  /\ NewTask \in TaskRecord
  /\ NewTask.in_use /\ NewTask.mlfq_level = 0 /\ NewTask.cpu_quota = 0 /\ ~NewTask.quota_done
BY ZenonT(60), ZeroTaskType DEF NewTask, ZeroTask, TaskRecord, NULL

\* free_task_slot keeps the type.
LEMMA FreeType ==
  ASSUME NEW s \in KernelState, NEW t \in Slot
  PROVE  free_task_slot(s, t) \in KernelState /\ free_task_slot(s, t).cur = s.cur
BY ZeroTaskType, SetTask, SlotFacts DEF free_task_slot

\* The first slot of a set of slots.
LEMMA MinSlot ==
  ASSUME NEW S \in SUBSET Slot, S # {}
  PROVE  Min(S) \in S
<1>1. S \in SUBSET Nat
  BY DEF Slot
<1> QED BY <1>1, MinNat

\* task_find_child returns NULL or a slot in use whose parent is p.
LEMMA FindChildType ==
  ASSUME NEW s, NEW p, NEW pid
  PROVE  task_find_child(s, p, pid) # NULL
            => /\ task_find_child(s, p, pid) \in Slot
               /\ s.task[task_find_child(s, p, pid)].in_use
               /\ s.task[task_find_child(s, p, pid)].parent = p
<1> DEFINE found == {c \in Children(s, p) : pid = AnyChild \/ c = pid}
<1>1. found \in SUBSET Slot /\ \A c \in found : s.task[c].in_use /\ s.task[c].parent = p
  BY DEF Children
<1>2. task_find_child(s, p, pid) = IF found = {} THEN NULL ELSE Min(found)
  BY DEF task_find_child
<1> HIDE DEF found
<1> QED BY <1>1, <1>2, MinSlot

\* Waking the parent keeps the type.
LEMMA WakeParentType ==
  ASSUME NEW s \in KernelState, NEW p \in Slot \cup {NULL}
  PROVE  WakeParent(s, p) \in KernelState /\ WakeParent(s, p).cur = s.cur
<1> DEFINE ready == [s EXCEPT !.task[p].state = "READY"]
           z == [ready EXCEPT !.task[p].mlfq_cont_ticks = 0]
           w == [z EXCEPT !.task[p].mlfq_level = 0]
           v == [ready EXCEPT !.task[p].mlfq_cont_ticks = 0, !.task[p].mlfq_level = 0]
<1> SUFFICES ASSUME p # NULL PROVE WakeParent(s, p) \in KernelState /\ WakeParent(s, p).cur = s.cur
  BY DEF WakeParent
<1>1. p \in Slot /\ p \in Task
  BY SlotFacts
<1>2. ready \in KernelState /\ ready.cur = s.cur
  <2>1. "READY" \in TaskState
    BY DEF TaskState
  <2> QED BY <1>1, <2>1, PutState
<1> HIDE DEF ready
<1>3. z \in KernelState /\ z.cur = s.cur
  <2>1. 0 \in MlfqTicks
    BY DEF MlfqTicks, MLFQ_DEMOTE_TICKS
  <2> QED BY <1>1, <1>2, <2>1, PutCont
<1>4. v = w
  BY <1>1, <1>2 DEF KernelState
<1> HIDE DEF z, v
<1>5. w \in KernelState /\ w.cur = s.cur
  <2>1. 0 \in MlfqLevel
    BY DEF MlfqLevel
  <2> QED BY <1>1, <1>3, <2>1, PutLevel
<1>6. v \in KernelState /\ v.cur = s.cur
  <2> HIDE DEF w
  <2> QED BY <1>4, <1>5
<1>7. WakeParent(s, p) = IF s.task[p].state # "WAITING" THEN s
                         ELSE enqueue_task(IF s.task[p].tier = USER THEN v ELSE ready, p)
  BY DEF WakeParent, v, ready
<1> QED BY <1>1, <1>2, <1>6, <1>7, EnqueueType

\* Disowning changes the parent of the children and nothing else.
LEMMA DisownType ==
  ASSUME NEW s \in KernelState, NEW p
  PROVE  LET r == Disown(s, p)
         IN  /\ r \in KernelState /\ r.rq = s.rq /\ r.cur = s.cur
             /\ \A t \in Task : r.task[t] = IF t \in Children(s, p)
                                           THEN [s.task[t] EXCEPT !.parent = NULL] ELSE s.task[t]
<1> DEFINE y(t) == IF t \in Children(s, p) THEN [s.task[t] EXCEPT !.parent = NULL] ELSE s.task[t]
<1>1. ASSUME NEW t \in Task PROVE y(t) \in TaskRecord
  <2> DEFINE x == s.task[t]
  <2>1. x \in TaskRecord
    BY DEF KernelState
  <2> HIDE DEF x
  <2>2. [x EXCEPT !.parent = NULL] \in TaskRecord
    BY <2>1 DEF TaskRecord
  <2> QED BY <2>1, <2>2 DEF x
<1>2. Disown(s, p) = [s EXCEPT !.task = [t \in Task |-> y(t)]]
  BY DEF Disown
<1> HIDE DEF y
<1>3. [t \in Task |-> y(t)] \in [Task -> TaskRecord]
  BY <1>1
<1>4. LET r == [s EXCEPT !.task = [t \in Task |-> y(t)]]
      IN  r \in KernelState /\ r.rq = s.rq /\ r.cur = s.cur /\ \A t \in Task : r.task[t] = y(t)
  BY <1>3 DEF KernelState
<1> QED BY <1>2, <1>4 DEF y

\* task_exit keeps the type.
LEMMA ExitType ==
  ASSUME NEW s \in KernelState
  PROVE  task_exit(s) \in KernelState
<1> DEFINE t == s.cur
           d == dequeue_task(s, t)
           dead == [d EXCEPT !.task[t].state = "EXITED"]
<1>1. t \in Task
  BY DEF KernelState
<1>2. d \in KernelState
  BY <1>1, DequeueFields
<1> HIDE DEF d
<1>3. dead \in KernelState
  <2>1. "EXITED" \in TaskState
    BY DEF TaskState
  <2> QED BY <1>1, <1>2, <2>1, SetStateField
<1> HIDE DEF dead
<1>4. dead.task[t].parent \in Slot \cup {NULL}
  <2>1. dead.task[t] \in TaskRecord
    BY <1>1, <1>3 DEF KernelState
  <2> QED BY <2>1 DEF TaskRecord
<1>5. task_exit(s) = schedule(Disown(WakeParent(dead, dead.task[t].parent), t))
  BY DEF task_exit, dead, d
<1> QED BY <1>3, <1>4, <1>5, WakeParentType, DisownType, ScheduleType

-----------------------------------------------------------------------------
(* The watchdog entry *)

\* Every back-off delay is a natural number.
LEMMA BackoffType ==
  ASSUME NEW n \in 0 .. WD_MAX_RESTARTS
  PROVE  Backoff[n] \in Nat
<1> DEFINE N == WD_MAX_RESTARTS
           S == Nat
           G == [i \in 1 .. N |-> [x \in Nat |-> 2 * x]]
<1>1. N \in Nat /\ G \in [1 .. N -> [S -> S]] /\ WD_BACKOFF_BASE \in S
  BY KernelConstants
<1>2. PICK h \in [0 .. N -> S] :
         h = [i \in 0 .. N |-> IF i = 0 THEN WD_BACKOFF_BASE ELSE G[i][h[i - 1]]]
  <2> DEFINE a == WD_BACKOFF_BASE
  <2>1. a \in S /\ N \in Nat /\ G \in [1 .. N -> [S -> S]]
    BY <1>1
  <2> HIDE DEF G, N, S, a
  <2>2. \E h \in [0 .. N -> S] : h = [i \in 0 .. N |-> IF i = 0 THEN a ELSE G[i][h[i - 1]]]
    BY ONLY <2>1, FoldExists
  <2> QED BY ZenonT(60), <2>2 DEF a
<1> HIDE DEF N
<1>3. \A i \in 0 .. N : i # 0 => i - 1 \in 0 .. N /\ i \in 1 .. N
  BY <1>1
<1>4. \A i \in 0 .. N : i # 0 => G[i][h[i - 1]] = 2 * h[i - 1]
  BY ZenonT(60), <1>2, <1>3
<1>5. h = [i \in 0 .. N |-> IF i = 0 THEN WD_BACKOFF_BASE ELSE 2 * h[i - 1]]
  BY ZenonT(60), <1>2, <1>4
<1>6. Backoff = CHOOSE g : g = [i \in 0 .. N |-> IF i = 0 THEN WD_BACKOFF_BASE ELSE 2 * g[i - 1]]
  BY DEF Backoff, N
<1>7. Backoff = [i \in 0 .. N |-> IF i = 0 THEN WD_BACKOFF_BASE ELSE 2 * Backoff[i - 1]]
  BY ZenonT(60), <1>5, <1>6, Zenon
<1> DEFINE F == {m \in Nat : m <= N => Backoff[m] \in Nat}
<1>8. 0 \in F
  BY <1>1, <1>7
<1>9. ASSUME NEW m \in Nat, m \in F PROVE m + 1 \in F
  <2> SUFFICES ASSUME m + 1 <= N PROVE Backoff[m + 1] \in Nat
    OBVIOUS
  <2>1. m + 1 \in 0 .. N /\ m + 1 # 0 /\ (m + 1) - 1 = m /\ m <= N
    BY <1>1
  <2>2. Backoff[m + 1] = IF m + 1 = 0 THEN WD_BACKOFF_BASE ELSE 2 * Backoff[(m + 1) - 1]
    BY ZenonT(60), <1>7, <2>1, Zenon
  <2>3. Backoff[m + 1] = 2 * Backoff[m]
    BY ZenonT(60), <2>1, <2>2, Zenon
  <2>4. Backoff[m] \in Nat
    BY <1>9, <2>1
  <2> QED BY <2>3, <2>4
<1>10. Nat \subseteq F
  <2> HIDE DEF F
  <2> QED BY <1>8, <1>9, NatSetInduction
<1> QED BY <1>1, <1>10 DEF N

\* Advancing the age of the shell keeps the type of the entry.
LEMMA SeenType ==
  ASSUME NEW e \in WatchdogEntry
  PROVE  LET seen == [e EXCEPT !.life = Min({@ + 1, WD_UNSTABLE_TICKS})]
         IN  /\ seen \in WatchdogEntry /\ seen.task = e.task /\ seen.delay_ticks = e.delay_ticks
             /\ seen.restarts = e.restarts
<1> DEFINE v == Min({e.life + 1, WD_UNSTABLE_TICKS})
<1>1. e.life \in Nat /\ WD_UNSTABLE_TICKS \in Nat
  BY KernelConstants DEF WatchdogEntry
<1>2. {e.life + 1, WD_UNSTABLE_TICKS} \in SUBSET Nat
  BY <1>1
<1>3. v \in {e.life + 1, WD_UNSTABLE_TICKS} /\ v <= WD_UNSTABLE_TICKS
  BY <1>2, MinNat
<1>4. v \in 0 .. WD_UNSTABLE_TICKS
  <2> HIDE DEF v
  <2> QED BY <1>1, <1>3
<1> HIDE DEF v
<1>5. LET seen == [e EXCEPT !.life = v]
         IN  /\ seen \in WatchdogEntry /\ seen.task = e.task /\ seen.delay_ticks = e.delay_ticks
             /\ seen.restarts = e.restarts
  BY <1>4 DEF WatchdogEntry
<1> QED BY <1>5 DEF v

\* Counting the delay down keeps the type of the entry: it does not pass 0.
LEMMA CountDownType ==
  ASSUME NEW e \in WatchdogEntry, e.delay_ticks > 0
  PROVE  CountDown(e) \in WatchdogEntry /\ CountDown(e).task = e.task
<1> DEFINE d == e.delay_ticks - 1
           b == e.spawn_due \/ e.delay_ticks = 1
<1>1. d \in Nat /\ b \in BOOLEAN
  BY DEF WatchdogEntry
<1>2. CountDown(e) = [e EXCEPT !.delay_ticks = d, !.spawn_due = b]
  BY DEF CountDown
<1> HIDE DEF d, b
<1> QED BY ZenonT(60), <1>1, <1>2 DEF WatchdogEntry

\* Deciding about a restart keeps the type of the entry.
LEMMA RestartType ==
  ASSUME NEW e \in WatchdogEntry
  PROVE  Restart(e) \in WatchdogEntry
<1> DEFINE unstable == IF e.life < WD_UNSTABLE_TICKS THEN e.unstable + 1 ELSE 0
           let_go == [e EXCEPT !.unstable = unstable, !.task = NULL]
<1>1. unstable \in Nat
  BY DEF WatchdogEntry
<1> HIDE DEF unstable
<1>2. let_go \in WatchdogEntry /\ let_go.restarts = e.restarts
  BY ZenonT(60), <1>1 DEF WatchdogEntry
<1> HIDE DEF let_go
<1>3. e.restarts \in Nat
  BY DEF WatchdogEntry
<1>4. e.restarts + 1 <= WD_MAX_RESTARTS => Backoff[e.restarts] \in Nat
  BY <1>3, BackoffType, KernelConstants
<1>5. let_go.restarts + 1 \in Nat
  BY <1>2, <1>3
<1>6. [let_go EXCEPT !.active = FALSE] \in WatchdogEntry
  BY ZenonT(60), <1>2 DEF WatchdogEntry
<1> DEFINE rst == let_go.restarts + 1
           bk == Backoff[e.restarts]
<1>7. [let_go EXCEPT !.restarts = rst, !.active = FALSE] \in WatchdogEntry
  <2> HIDE DEF rst
  <2> QED BY ZenonT(60), <1>2, <1>5 DEF WatchdogEntry, rst
<1>8. bk \in Nat => [let_go EXCEPT !.restarts = rst, !.delay_ticks = bk] \in WatchdogEntry
  <2>1. rst \in Nat
    BY <1>5
  <2> HIDE DEF rst, bk
  <2> QED BY ZenonT(60), <1>2, <2>1 DEF WatchdogEntry
<1>9. Restart(e) = IF unstable >= WD_UNSTABLE_LIMIT THEN [let_go EXCEPT !.active = FALSE]
        ELSE IF e.restarts + 1 > WD_MAX_RESTARTS
             THEN [let_go EXCEPT !.restarts = rst, !.active = FALSE]
             ELSE [let_go EXCEPT !.restarts = rst, !.delay_ticks = bk]
  BY DEF Restart, let_go, unstable
<1>10. e.restarts + 1 > WD_MAX_RESTARTS \/ bk \in Nat
  BY <1>3, <1>4, KernelConstants
<1> HIDE DEF rst, bk
<1> QED BY <1>6, <1>7, <1>8, <1>9, <1>10

\* The entry changes its pointer only by letting go of a dead task.
LEMMA WatchdogTickType ==
  ASSUME NEW s, NEW e \in WatchdogEntry
  PROVE  LET e1 == watchdog_tick(s, e)
         IN  /\ e1 \in WatchdogEntry
             /\ e.task # NULL /\ e1.task = NULL => s.task[e.task].state = "EXITED"
<1> DEFINE seen == [e EXCEPT !.life = Min({@ + 1, WD_UNSTABLE_TICKS})]
<1>1. seen \in WatchdogEntry /\ seen.task = e.task /\ seen.delay_ticks = e.delay_ticks
  BY SeenType
<1>2. watchdog_tick(s, e) =
        IF ~e.active \/ (e.task # NULL /\ s.task[e.task].state # "EXITED") THEN seen
        ELSE IF e.delay_ticks > 0 THEN CountDown(seen)
        ELSE IF e.task # NULL THEN Restart(seen)
        ELSE [seen EXCEPT !.spawn_due = TRUE]
  BY DEF watchdog_tick
<1> HIDE DEF seen
<1>3. [seen EXCEPT !.spawn_due = TRUE] \in WatchdogEntry
  BY ZenonT(60), <1>1 DEF WatchdogEntry
<1>4. seen.delay_ticks > 0 => CountDown(seen) \in WatchdogEntry
  BY <1>1, CountDownType
<1>5. Restart(seen) \in WatchdogEntry
  BY <1>1, RestartType
<1> QED BY <1>1, <1>2, <1>3, <1>4, <1>5

-----------------------------------------------------------------------------
(* Type correctness *)

\* The state at the end of boot is well typed.
LEMMA InitType == Init => TypeOK
<1> SUFFICES ASSUME Init PROVE TypeOK
  OBVIOUS
<1> DEFINE T == [t \in Task |-> IF t = 1 THEN ShellTask ELSE ZeroTask]
           R == [q \in Queue |-> IF q = 1 THEN <<1>> ELSE << >>]
<1>1. ShellTask \in TaskRecord
  <2>1. SYSTEM \in Tier /\ 1 \in Queue /\ "READY" \in TaskState
    BY DEF Tier, SYSTEM, Queue, TaskState
  <2> QED BY ZenonT(60), <2>1, NewTaskType DEF ShellTask, TaskRecord
<1>2. T \in [Task -> TaskRecord]
  BY <1>1, ZeroTaskType
<1>3. R \in [Queue -> Seq(Slot)]
  <2>1. 1 \in Slot
    BY SchedConstants DEF Slot
  <2>2. <<1>> \in Seq(Slot) /\ << >> \in Seq(Slot)
    BY <2>1
  <2> QED BY <2>2
<1>4. k = [task |-> T, rq |-> R, cur |-> Idle, slice |-> 0]
  BY DEF Init
<1> HIDE DEF T, R
<1>5. k \in KernelState
  BY <1>2, <1>3, <1>4, SlotFacts DEF KernelState
<1>6. wd \in WatchdogEntry
  BY SchedConstants, KernelConstants DEF Init, WatchdogEntry, Slot
<1>7. idle \in IdleLoop
  BY DEF Init, IdleLoop
<1>8. tick \in 0 .. TICK_WRAP - 1
  BY KernelConstants DEF Init
<1> QED BY <1>5, <1>6, <1>7, <1>8 DEF TypeOK

\* An interrupt leaves the idle loop at one of its control points.
LEMMA WakeIdleType ==
  ASSUME idle \in IdleLoop
  PROVE  WakeIdle \in IdleLoop
BY DEF WakeIdle, IdleLoop

\* The watchdog freeing a slot keeps the type.
LEMMA ReapType ==
  ASSUME NEW s \in KernelState, NEW e \in WatchdogEntry, NEW e1
  PROVE  WatchdogReap(s, e, e1) \in KernelState
<1>1. e.task \in Slot \cup {NULL}
  BY DEF WatchdogEntry
<1> QED BY <1>1, FreeType DEF WatchdogReap

\* The timer interrupt keeps the type.
LEMMA TickType ==
  ASSUME TypeOK, pit_handler
  PROVE  TypeOK'
<1>1. k \in KernelState /\ wd \in WatchdogEntry /\ idle \in IdleLoop /\ tick \in 0 .. TICK_WRAP - 1
  BY DEF TypeOK
<1>2. idle' \in IdleLoop /\ tick' \in 0 .. TICK_WRAP - 1
  BY <1>1, WakeIdleType, KernelConstants DEF pit_handler
<1>3. CASE KilledAtTick
  <2> DEFINE s == [k EXCEPT !.task[k.cur].kill_pending = FALSE]
  <2>1. s \in KernelState
    BY ZenonT(60), <1>1, CurrentTyped, PutKill
  <2>2. k' = task_exit(s) /\ wd' = wd
    BY <1>3 DEF KilledAtTick
  <2> HIDE DEF s
  <2> QED BY <1>1, <1>2, <2>1, <2>2, ExitType DEF TypeOK
<1>4. CASE ChargedAtTick(tick')
  <2> DEFINE now == tick'
             charged  == ChargeMlfq(ChargeQuota(k))
             checked  == IF now % WATCHDOG_TICKS = 0 THEN watchdog_tick(charged, wd) ELSE wd
             reaped   == WatchdogReap(charged, wd, checked)
             aged     == IF now % MLFQ_AGING_TICKS = 0 THEN task_mlfq_aging(reaped) ELSE reaped
             refilled == IF now % QUOTA_PERIOD_TICKS = 0 THEN task_quota_period_reset(aged) ELSE aged
  <2>1. charged \in KernelState
    BY <1>1, ChargeQuotaType, ChargeMlfqType
  <2>2. checked \in WatchdogEntry
    BY <1>1, WatchdogTickType
  <2>3. reaped \in KernelState
    BY <1>1, <2>1, ReapType
  <2>4. aged \in KernelState
    BY <2>3, AgingType
  <2>5. refilled \in KernelState
    BY <2>4, QuotaResetType
  <2>6. k' = schedule(refilled) /\ wd' = checked
    BY <1>4 DEF ChargedAtTick
  <2> HIDE DEF refilled, checked
  <2> QED BY <1>2, <2>2, <2>5, <2>6, ScheduleType DEF TypeOK
<1> QED BY <1>3, <1>4 DEF pit_handler

\* The first free slot is a slot that is not in use.
LEMMA FreeSlotType ==
  ASSUME NEW s, FreeSlots(s) # {}
  PROVE  Min(FreeSlots(s)) \in Slot /\ ~s.task[Min(FreeSlots(s))].in_use
<1>1. FreeSlots(s) \in SUBSET Slot
  BY DEF FreeSlots
<1>2. Min(FreeSlots(s)) \in FreeSlots(s)
  BY <1>1, MinSlot
<1> QED BY <1>2 DEF FreeSlots

\* The struct sys_fork fills in is well typed.
LEMMA ForkChildType ==
  ASSUME k \in KernelState, NEW p \in Slot, NEW quota \in CpuQuotas, NEW tier \in ForkTiers
  PROVE  LET c == ForkChild(p, quota, tier)
         IN  /\ c \in TaskRecord /\ c.in_use /\ c.state = "READY" /\ ~c.quota_done
             /\ c.cpu_quota = InheritQuota(k.task[p].cpu_quota, quota)
<1> DEFINE x == k.task[p]
           v == IF tier # 0 THEN tier ELSE x.tier
           w == IF tier # 0 THEN tier ELSE x.tier_override
           u == InheritQuota(x.cpu_quota, quota)
<1>1. x \in TaskRecord
  BY SlotFacts DEF KernelState
<1> HIDE DEF x
<1>2. x.tier \in Tier /\ x.tier_override \in Tier \cup {NULL} /\ x.cpu_quota \in 0 .. 100
  BY <1>1 DEF TaskRecord
<1>3. v \in Tier /\ w \in Tier \cup {NULL}
  BY <1>2, KernelConstants
<1>4. u \in 0 .. 100
  BY <1>2, KernelConstants DEF InheritQuota, Min2
<1>5. ForkChild(p, quota, tier) = [NewTask EXCEPT !.state = "READY", !.parent = p, !.tier = v,
                                                  !.tier_override = w, !.cpu_quota = u]
  BY DEF ForkChild, x
<1> HIDE DEF v, w, u
<1>6. LET c == [NewTask EXCEPT !.state = "READY", !.parent = p, !.tier = v,
                               !.tier_override = w, !.cpu_quota = u]
      IN  c \in TaskRecord /\ c.in_use /\ c.state = "READY" /\ ~c.quota_done /\ c.cpu_quota = u
  BY ZenonT(60), <1>3, <1>4, NewTaskType DEF TaskRecord, TaskState
<1> QED BY <1>5, <1>6 DEF u, x

\* A turn of the loop of sys_wait keeps the type.
LEMMA WaitLoopType ==
  ASSUME k \in KernelState, NEW pid \in Slot \cup {NULL, AnyChild}, WaitLoop(pid)
  PROVE  k' \in KernelState
<1> DEFINE t == k.cur
           child == task_find_child(k, t, pid)
           s == [k EXCEPT !.task[t].wait = NULL]
           b == [k EXCEPT !.task[t].state = "WAITING"]
           w == [b EXCEPT !.task[t].wait = pid]
           w2 == [k EXCEPT !.task[t].state = "WAITING", !.task[t].wait = pid]
<1>1. t \in Task
  BY CurrentTyped
<1>2. s \in KernelState
  BY <1>1, PutWait
<1>3. b \in KernelState
  <2>1. "WAITING" \in TaskState
    BY DEF TaskState
  <2> QED BY <1>1, <2>1, PutState
<1>4. w2 = w
  BY <1>1 DEF KernelState
<1> HIDE DEF b
<1>5. w \in KernelState
  BY <1>1, <1>3, PutWait
<1>6. k' = IF child = NULL THEN s
           ELSE IF k.task[child].state = "EXITED" THEN free_task_slot(s, child)
           ELSE schedule(dequeue_task(w2, t))
  BY DEF WaitLoop
<1> HIDE DEF w, w2, s
<1>7. dequeue_task(w2, t) \in KernelState
  BY <1>1, <1>4, <1>5, DequeueFields
<1>8. child # NULL => child \in Slot
  BY FindChildType
<1> HIDE DEF child, t
<1> QED BY <1>2, <1>6, <1>7, <1>8, FreeType, ScheduleType

\* The struct create_task fills in is well typed.
LEMMA SpawnedType ==
  LET c == [NewTask EXCEPT !.state = "READY", !.tier = USER, !.tier_override = NULL]
  IN  /\ c \in TaskRecord /\ c.in_use /\ c.state = "READY" /\ c.mlfq_level = 0
      /\ c.cpu_quota = 0 /\ ~c.quota_done
<1>1. USER \in Tier /\ "READY" \in TaskState
  BY DEF Tier, USER, TaskState
<1> QED BY ZenonT(60), <1>1, NewTaskType DEF TaskRecord

\* From create_task to the return of spawn_user_process there is a new shell.
NewSlotKnown == idle.pc \in {"enqueue", "record"} => idle.new \in Slot

\* Every step keeps the type.
LEMMA NextType ==
  ASSUME TypeOK, NewSlotKnown, [Next]_vars
  PROVE  TypeOK'
<1>1. k \in KernelState /\ wd \in WatchdogEntry /\ idle \in IdleLoop /\ tick \in 0 .. TICK_WRAP - 1
  BY DEF TypeOK
<1>2. k.cur \in Task
  BY <1>1, CurrentTyped
<1>3. ASSUME NEW call, SystemCall(call), k' \in KernelState PROVE TypeOK'
  BY <1>1, <1>3 DEF SystemCall, TypeOK
<1>4. InUser => k.cur \in Slot
  BY <1>2 DEF InUser, Task
<1>5. ASSUME NEW pc \in {"halt", "spawn", "schedule"}, IdleGoto(pc) PROVE idle' \in IdleLoop
  BY <1>5 DEF IdleGoto, IdleLoop
<1>6. ASSUME NEW pc \in {"record", "test", "load", "stamp", "schedule"}
      PROVE  [idle EXCEPT !.pc = pc] \in IdleLoop
  BY <1>1 DEF IdleLoop
<1>7. CASE pit_handler
  BY <1>7, TickType
<1>8. CASE OtherInterrupt
  BY <1>1, <1>8, WakeIdleType DEF OtherInterrupt, TypeOK
<1>9. CASE Yield
  BY <1>1, <1>3, <1>9, YieldType DEF Yield
<1>10. CASE Exit
  BY <1>1, <1>3, <1>10, ExitType DEF Exit
<1>11. ASSUME NEW quota \in CpuQuotas, NEW tier \in ForkTiers, Fork(quota, tier) PROVE TypeOK'
  <2> DEFINE c == Min(FreeSlots(k))
             x == ForkChild(k.cur, quota, tier)
             s == [k EXCEPT !.task[c] = x]
  <2>1. SystemCall("fork") /\ k' = enqueue_task(s, c) /\ FreeSlots(k) # {}
    BY <1>11 DEF Fork
  <2>2. c \in Slot /\ c \in Task /\ k.cur \in Slot
    BY <1>4, <2>1, FreeSlotType, SlotFacts DEF SystemCall
  <2>3. x \in TaskRecord
    BY <1>1, <2>2, ForkChildType
  <2> HIDE DEF c, x
  <2>4. s \in KernelState
    BY <1>1, <2>2, <2>3, SetTask
  <2> HIDE DEF s
  <2> QED BY <1>3, <2>1, <2>2, <2>4, EnqueueType
<1>12. CASE OutOfMemory
  <2>1. CRITICAL \in Tier
    BY DEF Tier, CRITICAL
  <2>2. [k EXCEPT !.task[k.cur].tier = CRITICAL] \in KernelState
    BY <1>1, <1>2, <2>1, PutTier
  <2> QED BY <1>3, <1>12, <2>2 DEF OutOfMemory
<1>13. ASSUME NEW tier \in {SYSTEM, USER}, Exec(tier) PROVE TypeOK'
  <2>1. tier \in Tier
    BY DEF Tier, SYSTEM, USER
  <2> QED BY ZenonT(60), <1>1, <1>3, <1>13, <2>1, SetTierCurrent DEF Exec
<1>14. ASSUME NEW pid \in Slot \cup {AnyChild}, Wait(pid) PROVE TypeOK'
  BY <1>1, <1>3, <1>14, WaitLoopType DEF Wait
<1>15. CASE WaitResume
  <2>1. k.task[k.cur].wait \in Slot \cup {NULL, AnyChild}
    <3>1. k.task[k.cur] \in TaskRecord
      BY <1>1, CurrentTyped
    <3> QED BY <3>1 DEF TaskRecord
  <2>2. WaitLoop(k.task[k.cur].wait) /\ UNCHANGED <<tick, wd, idle>>
    BY <1>15 DEF WaitResume
  <2>3. k' \in KernelState
    BY <1>1, <2>1, <2>2, WaitLoopType
  <2> QED BY <1>1, <2>2, <2>3 DEF TypeOK
<1>16. ASSUME NEW pid \in Slot \cup {AnyChild}, Kill(pid) PROVE TypeOK'
  <2> DEFINE child == task_find_child(k, k.cur, pid)
  <2>1. SystemCall("kill") /\ child # NULL /\ k' = [k EXCEPT !.task[child].kill_pending = TRUE]
    BY <1>16 DEF Kill
  <2>2. child \in Task
    BY <2>1, FindChildType, SlotFacts
  <2> HIDE DEF child
  <2>3. k' \in KernelState
    BY ZenonT(60), <1>1, <2>1, <2>2, PutKill
  <2> QED BY <1>3, <2>1, <2>3
<1>17. ASSUME NEW tier \in Tiers, TierRequest(tier) PROVE TypeOK'
  <2>1. tier \in Tier
    BY KernelConstants
  <2> QED BY ZenonT(60), <1>1, <1>3, <1>17, <2>1, SetTierCurrent DEF TierRequest
<1>18. ASSUME NEW tier \in Tiers, SetTier(tier) PROVE TypeOK'
  <2> DEFINE s == task_set_tier(k, k.cur, tier)
  <2>1. tier \in Tier
    BY KernelConstants
  <2>2. s \in KernelState
    BY ZenonT(60), <1>1, <2>1, SetTierCurrent
  <2>3. SystemCall("set_tier") /\ k' = [s EXCEPT !.task[k.cur].tier_override = tier]
    BY <1>18 DEF SetTier
  <2> HIDE DEF s
  <2>4. k' \in KernelState
    BY <1>2, <2>1, <2>2, <2>3, PutOverride
  <2> QED BY <1>3, <2>3, <2>4
<1>19. CASE Boot
  <2>1. k' = schedule(k) /\ IdleGoto("halt") /\ UNCHANGED <<tick, wd>>
    BY <1>19 DEF Boot, IdleAt
  <2> QED BY <1>1, <1>5, <2>1, ScheduleType DEF TypeOK
<1>20. CASE WatchdogCheck
  <2>1. UNCHANGED <<k, tick>> /\ (IdleGoto("spawn") \/ IdleGoto("schedule"))
    BY <1>20 DEF WatchdogCheck, IdleAt
  <2>2. wd' \in WatchdogEntry
    BY ZenonT(60), <1>1, <1>20 DEF WatchdogCheck, WatchdogEntry
  <2> QED BY <1>1, <1>5, <2>1, <2>2 DEF TypeOK
<1>21. CASE SpawnFails
  <2>1. UNCHANGED <<k, tick>> /\ IdleGoto("schedule")
    BY <1>21 DEF SpawnFails, IdleAt
  <2>2. wd' \in WatchdogEntry
    BY ZenonT(60), <1>1, <1>21 DEF SpawnFails, WatchdogEntry
  <2> QED BY <1>1, <1>5, <2>1, <2>2 DEF TypeOK
<1>22. CASE SpawnCreate
  <2> DEFINE c == Min(FreeSlots(k))
             x == [NewTask EXCEPT !.state = "READY", !.tier = USER, !.tier_override = NULL]
  <2>1. /\ FreeSlots(k) # {} /\ k' = [k EXCEPT !.task[c] = x] /\ idle' = [pc |-> "enqueue", new |-> c]
        /\ UNCHANGED <<tick, wd>>
    BY <1>22 DEF SpawnCreate, IdleAt
  <2>2. c \in Slot /\ c \in Task /\ x \in TaskRecord
    BY <2>1, FreeSlotType, SlotFacts, SpawnedType
  <2> HIDE DEF c, x
  <2>3. k' \in KernelState
    BY <1>1, <2>1, <2>2, SetTask
  <2>4. idle' \in IdleLoop
    BY <2>1, <2>2 DEF IdleLoop
  <2> QED BY <1>1, <2>1, <2>3, <2>4 DEF TypeOK
<1>23. CASE SpawnEnqueue
  <2> DEFINE s == [k EXCEPT !.task[idle.new].tier = SYSTEM]
  <2>1. k' = enqueue_task(s, idle.new) /\ idle' = [idle EXCEPT !.pc = "record"] /\ UNCHANGED <<tick, wd>>
    BY <1>23 DEF SpawnEnqueue, IdleAt
  <2>2. SYSTEM \in Tier /\ idle.new \in Slot /\ idle.new \in Task
    BY <1>23, SlotFacts DEF Tier, SYSTEM, SpawnEnqueue, IdleAt, NewSlotKnown
  <2>3. s \in KernelState
    BY <1>1, <2>2, PutTier
  <2> HIDE DEF s
  <2>4. k' \in KernelState
    BY <2>1, <2>2, <2>3, EnqueueType
  <2> QED BY <1>1, <1>6, <2>1, <2>4 DEF TypeOK
<1>24. CASE SpawnRecord
  <2>1. wd' = [wd EXCEPT !.task = idle.new] /\ idle' = [idle EXCEPT !.pc = "test"] /\ UNCHANGED <<k, tick>>
    BY <1>24 DEF SpawnRecord, IdleAt
  <2>2. idle.new \in Slot \cup {NULL}
    BY <1>1 DEF IdleLoop
  <2>3. wd' \in WatchdogEntry
    BY <1>1, <2>1, <2>2 DEF WatchdogEntry
  <2> QED BY <1>1, <1>6, <2>1, <2>3 DEF TypeOK
<1>25. CASE SpawnMark
  <2>1. /\ k' = IF idle.new = NULL THEN k ELSE [k EXCEPT !.task[idle.new].wd_managed = TRUE]
        /\ idle' = [idle EXCEPT !.pc = "stamp"] /\ UNCHANGED <<tick, wd>>
    BY <1>25 DEF SpawnMark, IdleAt
  <2>2. idle.new # NULL => idle.new \in Task
    BY <1>1, SlotFacts DEF IdleLoop
  <2>3. k' \in KernelState
    BY ZenonT(60), <1>1, <2>1, <2>2, PutManaged
  <2> QED BY <1>1, <1>6, <2>1, <2>3 DEF TypeOK
<1>26. CASE IdleSchedule
  <2>1. k' = schedule(k) /\ IdleGoto("halt") /\ UNCHANGED <<tick, wd>>
    BY <1>26 DEF IdleSchedule, IdleAt
  <2> QED BY <1>1, <1>5, <2>1, ScheduleType DEF TypeOK
<1>27. CASE UNCHANGED vars
  BY <1>1, <1>27 DEF vars, TypeOK
<1>28. CASE SpawnTest
  <2>1. /\ UNCHANGED <<k, tick>>
        /\ IdleGoto("schedule") \/ idle' = [idle EXCEPT !.pc = "load"]
    BY <1>28 DEF SpawnTest, IdleAt
  <2>2. wd' \in WatchdogEntry
    BY ZenonT(60), <1>1, <1>28 DEF SpawnTest, WatchdogEntry
  <2> QED BY <1>1, <1>5, <1>6, <2>1, <2>2 DEF TypeOK
<1>29. CASE SpawnLoad
  <2>1. idle' = [pc |-> "mark", new |-> wd.task] /\ UNCHANGED <<k, tick, wd>>
    BY <1>29 DEF SpawnLoad, IdleAt
  <2>2. wd.task \in Slot \cup {NULL}
    BY <1>1 DEF WatchdogEntry
  <2>3. idle' \in IdleLoop
    BY <2>1, <2>2 DEF IdleLoop
  <2> QED BY <1>1, <2>1, <2>3 DEF TypeOK
<1>30. CASE SpawnStamp
  <2>1. /\ wd' = [wd EXCEPT !.life = 0] /\ idle' = [idle EXCEPT !.pc = "schedule"]
        /\ UNCHANGED <<k, tick>>
    BY <1>30 DEF SpawnStamp, IdleAt
  <2>2. wd' \in WatchdogEntry
    BY <1>1, <2>1, KernelConstants DEF WatchdogEntry
  <2> QED BY <1>1, <1>6, <2>1, <2>2 DEF TypeOK
<1> QED
  BY <1>7, <1>8, <1>9, <1>10, <1>11, <1>12, <1>13, <1>14, <1>15, <1>16, <1>17, <1>18,
     <1>19, <1>20, <1>21, <1>22, <1>23, <1>24, <1>25, <1>26, <1>27, <1>28, <1>29, <1>30 DEF Next

\* Every step keeps NewSlotKnown.
LEMMA NextNewSlot ==
  ASSUME TypeOK, NewSlotKnown, [Next]_vars
  PROVE  NewSlotKnown'
<1>1. idle \in IdleLoop
  BY DEF TypeOK
<1>2. CASE UNCHANGED idle
  BY <1>2 DEF NewSlotKnown
<1>3. CASE idle' = WakeIdle
  BY <1>1, <1>3 DEF WakeIdle, NewSlotKnown, IdleLoop
<1>4. ASSUME NEW pc \in {"halt", "spawn", "schedule"}, IdleGoto(pc) PROVE NewSlotKnown'
  BY <1>4 DEF IdleGoto, NewSlotKnown
<1>5. CASE SpawnCreate
  <2>1. FreeSlots(k) # {} /\ idle' = [pc |-> "enqueue", new |-> Min(FreeSlots(k))]
    BY <1>5 DEF SpawnCreate
  <2>2. Min(FreeSlots(k)) \in Slot
    BY <2>1, FreeSlotType
  <2> QED BY <2>1, <2>2 DEF NewSlotKnown
<1>6. CASE SpawnEnqueue \/ SpawnRecord \/ SpawnMark \/ SpawnStamp
  BY <1>1, <1>6 DEF SpawnEnqueue, SpawnRecord, SpawnMark, SpawnStamp, IdleAt, NewSlotKnown, IdleLoop
<1>8. CASE SpawnTest \/ SpawnLoad
  BY <1>1, <1>4, <1>8 DEF SpawnTest, SpawnLoad, NewSlotKnown, IdleLoop
<1>7. \/ UNCHANGED idle
      \/ idle' = WakeIdle
      \/ \E pc \in {"halt", "spawn", "schedule"} : IdleGoto(pc)
      \/ SpawnCreate
      \/ SpawnEnqueue \/ SpawnRecord \/ SpawnMark \/ SpawnStamp
      \/ SpawnTest \/ SpawnLoad
  BY ZenonT(60), Zenon DEF Next, vars, pit_handler, OtherInterrupt, SystemCall, Yield, Exit, Fork, OutOfMemory, Exec,
         Wait, WaitResume, Kill, TierRequest, SetTier, Boot, WatchdogCheck, SpawnFails, IdleSchedule
<1> QED BY <1>2, <1>3, <1>4, <1>5, <1>6, <1>7, <1>8

(***************************************************************************)
(* Every variable keeps its type, whatever the constants: levels, queue    *)
(* indices, slices and slots stay in their ranges in every handler of      *)
(* sched.c, task.c, process.c and watchdog.c.                              *)
(***************************************************************************)
THEOREM TypeCorrect == Spec => []TypeOK
<1>1. Init => TypeOK /\ NewSlotKnown
  BY InitType DEF Init, NewSlotKnown
<1>2. TypeOK /\ NewSlotKnown /\ [Next]_vars => (TypeOK /\ NewSlotKnown)'
  BY NextType, NextNewSlot
<1> QED BY <1>1, <1>2, PTL DEF Spec

=============================================================================
