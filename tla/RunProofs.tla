------------------------------ MODULE RunProofs -----------------------------
(*****************************************************************************)
(* The queue discipline of module QueueProofs through the operations on the  *)
(* running task: a new or freed struct, ageing, charging, one field of the   *)
(* current struct, and yield.                                                *)
(*****************************************************************************)
EXTENDS SchedProofs

\* The queue discipline between two handlers: only the running task is outside it.
Good(s, n) == Disc(s, {s.cur}, n) /\ Runnable(s)

\* The fields of a task struct that the ready queues depend on.
SameShape(x, y) ==
    /\ x.in_use = y.in_use /\ x.state = y.state /\ x.tier = y.tier
    /\ x.mlfq_level = y.mlfq_level /\ x.cur_queue = y.cur_queue
    /\ x.cpu_quota = y.cpu_quota /\ x.quota_done = y.quota_done

\* Each leaf goes to the SMT solver unless it names another prover.
USE SMTT(60)

\* current_task is a task with a well-typed struct.
LEMMA CurrentTyped ==
  ASSUME NEW s \in KernelState
  PROVE  s.cur \in Task /\ s.task[s.cur] \in TaskRecord
BY DEF KernelState

\* Fields other than those of SameShape do not matter to the discipline.
LEMMA Neutral ==
  ASSUME NEW s, NEW C, NEW n, Disc(s, C, n), NEW r \in KernelState, r.rq = s.rq,
         \A t \in Task : SameShape(r.task[t], s.task[t])
  PROVE  Disc(r, C, n)
<1>1. \A q, t : On(r, q, t) <=> On(s, q, t)
  BY DEF On
<1>2. Linear(r)
  BY DEF Linear, Disc
<1>3. NoQuota(r)
  BY DEF NoQuota, Disc, SameShape
<1>4. \A t \in Slot : task_qidx(r, t) = task_qidx(s, t)
  BY SlotFacts DEF task_qidx, SameShape
<1>5. \A t \in Slot : /\ r.task[t].in_use = s.task[t].in_use /\ r.task[t].state = s.task[t].state
                      /\ r.task[t].cur_queue = s.task[t].cur_queue
                      /\ r.task[t].mlfq_level = s.task[t].mlfq_level
  BY SlotFacts DEF SameShape
<1> QED BY <1>1, <1>2, <1>3, <1>4, <1>5 DEF Disc

\* The same, for a change of one struct.
LEMMA NeutralTask ==
  ASSUME NEW s, NEW C, NEW n, Disc(s, C, n), NEW t \in Task, NEW y \in TaskRecord,
         SameShape(y, s.task[t])
  PROVE  LET r == [s EXCEPT !.task[t] = y]
         IN  /\ Disc(r, C, n) /\ r.cur = s.cur
             /\ \A u \in Task : SameShape(r.task[u], s.task[u])
<1> DEFINE r == [s EXCEPT !.task[t] = y]
<1>1. s \in KernelState
  BY DEF Disc
<1>2. /\ r \in KernelState /\ r.task[t] = y /\ r.rq = s.rq /\ r.cur = s.cur
      /\ \A u \in Task : u # t => r.task[u] = s.task[u]
  BY <1>1, SetTask
<1> HIDE DEF r
<1>3. \A u \in Task : SameShape(r.task[u], s.task[u])
  BY <1>2 DEF SameShape
<1> QED BY ZenonT(60), <1>2, <1>3, Neutral DEF r

\* The running task may change anything that keeps it runnable.
LEMMA CurrentChange ==
  ASSUME NEW s, NEW n, Good(s, n), NEW y \in TaskRecord,
         y.in_use = s.task[s.cur].in_use, y.cur_queue = s.task[s.cur].cur_queue,
         y.cpu_quota = 0, ~y.quota_done,
         y.state = s.task[s.cur].state \/ y.state \in {"RUNNING", "READY"},
         NEW r, r = [s EXCEPT !.task[s.cur] = y]
  PROVE  Good(r, n) /\ r.cur = s.cur /\ r.rq = s.rq /\ r.task[r.cur] = y
<1>1. s \in KernelState
  BY DEF Good, Disc
<1>2. s.cur \in Task
  BY <1>1, CurrentTyped
<1>3. r \in KernelState /\ r.cur = s.cur /\ r.task[s.cur] = y /\ r.rq = s.rq
  BY <1>1, <1>2, SetTask
<1>4. s.cur \in Slot => s.task[s.cur].in_use
  BY SlotFacts DEF Good, Runnable
<1>5. Disc(s, {s.cur}, n)
  BY DEF Good
<1>6. Disc(r, {s.cur}, n)
  BY <1>2, <1>4, <1>5, ExemptChange
<1>7. Runnable(r)
  BY <1>3 DEF Good, Runnable
<1> QED BY <1>3, <1>6, <1>7 DEF Good

\* A new task is linked nowhere and joins as an exception.
LEMMA NewDisc ==
  ASSUME NEW s, NEW C, NEW n, Disc(s, C, n), NEW t \in Slot, ~s.task[t].in_use, t \notin C,
         NEW y \in TaskRecord, y.in_use, y.state = "READY", y.cpu_quota = 0, ~y.quota_done
  PROVE  LET r == [s EXCEPT !.task[t] = y]
         IN  /\ Disc(r, C \cup {t}, n) /\ Unlinked(r, t) /\ t # n
             /\ r.task[t] = y /\ r.cur = s.cur
             /\ \A u \in Slot : u # t => r.task[u] = s.task[u]
<1> DEFINE r == [s EXCEPT !.task[t] = y]
<1>1. s \in KernelState /\ t \in Task
  BY SlotFacts DEF Disc
<1>2. /\ r \in KernelState /\ r.task[t] = y /\ r.rq = s.rq /\ r.cur = s.cur
      /\ \A u \in Task : u # t => r.task[u] = s.task[u]
  BY <1>1, SetTask
<1> HIDE DEF r
<1>3. \A q, u : On(r, q, u) <=> On(s, q, u)
  BY <1>2 DEF On
<1>4. Linear(r)
  BY <1>2 DEF Linear, Disc
<1>5. NoQuota(r)
  BY <1>2 DEF NoQuota, Disc
<1>6. \A u \in Slot : u # t => r.task[u] = s.task[u] /\ task_qidx(r, u) = task_qidx(s, u)
  BY <1>2, SlotFacts DEF task_qidx
<1>7. t # n
  BY DEF Disc
<1>8. Unlinked(r, t)
  BY <1>3 DEF Disc, Unlinked
<1>9. Disc(r, C \cup {t}, n)
  BY <1>2, <1>3, <1>4, <1>5, <1>6, <1>7, <1>8 DEF Disc, Unlinked
<1> QED BY <1>2, <1>6, <1>7, <1>8, <1>9 DEF r

-----------------------------------------------------------------------------
(* The timer's bookkeeping keeps the discipline *)

\* A queued task that moves to another level is relinked where it belongs.
LEMMA RelinkDisc ==
  ASSUME NEW s, NEW C, NEW n, Disc(s, C, n), NEW t \in Slot, t \notin C, t # n,
         s.task[t].in_use, s.task[t].state = "READY",
         NEW y \in TaskRecord, y.in_use, y.state = "READY", y.cur_queue = s.task[t].cur_queue,
         y.cpu_quota = 0, ~y.quota_done, NEW s1, s1 = [s EXCEPT !.task[t] = y],
         NEW r, r = enqueue_task(dequeue_task(s1, t), t)
  PROVE  Disc(r, C, n)
<1> DEFINE D == C \cup {t}
           d == dequeue_task(s1, t)
<1>1. Disc(s, D, n) /\ t \in Task /\ t \in D
  BY ZenonT(60), DiscGrow, SlotFacts
<1>2. s \in KernelState
  BY DEF Disc
<1> HIDE DEF D
<1>3. Disc(s1, D, n)
  BY ZenonT(60), <1>1, ExemptChange
<1>4. s1 \in KernelState /\ s1.task[t] = y
  BY <1>1, <1>2, SetTask
<1>5. Disc(d, D, n) /\ Unlinked(d, t)
  BY <1>1, <1>3, DequeueDisc
<1>6. d.task = s1.task
  BY ZenonT(60), <1>1, <1>4, DequeueFields
<1> HIDE DEF d
<1>7. Disc(enqueue_task(d, t), C, n)
  BY ZenonT(60), <1>4, <1>5, <1>6, EnqueueDisc DEF D
<1> QED BY <1>7 DEF d

\* Ageing one task keeps the discipline: a queued task moves with its level.
LEMMA AgeDisc ==
  ASSUME NEW s, NEW n, Good(s, n), NEW t \in Slot, NEW r, r = AgeTask(s, t)
  PROVE  Good(r, n) /\ r.cur = s.cur
<1>1. s \in KernelState /\ t \in Task /\ Disc(s, {s.cur}, n)
  BY SlotFacts DEF Good, Disc
<1> SUFFICES ASSUME Ages(s, t) PROVE Good(r, n) /\ r.cur = s.cur
  BY DEF AgeTask
<1> DEFINE x == s.task[t]
           v == x.mlfq_level - 1
           y == [x EXCEPT !.mlfq_level = v]
           s1 == [s EXCEPT !.task[t] = y]
<1>2. x \in TaskRecord /\ x.cpu_quota = 0 /\ ~x.quota_done
  BY <1>1 DEF KernelState, Disc, NoQuota
<1>3. /\ x.in_use /\ x.tier = USER /\ x.mlfq_level > 0 /\ x.state \in {"READY", "RUNNING"}
  BY DEF Ages
<1>4. x.mlfq_level \in MlfqLevel
  <2> HIDE DEF x
  <2> QED BY <1>2 DEF TaskRecord
<1>5. v \in MlfqLevel /\ v # x.mlfq_level
  <2> HIDE DEF x
  <2> QED BY <1>3, <1>4 DEF MlfqLevel
<1>6. [s EXCEPT !.task[t].mlfq_level = v] = s1
  BY <1>1 DEF KernelState
<1>7. r = Requeue([s EXCEPT !.task[t].mlfq_level = v], task_qidx(s, t), t)
  BY DEF AgeTask, task_set_mlfq_level
<1>8. r = Requeue(s1, task_qidx(s, t), t)
  BY <1>6, <1>7
<1> HIDE DEF v
<1>9. /\ y \in TaskRecord /\ y.mlfq_level = v /\ y.in_use = x.in_use /\ y.state = x.state
      /\ y.tier = x.tier /\ y.cur_queue = x.cur_queue
      /\ y.cpu_quota = x.cpu_quota /\ y.quota_done = x.quota_done
  <2> HIDE DEF x
  <2>1. y = [x EXCEPT !.mlfq_level = v]
    OBVIOUS
  <2> HIDE DEF y
  <2> QED BY <1>2, <1>5, <2>1 DEF TaskRecord
<1> HIDE DEF y
<1>10. /\ s1 \in KernelState /\ s1.task[t] = y /\ s1.cur = s.cur
       /\ \A u \in Task : u # t => s1.task[u] = s.task[u]
  <2>1. y \in TaskRecord
    BY <1>9
  <2> QED BY <1>1, <2>1, SetTask
<1>11. CASE t = s.cur
  <2>1. r = s1
    BY <1>8, <1>10, <1>11 DEF Requeue
  <2>2. s1 = [s EXCEPT !.task[s.cur] = y] /\ x = s.task[s.cur]
    BY <1>11
  <2> HIDE DEF x, s1
  <2> QED BY <1>2, <1>9, <2>1, <2>2, CurrentChange
<1>12. CASE t # s.cur
  <2>1. s.task[t].state = "READY" /\ t # n
    BY <1>1, <1>3, <1>12, SlotFacts DEF Disc
  <2>2. task_qidx(s1, t) # task_qidx(s, t)
    <3>1. task_qidx(s1, t) = 2 + v /\ task_qidx(s, t) = 2 + x.mlfq_level
      <4> HIDE DEF s1
      <4> QED BY <1>3, <1>9, <1>10 DEF task_qidx, QueueOf
    <3> QED BY <1>4, <1>5, <3>1 DEF MlfqLevel
  <2> HIDE DEF s1
  <2>3. r = enqueue_task(dequeue_task(s1, t), t)
    BY <1>8, <1>9, <1>10, <1>12, <2>1, <2>2 DEF Requeue
  <2>4. Disc(r, {s.cur}, n)
    <3>1. y \in TaskRecord /\ y.in_use /\ y.state = "READY" /\ y.cur_queue = s.task[t].cur_queue
          /\ y.cpu_quota = 0 /\ ~y.quota_done
      BY <1>2, <1>3, <1>9, <2>1
    <3> QED BY <1>1, <1>3, <1>12, <2>1, <2>3, <3>1, RelinkDisc DEF s1
  <2>5. r.cur = s.cur /\ \A u \in Task : u # t => r.task[u] = s.task[u]
    <3> DEFINE d == dequeue_task(s1, t)
    <3>1. d \in KernelState /\ d.task = s1.task /\ d.cur = s1.cur
      BY <1>1, <1>10, DequeueFields
    <3> HIDE DEF d
    <3>2. r = enqueue_task(d, t)
      BY <2>3 DEF d
    <3>3. r.cur = d.cur /\ r.task = [d.task EXCEPT ![t].cur_queue = task_qidx(d, t)]
      <4>1. d \in KernelState
        BY <3>1
      <4>2. LET e == enqueue_task(d, t)
            IN  e.cur = d.cur /\ e.task = [d.task EXCEPT ![t].cur_queue = task_qidx(d, t)]
        BY ZenonT(60), <4>1, EnqueueFields
      <4> QED BY <3>2, <4>2
    <3>4. d.task \in [Task -> TaskRecord]
      BY <3>1 DEF KernelState
    <3> QED BY <1>10, <3>1, <3>3, <3>4
  <2>6. s.cur \in Task
    BY <1>1, CurrentTyped
  <2>7. Runnable(r)
    BY <1>12, <2>5, <2>6 DEF Good, Runnable
  <2> QED BY <2>4, <2>5, <2>7 DEF Good
<1> QED BY <1>11, <1>12

\* So does the whole ageing loop.
LEMMA AgingDisc ==
  ASSUME NEW s, NEW n, Good(s, n)
  PROVE  Good(task_mlfq_aging(s), n)
<1> DEFINE S == {x \in KernelState : Good(x, n)}
<1>1. s \in S
  BY DEF Good, Disc
<1>2. ASSUME NEW t \in Slot, NEW x \in S PROVE AgeTask(x, t) \in S
  BY AgeDisc, AgeType
<1> HIDE DEF S
<1>3. task_mlfq_aging(s) \in S
  BY <1>1, <1>2, AgingInSet
<1> QED BY <1>3 DEF S

\* The reset of the quota period keeps the discipline.
LEMMA QuotaResetDisc ==
  ASSUME NEW s, NEW n, Good(s, n)
  PROVE  Good(task_quota_period_reset(s), n)
<1> DEFINE r == task_quota_period_reset(s)
<1>1. s \in KernelState
  BY DEF Good, Disc
<1>2. r \in KernelState /\ r.rq = s.rq /\ r.cur = s.cur
  BY <1>1, QuotaResetType
<1>3. ASSUME NEW t \in Task PROVE SameShape(r.task[t], s.task[t])
  <2> DEFINE x == s.task[t]
             y == [x EXCEPT !.quota_used_ticks = 0, !.quota_done = FALSE]
  <2>1. x \in TaskRecord /\ ~x.quota_done
    BY <1>1 DEF KernelState, Good, Disc, NoQuota
  <2>2. r.task[t] = IF x.in_use THEN y ELSE x
    BY <1>1 DEF task_quota_period_reset, KernelState
  <2> HIDE DEF x
  <2>3. SameShape(y, x)
    BY ZenonT(60), <2>1 DEF TaskRecord, SameShape
  <2>4. SameShape(x, x)
    BY DEF SameShape
  <2> HIDE DEF r, y
  <2> QED BY <2>2, <2>3, <2>4 DEF x
<1> HIDE DEF r
<1>4. Disc(r, {s.cur}, n)
  BY <1>2, <1>3, Neutral DEF Good
<1>5. s.cur \in Task
  BY <1>1, CurrentTyped
<1>6. Runnable(r)
  BY <1>2, <1>3, <1>5 DEF Good, Runnable, SameShape
<1> QED BY <1>2, <1>4, <1>6 DEF Good, r

\* Charging a tick to the running task keeps the discipline.
LEMMA ChargeDisc ==
  ASSUME NEW s, NEW n, Good(s, n)
  PROVE  Good(ChargeMlfq(ChargeQuota(s)), n) /\ ChargeMlfq(ChargeQuota(s)).cur = s.cur
<1> DEFINE t == s.cur
           x == s.task[t]
           cont == Min({x.mlfq_cont_ticks + 1, MLFQ_DEMOTE_TICKS})
           r == ChargeMlfq(s)
<1>1. s \in KernelState /\ t \in Task
  BY CurrentTyped DEF Good, Disc
<1>2. x \in TaskRecord /\ x.cpu_quota = 0 /\ ~x.quota_done
  BY <1>1 DEF KernelState, Good, Disc, NoQuota
<1>3. ChargeQuota(s) = s
  BY <1>2 DEF ChargeQuota
<1>4. x.mlfq_cont_ticks \in 0 .. 3 /\ x.mlfq_level \in MlfqLevel
  <2> HIDE DEF x
  <2> QED BY <1>2 DEF TaskRecord, MlfqTicks, MLFQ_DEMOTE_TICKS
<1>5. cont \in MlfqTicks
  <2> DEFINE a == x.mlfq_cont_ticks + 1
  <2>1. a \in Nat
    BY <1>4
  <2>2. cont = Min({a, MLFQ_DEMOTE_TICKS})
    OBVIOUS
  <2> HIDE DEF a, cont
  <2>3. {a, MLFQ_DEMOTE_TICKS} \in SUBSET Nat /\ {a, MLFQ_DEMOTE_TICKS} # {}
    BY <2>1 DEF MLFQ_DEMOTE_TICKS
  <2>4. cont \in {a, MLFQ_DEMOTE_TICKS} /\ \A z \in {a, MLFQ_DEMOTE_TICKS} : cont <= z
    BY <2>2, <2>3, MinNat
  <2> QED BY <2>1, <2>4 DEF MlfqTicks, MLFQ_DEMOTE_TICKS
<1>6. CASE x.tier # USER
  BY <1>3, <1>6 DEF ChargeMlfq
<1>7. CASE x.tier = USER /\ cont = MLFQ_DEMOTE_TICKS /\ x.mlfq_level < 2
  <2> DEFINE v == x.mlfq_level + 1
             y == [x EXCEPT !.mlfq_level = v, !.mlfq_cont_ticks = 0]
             s1 == [s EXCEPT !.task[t].mlfq_level = v]
  <2>1. v \in MlfqLevel
    BY <1>4, <1>7 DEF MlfqLevel
  <2>2. task_set_mlfq_level(s, t, v) = s1
    BY <1>1, <2>1, SetLevelCurrent
  <2>3. r = [task_set_mlfq_level(s, t, v) EXCEPT !.task[t].mlfq_cont_ticks = 0]
    BY <1>2, <1>7 DEF ChargeMlfq
  <2>4. r = [s1 EXCEPT !.task[t].mlfq_cont_ticks = 0]
    BY ZenonT(60), <2>2, <2>3
  <2> HIDE DEF v
  <2>5. [s1 EXCEPT !.task[t].mlfq_cont_ticks = 0] = [s EXCEPT !.task[t] = y]
    BY ZenonT(60), <1>1 DEF KernelState
  <2> HIDE DEF x
  <2>6. /\ y \in TaskRecord /\ y.in_use = x.in_use /\ y.cur_queue = x.cur_queue /\ y.state = x.state
        /\ y.cpu_quota = x.cpu_quota /\ y.quota_done = x.quota_done
    <3>1. 0 \in MlfqTicks
      BY DEF MlfqTicks, MLFQ_DEMOTE_TICKS
    <3>2. y = [x EXCEPT !.mlfq_level = v, !.mlfq_cont_ticks = 0]
      OBVIOUS
    <3> HIDE DEF y, cont, t
    <3>3. y \in TaskRecord
      <4> DEFINE z == [x EXCEPT !.mlfq_level = v]
      <4>1. z \in TaskRecord
        BY <1>2, <2>1 DEF TaskRecord
      <4>2. y = [z EXCEPT !.mlfq_cont_ticks = 0]
        BY <1>2, <3>2 DEF TaskRecord
      <4> HIDE DEF z
      <4> QED BY <3>1, <4>1, <4>2 DEF TaskRecord
    <3>4. /\ y.in_use = x.in_use /\ y.cur_queue = x.cur_queue /\ y.state = x.state
          /\ y.cpu_quota = x.cpu_quota /\ y.quota_done = x.quota_done
      BY <1>2, <3>2 DEF TaskRecord
    <3> QED BY <3>3, <3>4
  <2> HIDE DEF y, r, s1
  <2>7. r = [s EXCEPT !.task[s.cur] = y]
    BY <2>4, <2>5
  <2>8. x = s.task[s.cur]
    BY DEF x
  <2> HIDE DEF t
  <2>9. Good(r, n) /\ r.cur = s.cur
    BY <1>2, <2>6, <2>7, <2>8, CurrentChange
  <2> QED BY <1>3, <2>9 DEF r
<1>8. CASE x.tier = USER /\ ~(cont = MLFQ_DEMOTE_TICKS /\ x.mlfq_level < 2)
  <2> DEFINE y == [x EXCEPT !.mlfq_cont_ticks = cont]
  <2>1. r = [s EXCEPT !.task[t].mlfq_cont_ticks = cont]
    BY ZenonT(60), <1>2, <1>8 DEF ChargeMlfq
  <2> HIDE DEF cont
  <2>2. [s EXCEPT !.task[t].mlfq_cont_ticks = cont] = [s EXCEPT !.task[t] = y]
    BY <1>1 DEF KernelState
  <2> HIDE DEF x
  <2>3. /\ y \in TaskRecord /\ y.in_use = x.in_use /\ y.cur_queue = x.cur_queue /\ y.state = x.state
        /\ y.cpu_quota = x.cpu_quota /\ y.quota_done = x.quota_done
    BY <1>2, <1>5 DEF TaskRecord
  <2> HIDE DEF y, r
  <2>4. r = [s EXCEPT !.task[s.cur] = y]
    BY <2>1, <2>2
  <2>5. x = s.task[s.cur]
    BY DEF x
  <2> HIDE DEF t
  <2>6. Good(r, n) /\ r.cur = s.cur
    BY <1>2, <2>3, <2>4, <2>5, CurrentChange
  <2> QED BY <1>3, <2>6 DEF r
<1> QED BY <1>6, <1>7, <1>8

-----------------------------------------------------------------------------
(* One field of the running task changes *)

\* Assigning state of the running task keeps the discipline.
LEMMA CurrentState ==
  ASSUME NEW s, NEW n, Good(s, n), NEW v \in {"RUNNING", "READY"},
         NEW r, r = [s EXCEPT !.task[s.cur].state = v]
  PROVE  Good(r, n) /\ r.cur = s.cur
<1> DEFINE x == s.task[s.cur]
           y == [x EXCEPT !.state = v]
<1>1. s \in KernelState
  BY DEF Good, Disc
<1>2. x \in TaskRecord /\ s.cur \in Task /\ x.cpu_quota = 0 /\ ~x.quota_done
  BY <1>1, CurrentTyped DEF Good, Disc, NoQuota
<1>3. r = [s EXCEPT !.task[s.cur] = y]
  BY <1>1, <1>2 DEF KernelState
<1> HIDE DEF x
<1>4. /\ y \in TaskRecord /\ y.state = v /\ y.in_use = x.in_use
      /\ y.cur_queue = x.cur_queue /\ y.cpu_quota = 0 /\ ~y.quota_done
  BY <1>2 DEF TaskRecord, TaskState
<1> HIDE DEF y
<1> QED BY <1>3, <1>4, CurrentChange DEF x

\* Assigning tier of the running task keeps the discipline.
LEMMA CurrentTier ==
  ASSUME NEW s, NEW n, Good(s, n), NEW v \in Tier,
         NEW r, r = [s EXCEPT !.task[s.cur].tier = v]
  PROVE  Good(r, n) /\ r.cur = s.cur
<1> DEFINE x == s.task[s.cur]
           y == [x EXCEPT !.tier = v]
<1>1. s \in KernelState
  BY DEF Good, Disc
<1>2. x \in TaskRecord /\ s.cur \in Task /\ x.cpu_quota = 0 /\ ~x.quota_done
  BY <1>1, CurrentTyped DEF Good, Disc, NoQuota
<1>3. r = [s EXCEPT !.task[s.cur] = y]
  BY <1>1, <1>2 DEF KernelState
<1> HIDE DEF x
<1>4. /\ y \in TaskRecord /\ y.state = x.state /\ y.in_use = x.in_use
      /\ y.cur_queue = x.cur_queue /\ y.cpu_quota = 0 /\ ~y.quota_done
  BY <1>2 DEF TaskRecord
<1> HIDE DEF y
<1> QED BY <1>3, <1>4, CurrentChange DEF x

\* Assigning mlfq_level of the running task keeps the discipline.
LEMMA CurrentLevel ==
  ASSUME NEW s, NEW n, Good(s, n), NEW v \in MlfqLevel,
         NEW r, r = [s EXCEPT !.task[s.cur].mlfq_level = v]
  PROVE  Good(r, n) /\ r.cur = s.cur
<1> DEFINE x == s.task[s.cur]
           y == [x EXCEPT !.mlfq_level = v]
<1>1. s \in KernelState
  BY DEF Good, Disc
<1>2. x \in TaskRecord /\ s.cur \in Task /\ x.cpu_quota = 0 /\ ~x.quota_done
  BY <1>1, CurrentTyped DEF Good, Disc, NoQuota
<1>3. r = [s EXCEPT !.task[s.cur] = y]
  BY <1>1, <1>2 DEF KernelState
<1> HIDE DEF x
<1>4. /\ y \in TaskRecord /\ y.state = x.state /\ y.in_use = x.in_use
      /\ y.cur_queue = x.cur_queue /\ y.cpu_quota = 0 /\ ~y.quota_done
  BY <1>2 DEF TaskRecord
<1> HIDE DEF y
<1> QED BY <1>3, <1>4, CurrentChange DEF x

\* Assigning mlfq_cont_ticks of the running task keeps the discipline.
LEMMA CurrentCont ==
  ASSUME NEW s, NEW n, Good(s, n), NEW v \in MlfqTicks,
         NEW r, r = [s EXCEPT !.task[s.cur].mlfq_cont_ticks = v]
  PROVE  Good(r, n) /\ r.cur = s.cur
<1> DEFINE x == s.task[s.cur]
           y == [x EXCEPT !.mlfq_cont_ticks = v]
<1>1. s \in KernelState
  BY DEF Good, Disc
<1>2. x \in TaskRecord /\ s.cur \in Task /\ x.cpu_quota = 0 /\ ~x.quota_done
  BY <1>1, CurrentTyped DEF Good, Disc, NoQuota
<1>3. r = [s EXCEPT !.task[s.cur] = y]
  BY <1>1, <1>2 DEF KernelState
<1> HIDE DEF x
<1>4. /\ y \in TaskRecord /\ y.state = x.state /\ y.in_use = x.in_use
      /\ y.cur_queue = x.cur_queue /\ y.cpu_quota = 0 /\ ~y.quota_done
  BY <1>2 DEF TaskRecord
<1> HIDE DEF y
<1> QED BY <1>3, <1>4, CurrentChange DEF x

\* Assigning kill_pending of the running task keeps the discipline.
LEMMA CurrentKill ==
  ASSUME NEW s, NEW n, Good(s, n), NEW v \in BOOLEAN,
         NEW r, r = [s EXCEPT !.task[s.cur].kill_pending = v]
  PROVE  Good(r, n) /\ r.cur = s.cur
<1> DEFINE x == s.task[s.cur]
           y == [x EXCEPT !.kill_pending = v]
<1>1. s \in KernelState
  BY DEF Good, Disc
<1>2. x \in TaskRecord /\ s.cur \in Task /\ x.cpu_quota = 0 /\ ~x.quota_done
  BY <1>1, CurrentTyped DEF Good, Disc, NoQuota
<1>3. r = [s EXCEPT !.task[s.cur] = y]
  BY <1>1, <1>2 DEF KernelState
<1> HIDE DEF x
<1>4. /\ y \in TaskRecord /\ y.state = x.state /\ y.in_use = x.in_use
      /\ y.cur_queue = x.cur_queue /\ y.cpu_quota = 0 /\ ~y.quota_done
  BY <1>2 DEF TaskRecord
<1> HIDE DEF y
<1> QED BY <1>3, <1>4, CurrentChange DEF x

\* Assigning wait of the running task keeps the discipline.
LEMMA CurrentWait ==
  ASSUME NEW s, NEW n, Good(s, n), NEW v \in Slot \cup {NULL, AnyChild},
         NEW r, r = [s EXCEPT !.task[s.cur].wait = v]
  PROVE  Good(r, n) /\ r.cur = s.cur
<1> DEFINE x == s.task[s.cur]
           y == [x EXCEPT !.wait = v]
<1>1. s \in KernelState
  BY DEF Good, Disc
<1>2. x \in TaskRecord /\ s.cur \in Task /\ x.cpu_quota = 0 /\ ~x.quota_done
  BY <1>1, CurrentTyped DEF Good, Disc, NoQuota
<1>3. r = [s EXCEPT !.task[s.cur] = y]
  BY <1>1, <1>2 DEF KernelState
<1> HIDE DEF x
<1>4. /\ y \in TaskRecord /\ y.state = x.state /\ y.in_use = x.in_use
      /\ y.cur_queue = x.cur_queue /\ y.cpu_quota = 0 /\ ~y.quota_done
  BY <1>2 DEF TaskRecord
<1> HIDE DEF y
<1> QED BY <1>3, <1>4, CurrentChange DEF x

\* Assigning tier_override of the running task keeps the discipline.
LEMMA CurrentOverride ==
  ASSUME NEW s, NEW n, Good(s, n), NEW v \in Tier \cup {NULL},
         NEW r, r = [s EXCEPT !.task[s.cur].tier_override = v]
  PROVE  Good(r, n) /\ r.cur = s.cur
<1> DEFINE x == s.task[s.cur]
           y == [x EXCEPT !.tier_override = v]
<1>1. s \in KernelState
  BY DEF Good, Disc
<1>2. x \in TaskRecord /\ s.cur \in Task /\ x.cpu_quota = 0 /\ ~x.quota_done
  BY <1>1, CurrentTyped DEF Good, Disc, NoQuota
<1>3. r = [s EXCEPT !.task[s.cur] = y]
  BY <1>1, <1>2 DEF KernelState
<1> HIDE DEF x
<1>4. /\ y \in TaskRecord /\ y.state = x.state /\ y.in_use = x.in_use
      /\ y.cur_queue = x.cur_queue /\ y.cpu_quota = 0 /\ ~y.quota_done
  BY <1>2 DEF TaskRecord
<1> HIDE DEF y
<1> QED BY <1>3, <1>4, CurrentChange DEF x

-----------------------------------------------------------------------------
(* yield, exit and wait keep the discipline *)

\* schedule keeps the discipline.
LEMMA GoodSchedule ==
  ASSUME NEW s, NEW n, Good(s, n)
  PROVE  Good(schedule(s), n)
BY ScheduleDisc DEF Good, Runnable

\* yield keeps the discipline.
LEMMA YieldDisc ==
  ASSUME NEW s, NEW n, Good(s, n)
  PROVE  Good(yield(s), n)
<1> DEFINE t == s.cur
           s1 == [s EXCEPT !.task[t].mlfq_cont_ticks = 0]
           s2 == IF s.task[t].tier # USER THEN s ELSE task_set_mlfq_level(s1, t, 0)
           s3 == [s2 EXCEPT !.task[t].state = "READY"]
<1>1. 0 \in MlfqTicks /\ 0 \in MlfqLevel
  BY DEF MlfqTicks, MlfqLevel, MLFQ_DEMOTE_TICKS
<1>2. Good(s1, n) /\ s1.cur = t
  BY <1>1, CurrentCont
<1> HIDE DEF s1
<1>3. s1 \in KernelState
  BY <1>2 DEF Good, Disc
<1>4. task_set_mlfq_level(s1, s1.cur, 0) = [s1 EXCEPT !.task[s1.cur].mlfq_level = 0]
  BY <1>1, <1>3, SetLevelCurrent
<1>5. Good(task_set_mlfq_level(s1, s1.cur, 0), n) /\ task_set_mlfq_level(s1, s1.cur, 0).cur = s1.cur
  BY <1>1, <1>2, <1>4, CurrentLevel
<1>6. Good(s2, n) /\ s2.cur = t
  BY <1>2, <1>5
<1> HIDE DEF s2
<1>7. Good(s3, n)
  BY ZenonT(60), <1>6, CurrentState
<1>8. yield(s) = schedule(s3)
  BY DEF yield, s2, s1
<1> HIDE DEF s3
<1> QED BY <1>7, <1>8, GoodSchedule

=============================================================================
