-------------------------- MODULE LifecycleProofs ---------------------------
(*****************************************************************************)
(* Parents and the dead: no parent pointer of module Kernel dangles and no   *)
(* dead task runs again, when no task has a CPU quota.  Both follow from the *)
(* queue discipline: what the dispatcher takes off a list is READY, so that  *)
(* it changes neither the family of a task nor whether the task is dead.     *)
(*****************************************************************************)
EXTENDS DisciplineProofs

\* Each leaf goes to the SMT solver unless it names another prover.
USE SMTT(60)

\* The struct of a task in r has the family it has in s, and is dead in both or neither.
SameKin(x, y) ==
    /\ x.in_use = y.in_use /\ x.parent = y.parent
    /\ (x.state = "EXITED") = (y.state = "EXITED")

Kin(s, r) == \A t \in Slot : SameKin(r.task[t], s.task[t])

\* ParentAlive, of any kernel state.
Alive(s) ==
    \A t \in Slot : s.task[t].in_use /\ s.task[t].parent # NULL
        => LET p == s.task[t].parent
           IN  s.task[p].in_use /\ s.task[p].state # "EXITED" /\ p # t

\* The step of NoResurrection, from any kernel state to any other.
StayDead(s, r) ==
    \A t \in Slot : s.task[t].in_use /\ s.task[t].state = "EXITED"
        => ~r.task[t].in_use \/ r.task[t].state = "EXITED"

\* A step that may follow: it keeps parents alive and the dead dead.
Heir(s, r) == Alive(r) /\ StayDead(s, r)

\* Kin composes, and composes with a step on either side.
LEMMA KinTrans ==
  ASSUME NEW s, NEW r, NEW u, Kin(s, r), Kin(r, u)
  PROVE  Kin(s, u)
BY DEF Kin, SameKin

\* A parent is a slot or NULL.
LEMMA ParentType ==
  ASSUME NEW s \in KernelState, NEW t \in Slot
  PROVE  s.task[t].parent \in Slot \cup {NULL}
<1>1. s.task[t] \in TaskRecord
  BY SlotFacts DEF KernelState
<1> QED BY <1>1 DEF TaskRecord

\* A step that changes no family keeps parents alive.
LEMMA KinAlive ==
  ASSUME NEW s \in KernelState, NEW r, Kin(s, r), Alive(s)
  PROVE  Alive(r)
BY ParentType DEF Kin, SameKin, Alive

\* What follows a step without changing a family belongs to it.
LEMMA HeirKin ==
  ASSUME NEW s, NEW r \in KernelState, NEW u, Heir(s, r), Kin(r, u)
  PROVE  Heir(s, u)
<1>1. Alive(u)
  BY KinAlive DEF Heir
<1>2. StayDead(s, u)
  BY DEF Heir, StayDead, Kin, SameKin
<1> QED BY <1>1, <1>2 DEF Heir

\* So does what comes before it.
LEMMA KinHeir ==
  ASSUME NEW s, NEW r, NEW u, Kin(s, r), Heir(r, u)
  PROVE  Heir(s, u)
BY DEF Heir, StayDead, Kin, SameKin

\* A change of no family is such a step.
LEMMA KinStep ==
  ASSUME NEW s \in KernelState, NEW r, Kin(s, r), Alive(s)
  PROVE  Heir(s, r)
<1>1. StayDead(s, r)
  BY DEF StayDead, Kin, SameKin
<1> QED BY <1>1, KinAlive DEF Heir

\* The same structs are of the same kin.
LEMMA SameTaskKin ==
  ASSUME NEW s, NEW r, r.task = s.task
  PROVE  Kin(s, r)
BY DEF Kin, SameKin

\* One struct changes, within its kin.
LEMMA SetKin ==
  ASSUME NEW s \in KernelState, NEW t \in Task, NEW y \in TaskRecord, SameKin(y, s.task[t]),
         NEW r, r = [s EXCEPT !.task[t] = y]
  PROVE  Kin(s, r)
<1>1. r.task[t] = y /\ \A u \in Task : u # t => r.task[u] = s.task[u]
  BY SetTask
<1> QED BY <1>1, SlotFacts DEF Kin, SameKin

\* enqueue_task only notes the queue.
LEMMA EnqueueKin ==
  ASSUME NEW s \in KernelState, NEW t \in Slot, NEW r, r = enqueue_task(s, t)
  PROVE  Kin(s, r)
<1> DEFINE f == s.task
           g == r.task
           q == task_qidx(s, t)
<1>1. g = [f EXCEPT ![t].cur_queue = q] /\ f \in [Task -> TaskRecord] /\ t \in Task
  BY ZenonT(60), EnqueueFields, SlotFacts DEF KernelState
<1> HIDE DEF f, g, q
<1>2. \A u \in Task : g[u] = IF u = t THEN [f[u] EXCEPT !.cur_queue = q] ELSE f[u]
  BY <1>1
<1>3. ASSUME NEW u \in Slot PROVE SameKin(g[u], f[u])
  <2>1. u \in Task /\ f[u] \in TaskRecord
    BY <1>1, SlotFacts
  <2>2. g[u] = [f[u] EXCEPT !.cur_queue = q] \/ g[u] = f[u]
    BY <1>2, <2>1
  <2> DEFINE x == f[u]
             y == [x EXCEPT !.cur_queue = q]
  <2> HIDE DEF x
  <2>3. SameKin(y, x) /\ SameKin(x, x)
    BY <2>1 DEF SameKin, TaskRecord, x
  <2> QED BY <2>2, <2>3 DEF x
<1> QED BY <1>3 DEF Kin, f, g

-----------------------------------------------------------------------------
(* The dispatcher *)

\* switch_to_task runs a task that is not dead.
LEMMA SwitchKin ==
  ASSUME NEW s \in KernelState, NEW p \in Task, p \in Slot => s.task[p].state # "EXITED",
         NEW r, r = switch_to_task(s, p)
  PROVE  Kin(s, r)
<1> DEFINE x == s.task[p]
           y == [x EXCEPT !.state = "RUNNING"]
           s1 == [s EXCEPT !.task[p] = y]
<1>1. x \in TaskRecord
  BY DEF KernelState
<1>2. r.task = s1.task
  BY SwitchType
<1> HIDE DEF x
<1>3. y \in TaskRecord /\ y.in_use = x.in_use /\ y.parent = x.parent /\ y.state = "RUNNING"
  BY <1>1 DEF TaskRecord, TaskState
<1>4. s1 = [s EXCEPT !.task[p] = y]
  OBVIOUS
<1> HIDE DEF y, s1
<1>5. s1.task[p] = y /\ \A u \in Task : u # p => s1.task[u] = s.task[u]
  BY <1>3, <1>4, SetTask
<1> QED BY <1>2, <1>3, <1>5, SlotFacts DEF Kin, SameKin, x

\* The task picked is queued; unless it is outside the discipline, it is READY.
LEMMA PickedReady ==
  ASSUME NEW s, NEW C, NEW n, NEW min_q \in Nat, Disc(s, C, n), Picked(s, min_q) # NULL
  PROVE  /\ Picked(s, min_q) \in Slot
         /\ Picked(s, min_q) \notin C => s.task[Picked(s, min_q)].state = "READY"
<1> DEFINE p == Picked(s, min_q)
<1>1. s \in KernelState
  BY DEF Disc
<1>2. p \in Slot
  BY <1>1, PickFields
<1>3. \E q \in Queue : On(s, q, p)
  BY <1>1, PickOn
<1> HIDE DEF p
<1>4. p \notin C => s.task[p].state = "READY"
  BY <1>2, <1>3 DEF Disc
<1> QED BY <1>2, <1>4 DEF p

\* Dispatch changes no family.
LEMMA DispatchKin ==
  ASSUME NEW s, NEW n, Disc(s, {}, n)
  PROVE  Kin(s, Dispatch(s))
<1> DEFINE a == AfterPick(s, 0)
           p == IF Picked(s, 0) = NULL THEN Idle ELSE Picked(s, 0)
<1>1. s \in KernelState
  BY DEF Disc
<1>2. a \in KernelState /\ a.task = s.task
  BY <1>1, PickFields
<1>3. p \in Task /\ (p \in Slot => s.task[p].state # "EXITED")
  <2>1. CASE Picked(s, 0) = NULL
    BY <2>1, SlotFacts
  <2>2. CASE Picked(s, 0) # NULL
    BY <2>2, PickedReady, SlotFacts
  <2> QED BY <2>1, <2>2
<1>4. Dispatch(s) = switch_to_task(a, p)
  BY DEF Dispatch
<1> HIDE DEF a, p
<1>5. Kin(a, Dispatch(s))
  BY <1>2, <1>3, <1>4, SwitchKin
<1> QED BY <1>2, <1>5 DEF Kin

\* Nor does the end of a slice.
LEMMA ExpireKin ==
  ASSUME NEW s, NEW n, NEW t \in Slot, Disc(s, {}, n), t # n,
         s.cur = t, s.task[t].in_use, s.task[t].state = "READY"
  PROVE  Kin(s, Expire(s, t))
<1> DEFINE lower == task_qidx(s, t) + 1
           s1 == AfterPick(s, 0)
           p == Picked(s1, lower)
           s2 == AfterPick(s1, lower)
<1>1. s \in KernelState
  BY DEF Disc
<1>2. CASE Picked(s, 0) # t
  BY <1>2, DispatchKin DEF Expire
<1>3. CASE Picked(s, 0) = t
  <2>1. t # NULL /\ lower \in Nat
    BY <1>1, QidxType, SlotFacts DEF Queue
  <2>2. s1 \in KernelState /\ s1.task = s.task
    BY <1>1, PickFields
  <2>3. Disc(s1, {t}, n)
    <3>1. Picked(s, 0) # NULL /\ Disc(s, {}, n) /\ 0 \in Nat
      BY <1>3, <2>1
    <3>2. Disc(s1, {} \cup {Picked(s, 0)}, n)
      BY ONLY <3>1, PickDisc DEF s1
    <3>3. {} \cup {Picked(s, 0)} = {t}
      BY <1>3
    <3> QED BY ZenonT(60), <3>2, <3>3
  <2> HIDE DEF s1, lower
  <2>4. CASE p = NULL
    <3>1. Expire(s, t) = set_task_timeslice(s1)
      BY <1>3, <2>4 DEF Expire, s1, lower
    <3>2. set_task_timeslice(s1).task = s1.task
      BY <2>2, TimesliceType
    <3> QED BY <2>2, <3>1, <3>2, SameTaskKin
  <2>5. CASE p # NULL
    <3>1. p \in Slot /\ s.task[p].state = "READY"
      BY <2>1, <2>2, <2>3, <2>5, PickedReady
    <3>2. s2 \in KernelState /\ s2.task = s.task
      BY <2>1, <2>2, PickFields
    <3>3. Expire(s, t) = switch_to_task(enqueue_task(s2, t), p)
      BY <1>3, <2>5 DEF Expire, s1, lower
    <3> DEFINE e == enqueue_task(s2, t)
    <3>4. e \in KernelState /\ Kin(s2, e)
      BY <3>2, EnqueueType, EnqueueKin
    <3>5. Expire(s, t) = switch_to_task(e, p)
      BY <3>3
    <3> HIDE DEF s2, p, e
    <3>6. Kin(s, e)
      BY <3>2, <3>4 DEF Kin
    <3>7. e.task[p].state # "EXITED"
      BY <3>1, <3>6 DEF Kin, SameKin
    <3>8. Kin(e, Expire(s, t))
      BY <3>1, <3>4, <3>5, <3>7, SwitchKin, SlotFacts
    <3> QED BY <3>6, <3>8, KinTrans
  <2> QED BY <2>4, <2>5
<1> QED BY <1>2, <1>3

\* schedule changes no family.
LEMMA ScheduleKin ==
  ASSUME NEW s, NEW n, Disc(s, {s.cur}, n), s.cur # Idle => s.task[s.cur].in_use,
         s.cur # Idle /\ s.task[s.cur].state = "EXITED" => Unlinked(s, s.cur),
         NEW r, r = schedule(s)
  PROVE  Kin(s, r)
<1> DEFINE t == s.cur
           s1 == UseSlice(s)
           b == [s1 EXCEPT !.task[t].state = "READY"]
           back == enqueue_task(b, t)
<1>1. s \in KernelState
  BY DEF Disc
<1>2. t \in Task
  BY <1>1 DEF KernelState
<1>3. CASE t = Idle
  <2>1. Disc(s, {}, n)
    BY <1>1, <1>3, NoSlotUnlinked, DiscShrink, SlotFacts
  <2>2. r = s \/ r = Dispatch(s)
    BY <1>3 DEF schedule
  <2> QED BY <2>1, <2>2, DispatchKin, SameTaskKin
<1>4. CASE t # Idle /\ s.task[t].state = "EXITED"
  <2>1. Disc(s, {}, n)
    BY <1>4, DiscShrink
  <2>2. r = Dispatch(s)
    BY <1>4 DEF schedule
  <2> QED BY <2>1, <2>2, DispatchKin
<1>5. CASE t # Idle /\ s.task[t].state = "WAITING"
  <2> DEFINE d == dequeue_task(s, t)
  <2>1. t \in Slot
    BY <1>2, <1>5 DEF Task
  <2>2. Disc(d, {t}, n) /\ Unlinked(d, t)
    BY <2>1, DequeueDisc
  <2>3. d.task = s.task
    BY <1>1, <1>2, DequeueFields
  <2>4. r = Dispatch(d)
    BY <1>5 DEF schedule
  <2> HIDE DEF d
  <2>5. Disc(d, {}, n)
    BY <1>5, <2>2, <2>3, DiscShrink
  <2>6. Kin(d, r)
    BY <2>4, <2>5, DispatchKin
  <2> QED BY <2>3, <2>6 DEF Kin
<1>6. CASE t # Idle /\ s.task[t].state \notin {"WAITING", "EXITED"}
  <2> DEFINE d == dequeue_task(s, t)
  <2>1. t \in Slot
    BY <1>2, <1>6 DEF Task
  <2>2. Disc(d, {t}, n) /\ Unlinked(d, t) /\ d.task = s.task
    BY <1>1, <1>2, <2>1, DequeueDisc, DequeueFields
  <2>3. s1 \in KernelState /\ s1.task = d.task /\ s1.rq = d.rq /\ s1.cur = t
    BY <1>1, UseSliceType
  <2>4. \/ r = Dispatch(back)
        \/ r = Expire(back, t)
        \/ r = s1
    BY <1>6 DEF schedule
  <2> HIDE DEF d, s1
  <2>5. Disc(s1, {t}, n) /\ Unlinked(s1, t)
    BY <2>2, <2>3, DiscSame DEF Unlinked, On
  <2>6. s1.task[t].in_use /\ s1.task[t].state # "EXITED"
    BY <1>6, <2>2, <2>3
  <2> DEFINE x == s1.task[t]
             y == [x EXCEPT !.state = "READY"]
  <2>7. x \in TaskRecord
    BY <1>2, <2>3 DEF KernelState
  <2>8. b = [s1 EXCEPT !.task[t] = y]
    BY <1>2, <2>3 DEF KernelState
  <2>9. y \in TaskRecord /\ SameKin(y, x)
    <3>1. x.state # "EXITED"
      BY <2>6
    <3> HIDE DEF x
    <3> QED BY <2>7, <3>1 DEF TaskRecord, TaskState, SameKin
  <2>10. b \in KernelState /\ Kin(s1, b)
    <3>1. y \in TaskRecord /\ SameKin(y, s1.task[t])
      BY <2>9
    <3> HIDE DEF y, x, b
    <3> QED BY <1>2, <2>3, <2>8, <3>1, SetKin, SetTask
  <2> HIDE DEF b
  <2>11. Kin(s, back)
    <3>1. Kin(b, back)
      BY <2>1, <2>10, EnqueueKin
    <3>2. Kin(s, b)
      BY <2>2, <2>3, <2>10 DEF Kin
    <3> HIDE DEF back
    <3> QED BY <3>1, <3>2, KinTrans
  <2> HIDE DEF t
  <2>12. /\ Disc(back, {}, n) /\ back.cur = t /\ t # n
         /\ back.task[t].in_use /\ back.task[t].state = "READY"
    BY <2>1, <2>3, <2>5, <2>6, BackDisc DEF b
  <2> HIDE DEF back
  <2>13. CASE r = Dispatch(back)
    BY <2>11, <2>12, <2>13, DispatchKin, KinTrans
  <2>14. CASE r = Expire(back, t)
    BY <2>1, <2>11, <2>12, <2>14, ExpireKin, KinTrans
  <2>15. CASE r = s1
    BY <2>2, <2>3, <2>15, SameTaskKin
  <2> QED BY <2>4, <2>13, <2>14, <2>15
<1> QED BY <1>3, <1>4, <1>5, <1>6

\* Between two handlers it needs no more than the queue discipline.
LEMMA GoodKin ==
  ASSUME NEW s, NEW n, Good(s, n)
  PROVE  Kin(s, schedule(s))
BY ScheduleKin DEF Good, Runnable

-----------------------------------------------------------------------------
(* One field of one struct changes *)

\* One field other than in_use, parent and state.
LEMMA FieldKin ==
  ASSUME NEW s \in KernelState, NEW t \in Task, NEW v, NEW r,
         \/ r = [s EXCEPT !.task[t].tier = v]
         \/ r = [s EXCEPT !.task[t].tier_override = v]
         \/ r = [s EXCEPT !.task[t].mlfq_level = v]
         \/ r = [s EXCEPT !.task[t].mlfq_cont_ticks = v]
         \/ r = [s EXCEPT !.task[t].kill_pending = v]
         \/ r = [s EXCEPT !.task[t].wait = v]
         \/ r = [s EXCEPT !.task[t].wd_managed = v]
  PROVE  Kin(s, r)
<1> DEFINE f == s.task
           g == r.task
           x == f[t]
           Y == {[x EXCEPT !.tier = v], [x EXCEPT !.tier_override = v], [x EXCEPT !.mlfq_level = v],
                 [x EXCEPT !.mlfq_cont_ticks = v], [x EXCEPT !.kill_pending = v],
                 [x EXCEPT !.wait = v], [x EXCEPT !.wd_managed = v]}
<1>1. f \in [Task -> TaskRecord] /\ x \in TaskRecord
  BY DEF KernelState
<1>2. \E y \in Y : g = [f EXCEPT ![t] = y]
  <2>1. CASE r = [s EXCEPT !.task[t].tier = v]
    <3>1. g = [f EXCEPT ![t] = [x EXCEPT !.tier = v]]
      BY <2>1 DEF KernelState
    <3> HIDE DEF f, g, x
    <3> QED BY ZenonT(60), <3>1
  <2>2. CASE r = [s EXCEPT !.task[t].tier_override = v]
    <3>1. g = [f EXCEPT ![t] = [x EXCEPT !.tier_override = v]]
      BY <2>2 DEF KernelState
    <3> HIDE DEF f, g, x
    <3> QED BY ZenonT(60), <3>1
  <2>3. CASE r = [s EXCEPT !.task[t].mlfq_level = v]
    <3>1. g = [f EXCEPT ![t] = [x EXCEPT !.mlfq_level = v]]
      BY <2>3 DEF KernelState
    <3> HIDE DEF f, g, x
    <3> QED BY ZenonT(60), <3>1
  <2>4. CASE r = [s EXCEPT !.task[t].mlfq_cont_ticks = v]
    <3>1. g = [f EXCEPT ![t] = [x EXCEPT !.mlfq_cont_ticks = v]]
      BY <2>4 DEF KernelState
    <3> HIDE DEF f, g, x
    <3> QED BY ZenonT(60), <3>1
  <2>5. CASE r = [s EXCEPT !.task[t].kill_pending = v]
    <3>1. g = [f EXCEPT ![t] = [x EXCEPT !.kill_pending = v]]
      BY <2>5 DEF KernelState
    <3> HIDE DEF f, g, x
    <3> QED BY ZenonT(60), <3>1
  <2>6. CASE r = [s EXCEPT !.task[t].wait = v]
    <3>1. g = [f EXCEPT ![t] = [x EXCEPT !.wait = v]]
      BY <2>6 DEF KernelState
    <3> HIDE DEF f, g, x
    <3> QED BY ZenonT(60), <3>1
  <2>7. CASE r = [s EXCEPT !.task[t].wd_managed = v]
    <3>1. g = [f EXCEPT ![t] = [x EXCEPT !.wd_managed = v]]
      BY <2>7 DEF KernelState
    <3> HIDE DEF f, g, x
    <3> QED BY ZenonT(60), <3>1
  <2> HIDE DEF f, g, x, Y
  <2> QED BY <2>1, <2>2, <2>3, <2>4, <2>5, <2>6, <2>7
<1> HIDE DEF f, g
<1>3. \A y \in Y : SameKin(y, x)
  <2> HIDE DEF x
  <2> QED BY <1>1 DEF SameKin, TaskRecord
<1> HIDE DEF Y
<1>4. \A u \in Task : SameKin(g[u], f[u])
  BY <1>1, <1>2, <1>3 DEF SameKin
<1> QED BY <1>4, SlotFacts DEF Kin, f, g

\* A change of level, with the move to another list.
LEMMA LevelKin ==
  ASSUME NEW s \in KernelState, NEW t \in Slot, NEW v \in MlfqLevel,
         NEW r, r = task_set_mlfq_level(s, t, v)
  PROVE  Kin(s, r)
<1> DEFINE s1 == [s EXCEPT !.task[t].mlfq_level = v]
           d == dequeue_task(s1, t)
<1>1. t \in Task
  BY SlotFacts
<1>2. s1 \in KernelState /\ Kin(s, s1)
  BY <1>1, PutLevel, FieldKin
<1>3. r = s1 \/ r = enqueue_task(d, t)
  BY DEF task_set_mlfq_level, Requeue
<1> HIDE DEF s1
<1>4. d \in KernelState /\ d.task = s1.task
  BY <1>1, <1>2, DequeueFields
<1> HIDE DEF d
<1>5. Kin(s, d)
  BY <1>2, <1>4 DEF Kin
<1>6. CASE r = s1
  BY <1>2, <1>6
<1>7. CASE r = enqueue_task(d, t)
  <2>1. Kin(d, r)
    BY <1>4, <1>7, EnqueueKin
  <2> QED BY <1>5, <2>1, KinTrans
<1> QED BY <1>3, <1>6, <1>7

\* Ageing one task.
LEMMA AgeKin ==
  ASSUME NEW s \in KernelState, NEW t \in Slot
  PROVE  Kin(s, AgeTask(s, t))
<1>1. s.task[t] \in TaskRecord
  BY SlotFacts DEF KernelState
<1>2. s.task[t].mlfq_level \in MlfqLevel
  BY <1>1 DEF TaskRecord
<1>3. Ages(s, t) => s.task[t].mlfq_level - 1 \in MlfqLevel
  BY <1>2 DEF Ages, MlfqLevel
<1> QED BY <1>3, LevelKin, SameTaskKin DEF AgeTask

\* The whole ageing loop.
LEMMA AgingKin ==
  ASSUME NEW s \in KernelState
  PROVE  Kin(s, task_mlfq_aging(s))
<1> DEFINE S == {x \in KernelState : Kin(s, x)}
<1>1. s \in S
  BY SameTaskKin
<1>2. ASSUME NEW t \in Slot, NEW x \in S PROVE AgeTask(x, t) \in S
  BY AgeKin, AgeType, KinTrans
<1> HIDE DEF S
<1>3. task_mlfq_aging(s) \in S
  BY <1>1, <1>2, AgingInSet
<1> QED BY <1>3 DEF S

\* The reset of the quota period.
LEMMA QuotaResetKin ==
  ASSUME NEW s \in KernelState
  PROVE  Kin(s, task_quota_period_reset(s))
<1> DEFINE r == task_quota_period_reset(s)
<1>1. ASSUME NEW t \in Slot PROVE SameKin(r.task[t], s.task[t])
  <2> DEFINE x == s.task[t]
             y == [x EXCEPT !.quota_used_ticks = 0, !.quota_done = FALSE]
  <2>1. t \in Task
    BY SlotFacts
  <2>2. x \in TaskRecord
    BY <2>1 DEF KernelState
  <2>3. r.task[t] = IF x.in_use THEN y ELSE x
    BY <2>1 DEF task_quota_period_reset, KernelState
  <2> HIDE DEF x
  <2>4. SameKin(y, x) /\ SameKin(x, x)
    BY ZenonT(60), <2>2 DEF TaskRecord, SameKin
  <2> HIDE DEF r, y
  <2> QED BY <2>3, <2>4 DEF x
<1> QED BY <1>1 DEF Kin

\* Charging the tick.
LEMMA ChargeKin ==
  ASSUME NEW s, NEW n, Good(s, n)
  PROVE  Kin(s, ChargeMlfq(ChargeQuota(s)))
<1> DEFINE t == s.cur
           x == s.task[t]
           cont == Min({x.mlfq_cont_ticks + 1, MLFQ_DEMOTE_TICKS})
           r == ChargeMlfq(s)
<1>1. s \in KernelState /\ t \in Task
  BY CurrentTyped DEF Good, Disc
<1>2. x \in TaskRecord /\ x.cpu_quota = 0
  BY <1>1 DEF KernelState, Good, Disc, NoQuota
<1>3. ChargeQuota(s) = s
  BY <1>2 DEF ChargeQuota
<1>4. x.mlfq_level \in MlfqLevel
  <2> HIDE DEF x
  <2> QED BY <1>2 DEF TaskRecord
<1>5. CASE r = s
  BY <1>3, <1>5, SameTaskKin
<1>6. CASE r = [s EXCEPT !.task[t].mlfq_cont_ticks = cont]
  <2> HIDE DEF cont, r
  <2>1. Kin(s, r)
    BY <1>1, <1>6, FieldKin
  <2> QED BY <1>3, <2>1 DEF r
<1>7. CASE /\ x.mlfq_level < 2
           /\ r = [task_set_mlfq_level(s, t, x.mlfq_level + 1) EXCEPT !.task[t].mlfq_cont_ticks = 0]
  <2> DEFINE v == x.mlfq_level + 1
             s1 == [s EXCEPT !.task[t].mlfq_level = v]
  <2>1. v \in MlfqLevel
    <3>1. x.mlfq_level < 2
      BY ZenonT(60), <1>7
    <3> HIDE DEF x, r
    <3> QED BY <1>4, <3>1 DEF MlfqLevel
  <2>2. task_set_mlfq_level(s, t, v) = s1
    BY <1>1, <2>1, SetLevelCurrent
  <2>3. r = [s1 EXCEPT !.task[t].mlfq_cont_ticks = 0]
    BY ZenonT(60), <1>7, <2>2
  <2>4. s1 \in KernelState /\ Kin(s, s1)
    <3>1. s1 = [s EXCEPT !.task[t].mlfq_level = v]
      OBVIOUS
    <3>2. s1 \in KernelState
      <4> HIDE DEF v, t
      <4> QED BY <1>1, <2>1, PutLevel
    <3> HIDE DEF v, t, s1
    <3> QED BY <1>1, <3>1, <3>2, FieldKin
  <2> HIDE DEF v, s1, r
  <2>5. Kin(s1, r)
    BY <1>1, <2>3, <2>4, FieldKin
  <2>6. Kin(s, r)
    BY <2>4, <2>5, KinTrans
  <2> QED BY <1>3, <2>6 DEF r
<1>8. \/ r = s
      \/ r = [s EXCEPT !.task[t].mlfq_cont_ticks = cont]
      \/ /\ x.mlfq_level < 2
         /\ r = [task_set_mlfq_level(s, t, x.mlfq_level + 1) EXCEPT !.task[t].mlfq_cont_ticks = 0]
  BY ZenonT(60) DEF ChargeMlfq
<1> HIDE DEF r, x, t, cont
<1> QED BY <1>5, <1>6, <1>7, <1>8

-----------------------------------------------------------------------------
(* Slots taken and given back *)

\* Freeing the slot of a dead task: nobody has a dead parent.
LEMMA FreeHeir ==
  ASSUME NEW s \in KernelState, Alive(s), NEW t \in Slot, s.task[t].state = "EXITED",
         NEW r, r = free_task_slot(s, t)
  PROVE  Heir(s, r)
<1>1. /\ r.task[t] = ZeroTask
      /\ \A u \in Slot : u # t => r.task[u] = s.task[u]
  BY SetTask, ZeroTaskType, SlotFacts DEF free_task_slot
<1>2. ~ZeroTask.in_use
  BY DEF ZeroTask
<1>3. Alive(r)
  BY <1>1, <1>2, ParentType DEF Alive
<1>4. StayDead(s, r)
  BY <1>1, <1>2 DEF StayDead
<1> QED BY <1>3, <1>4 DEF Heir

\* Taking a free slot for a task whose parent, if any, lives.
LEMMA TakeHeir ==
  ASSUME NEW s \in KernelState, Alive(s), NEW t \in Slot, ~s.task[t].in_use,
         NEW y \in TaskRecord, y.state # "EXITED",
         y.parent = NULL \/ (/\ y.parent \in Slot /\ y.parent # t /\ s.task[y.parent].in_use
                             /\ s.task[y.parent].state # "EXITED"),
         NEW r, r = [s EXCEPT !.task[t] = y]
  PROVE  Heir(s, r)
<1>1. /\ r.task[t] = y
      /\ \A u \in Slot : u # t => r.task[u] = s.task[u]
  BY SetTask, SlotFacts
<1>2. Alive(r)
  BY <1>1, ParentType DEF Alive
<1>3. StayDead(s, r)
  BY <1>1 DEF StayDead
<1> QED BY <1>2, <1>3 DEF Heir

\* Waking a parent.
LEMMA WakeKin ==
  ASSUME NEW s \in KernelState, NEW p \in Slot \cup {NULL},
         \A t \in Task : s.task[t].cpu_quota = 0 /\ ~s.task[t].quota_done,
         NEW r, r = WakeParent(s, p)
  PROVE  r \in KernelState /\ Kin(s, r)
<1>1. r \in KernelState
  BY WakeParentType
<1>2. CASE p = NULL \/ s.task[p].state # "WAITING"
  BY <1>1, <1>2, SameTaskKin DEF WakeParent
<1>3. CASE p # NULL /\ s.task[p].state = "WAITING"
  <2>1. p \in Slot /\ p \in Task
    BY <1>3, SlotFacts
  <2>2. PICK y \in TaskRecord :
          /\ y.in_use = s.task[p].in_use /\ y.state = "READY" /\ y.parent = s.task[p].parent
          /\ r = enqueue_task([s EXCEPT !.task[p] = y], p)
    BY ZenonT(60), <1>3, <2>1, WakeParentForm
  <2> DEFINE s1 == [s EXCEPT !.task[p] = y]
  <2>3. s1 \in KernelState
    BY <2>1, SetTask
  <2>4. SameKin(y, s.task[p])
    BY <1>3, <2>2 DEF SameKin
  <2>5. Kin(s, s1)
    BY <2>1, <2>4, SetKin
  <2>6. r = enqueue_task(s1, p)
    BY <2>2
  <2> HIDE DEF s1
  <2>7. Kin(s1, r)
    BY <2>1, <2>3, <2>6, EnqueueKin
  <2> QED BY <1>1, <2>5, <2>7, KinTrans
<1> QED BY <1>2, <1>3

-----------------------------------------------------------------------------
(* The handlers *)

\* task_exit: the children of the dead task lose their pointer to it before
\* anything else runs.
LEMMA ExitHeir ==
  ASSUME NEW s, NEW n, Good(s, n), Alive(s)
  PROVE  Heir(s, task_exit(s))
<1> DEFINE t == s.cur
           d == dequeue_task(s, t)
           x == d.task[t]
           y == [x EXCEPT !.state = "EXITED"]
           dead == [d EXCEPT !.task[t].state = "EXITED"]
           w == WakeParent(dead, dead.task[t].parent)
           o == Disown(w, t)
<1>1. s \in KernelState /\ t \in Task
  BY CurrentTyped DEF Good, Disc
<1>2. d \in KernelState /\ d.task = s.task
  BY <1>1, DequeueFields
<1>3. /\ task_exit(s) = schedule(o) /\ Disc(o, {t}, n) /\ o.cur = t /\ Unlinked(o, t)
      /\ t # Idle => o.task[t].in_use
  BY ZenonT(60), ExitBefore
<1> HIDE DEF d
<1>4. x \in TaskRecord /\ x = s.task[t]
  BY <1>1, <1>2 DEF KernelState
<1>5. dead = [d EXCEPT !.task[t] = y]
  BY <1>1, <1>2 DEF KernelState
<1> HIDE DEF x
<1>6. /\ y \in TaskRecord /\ y.state = "EXITED" /\ y.in_use = x.in_use /\ y.parent = x.parent
      /\ y.cpu_quota = x.cpu_quota /\ y.quota_done = x.quota_done
  BY <1>4 DEF TaskRecord, TaskState
<1> HIDE DEF y, dead
<1>7. /\ dead \in KernelState /\ dead.task[t] = y
      /\ \A u \in Task : u # t => dead.task[u] = s.task[u]
  <2>1. y \in TaskRecord
    BY <1>6
  <2> QED BY <1>1, <1>2, <1>5, <2>1, SetTask
<1>8. w \in KernelState /\ Kin(dead, w)
  <2>1. dead.task[t].parent \in Slot \cup {NULL}
    BY <1>6, <1>7 DEF TaskRecord
  <2>2. \A u \in Task : s.task[u].cpu_quota = 0 /\ ~s.task[u].quota_done
    BY DEF Good, Disc, NoQuota
  <2>3. \A u \in Task : dead.task[u].cpu_quota = 0 /\ ~dead.task[u].quota_done
    BY <1>1, <1>4, <1>6, <1>7, <2>2
  <2> QED BY <1>7, <2>1, <2>3, WakeKin
<1> HIDE DEF w, t
<1>9. \A u \in Slot : /\ o.task[u].in_use = w.task[u].in_use /\ o.task[u].state = w.task[u].state
                      /\ o.task[u].parent = IF w.task[u].in_use /\ w.task[u].parent = t
                                            THEN NULL ELSE w.task[u].parent
  <2>1. \A u \in Task : o.task[u] = IF u \in Children(w, t)
                                    THEN [w.task[u] EXCEPT !.parent = NULL] ELSE w.task[u]
    BY <1>8, DisownType
  <2> HIDE DEF o
  <2>2. ASSUME NEW u \in Slot
        PROVE  /\ o.task[u].in_use = w.task[u].in_use /\ o.task[u].state = w.task[u].state
               /\ o.task[u].parent = IF w.task[u].in_use /\ w.task[u].parent = t
                                     THEN NULL ELSE w.task[u].parent
    <3> DEFINE z == w.task[u]
               v == [z EXCEPT !.parent = NULL]
    <3>1. z \in TaskRecord /\ o.task[u] = IF z.in_use /\ z.parent = t THEN v ELSE z
      BY <1>8, <2>1, SlotFacts DEF KernelState, Children
    <3> HIDE DEF z
    <3>2. v.in_use = z.in_use /\ v.state = z.state /\ v.parent = NULL
      BY <3>1 DEF TaskRecord
    <3> HIDE DEF v
    <3> QED BY <3>1, <3>2 DEF z
  <2> QED BY <2>2
<1> HIDE DEF o
<1>10. \A u \in Slot : /\ dead.task[u].in_use = s.task[u].in_use
                       /\ dead.task[u].parent = s.task[u].parent
                       /\ (dead.task[u].state = "EXITED") = (s.task[u].state = "EXITED" \/ u = t)
  BY <1>1, <1>4, <1>6, <1>7, SlotFacts
<1>11. \A u \in Slot : /\ o.task[u].in_use = s.task[u].in_use
                       /\ (o.task[u].state = "EXITED") = (s.task[u].state = "EXITED" \/ u = t)
                       /\ o.task[u].parent = IF s.task[u].in_use /\ s.task[u].parent = t
                                             THEN NULL ELSE s.task[u].parent
  BY <1>8, <1>9, <1>10 DEF Kin, SameKin
<1>12. Heir(s, o)
  BY <1>1, <1>11, ParentType DEF Heir, Alive, StayDead
<1>13. Kin(o, task_exit(s))
  <2>1. Disc(o, {o.cur}, n) /\ Unlinked(o, o.cur) /\ (o.cur # Idle => o.task[o.cur].in_use)
    BY ZenonT(60), <1>3
  <2> QED BY ONLY <1>3, <2>1, ScheduleKin
<1>14. o \in KernelState
  BY <1>3 DEF Disc
<1> QED BY <1>12, <1>13, <1>14, HeirKin

\* A turn of the loop of sys_wait: a dead child is freed, or the caller blocks.
LEMMA WaitLoopHeir ==
  ASSUME NEW n, Good(k, n), Alive(k), NEW pid \in Slot \cup {NULL, AnyChild}, WaitLoop(pid)
  PROVE  Heir(k, k')
<1> DEFINE t == k.cur
           child == task_find_child(k, t, pid)
           s == [k EXCEPT !.task[t].wait = NULL]
           w == [k EXCEPT !.task[t].state = "WAITING", !.task[t].wait = pid]
           d == dequeue_task(w, t)
<1>1. k \in KernelState /\ t \in Task
  BY CurrentTyped DEF Good, Disc
<1>2. k' = IF child = NULL THEN s
           ELSE IF k.task[child].state = "EXITED" THEN free_task_slot(s, child)
           ELSE schedule(d)
  BY DEF WaitLoop
<1>3. s \in KernelState /\ Kin(k, s)
  BY <1>1, PutWait, FieldKin
<1>4. Alive(s)
  BY <1>1, <1>3, KinAlive
<1>5. CASE child = NULL
  BY <1>1, <1>2, <1>3, <1>5, KinStep
<1>6. CASE child # NULL /\ k.task[child].state = "EXITED"
  <2>1. child \in Slot
    BY <1>6, FindChildType
  <2> HIDE DEF s, child
  <2>2. s.task[child].state = "EXITED"
    BY <1>3, <1>6, <2>1 DEF Kin, SameKin
  <2>3. Heir(s, k')
    BY <1>2, <1>3, <1>4, <1>6, <2>1, <2>2, FreeHeir
  <2> QED BY <1>3, <2>3, KinHeir
<1>7. CASE child # NULL /\ k.task[child].state # "EXITED"
  <2>1. w \in KernelState /\ Kin(k, w) /\ w.cur = t /\ w.task[t].state = "WAITING"
    <3> DEFINE x == k.task[t]
               y == [x EXCEPT !.state = "WAITING", !.wait = pid]
               z == [x EXCEPT !.state = "WAITING"]
    <3>1. w = [k EXCEPT !.task[t] = y]
      BY ZenonT(60), <1>1 DEF KernelState
    <3>2. x \in TaskRecord
      BY <1>1 DEF KernelState
    <3>3. t \in Slot => x.state # "EXITED"
      BY SlotFacts DEF Good, Runnable
    <3> HIDE DEF x
    <3>4. y.state = "WAITING" /\ y.in_use = x.in_use /\ y.parent = x.parent
      BY <3>2 DEF TaskRecord
    <3>5. y \in TaskRecord
      <4>1. z \in TaskRecord
        BY <3>2 DEF TaskRecord, TaskState
      <4>2. y = [z EXCEPT !.wait = pid]
        BY <3>2 DEF TaskRecord
      <4> HIDE DEF z, y
      <4> QED BY <4>1, <4>2 DEF TaskRecord
    <3> HIDE DEF y, w
    <3>6. /\ w \in KernelState /\ w.task[t] = y /\ w.cur = t
          /\ \A u \in Task : u # t => w.task[u] = k.task[u]
      BY <1>1, <3>1, <3>5, SetTask
    <3> QED BY <3>3, <3>4, <3>6, SlotFacts DEF Kin, SameKin, x
  <2> HIDE DEF w
  <2>2. d \in KernelState /\ d.task = w.task /\ d.cur = t
    BY <1>1, <2>1, DequeueFields
  <2>3. Kin(k, d)
    BY <2>1, <2>2 DEF Kin
  <2>4. k' = schedule(d)
    BY <1>2, <1>7
  <2>5. Disc(d, {d.cur}, n) /\ (d.cur # Idle => d.task[d.cur].in_use) /\ d.task[d.cur].state # "EXITED"
    BY ZenonT(60), WaitBlocked DEF w
  <2> HIDE DEF d
  <2>6. Kin(d, k')
    BY <2>4, <2>5, ScheduleKin
  <2>7. Kin(k, k')
    BY <2>3, <2>6, KinTrans
  <2> QED BY <1>1, <2>7, KinStep
<1> QED BY <1>5, <1>6, <1>7

\* The timer interrupt.
LEMMA TickHeir ==
  ASSUME TypeOK, QueueInv, Alive(k), pit_handler
  PROVE  Heir(k, k')
<1> DEFINE n == Spawning
<1>1. Good(k, n) /\ wd \in WatchdogEntry /\ k \in KernelState /\ k.cur \in Task
  BY CurrentTyped DEF QueueInv, TypeOK
<1> HIDE DEF n
<1>2. CASE KilledAtTick
  <2> DEFINE s == [k EXCEPT !.task[k.cur].kill_pending = FALSE]
  <2>1. Good(s, n)
    BY ZenonT(60), <1>1, CurrentKill
  <2>2. k' = task_exit(s)
    BY <1>2 DEF KilledAtTick
  <2>3. Kin(k, s)
    BY <1>1, FieldKin
  <2> HIDE DEF s
  <2>4. Alive(s)
    BY <1>1, <2>3, KinAlive
  <2>5. Heir(s, k')
    BY <2>1, <2>2, <2>4, ExitHeir
  <2> QED BY <2>3, <2>5, KinHeir
<1>3. CASE ChargedAtTick(tick')
  <2> DEFINE now == tick'
             charged  == ChargeMlfq(ChargeQuota(k))
             checked  == IF now % WATCHDOG_TICKS = 0 THEN watchdog_tick(charged, wd) ELSE wd
             reaped   == WatchdogReap(charged, wd, checked)
             aged     == IF now % MLFQ_AGING_TICKS = 0 THEN task_mlfq_aging(reaped) ELSE reaped
             refilled == IF now % QUOTA_PERIOD_TICKS = 0 THEN task_quota_period_reset(aged) ELSE aged
  <2>1. Good(charged, n) /\ Kin(k, charged)
    BY <1>1, ChargeDisc, ChargeKin
  <2>2. k' = schedule(refilled)
    BY <1>3 DEF ChargedAtTick
  <2> HIDE DEF charged
  <2>3. charged \in KernelState /\ Alive(charged)
    <3>1. charged \in KernelState
      BY <2>1 DEF Good, Disc
    <3> QED BY <1>1, <2>1, <3>1, KinAlive
  <2>4. wd.task # NULL /\ checked.task = NULL
          => wd.task \in Slot /\ charged.task[wd.task].state = "EXITED"
    <3>1. wd.task \in Slot \cup {NULL}
      BY <1>1 DEF WatchdogEntry
    <3> QED BY <1>1, <3>1, WatchdogTickType
  <2> HIDE DEF checked
  <2>5. Good(reaped, n) /\ Heir(charged, reaped)
    <3>1. CASE wd.task # NULL /\ checked.task = NULL
      BY <2>1, <2>3, <2>4, <3>1, ReapedGood, FreeHeir DEF WatchdogReap
    <3>2. CASE ~(wd.task # NULL /\ checked.task = NULL)
      <4>1. reaped = charged
        BY <3>2 DEF WatchdogReap
      <4>2. Kin(charged, charged)
        BY SameTaskKin
      <4> HIDE DEF reaped
      <4> QED BY <2>1, <2>3, <4>1, <4>2, KinStep
    <3> QED BY <3>1, <3>2
  <2> HIDE DEF reaped
  <2>6. reaped \in KernelState
    BY <2>5 DEF Good, Disc
  <2>7. Good(aged, n) /\ Kin(reaped, aged)
    BY <2>5, <2>6, AgingDisc, AgingKin, SameTaskKin
  <2> HIDE DEF aged
  <2>8. aged \in KernelState
    BY <2>7 DEF Good, Disc
  <2>9. Good(refilled, n) /\ Kin(aged, refilled)
    BY <2>7, <2>8, QuotaResetDisc, QuotaResetKin, SameTaskKin
  <2> HIDE DEF refilled
  <2>10. Kin(refilled, k')
    BY <2>2, <2>9, GoodKin
  <2>11. Kin(reaped, k')
    BY <2>7, <2>9, <2>10, KinTrans
  <2>12. Heir(charged, k')
    BY <2>5, <2>6, <2>11, HeirKin
  <2> QED BY <2>1, <2>12, KinHeir
<1> QED BY <1>2, <1>3 DEF pit_handler

\* fork: the parent of the new task is the task that runs.
LEMMA ForkHeir ==
  ASSUME QueueInv, Alive(k), NEW quota \in CpuQuotas, NEW tier \in ForkTiers, Fork(quota, tier)
  PROVE  Heir(k, k')
<1> DEFINE c == Min(FreeSlots(k))
           y == ForkChild(k.cur, quota, tier)
           s == [k EXCEPT !.task[c] = y]
<1>1. k \in KernelState
  BY DEF QueueInv, Good, Disc
<1>2. InUser /\ FreeSlots(k) # {} /\ k' = enqueue_task(s, c)
  BY DEF Fork, SystemCall
<1>3. k.cur \in Slot /\ k.task[k.cur].in_use /\ k.task[k.cur].state # "EXITED"
  BY <1>1, <1>2, CurrentTyped DEF InUser, Task, QueueInv, Good, Runnable
<1>4. c \in Slot /\ c \in Task /\ ~k.task[c].in_use
  BY <1>2, FreeSlotType, SlotFacts
<1>5. y \in TaskRecord /\ y.state = "READY"
  BY <1>1, <1>3, ForkChildType
<1>6. y.parent = k.cur
  BY NewTaskType DEF ForkChild, TaskRecord
<1>7. k.cur # c
  BY <1>3, <1>4
<1>8. s = [k EXCEPT !.task[c] = y]
  OBVIOUS
<1> HIDE DEF c, y, s
<1>9. Heir(k, s)
  BY <1>1, <1>3, <1>4, <1>5, <1>6, <1>7, <1>8, TakeHeir
<1>10. s \in KernelState
  BY <1>1, <1>4, <1>5, <1>8, SetTask
<1>11. Kin(s, k')
  BY <1>2, <1>4, <1>10, EnqueueKin
<1> QED BY <1>9, <1>10, <1>11, HeirKin

\* yield.
LEMMA YieldKin ==
  ASSUME NEW s, NEW n, Good(s, n)
  PROVE  Kin(s, yield(s))
<1> DEFINE t == s.cur
           s1 == [s EXCEPT !.task[t].mlfq_cont_ticks = 0]
           s2 == IF s.task[t].tier # USER THEN s ELSE task_set_mlfq_level(s1, t, 0)
           s3 == [s2 EXCEPT !.task[t].state = "READY"]
<1>1. 0 \in MlfqTicks /\ 0 \in MlfqLevel
  BY DEF MlfqTicks, MlfqLevel, MLFQ_DEMOTE_TICKS
<1>2. s \in KernelState /\ t \in Task
  BY CurrentTyped DEF Good, Disc
<1>3. Good(s1, n) /\ s1.cur = t /\ Kin(s, s1)
  BY <1>1, <1>2, CurrentCont, FieldKin
<1> HIDE DEF s1
<1>4. s1 \in KernelState
  BY <1>3 DEF Good, Disc
<1> DEFINE l == [s1 EXCEPT !.task[t].mlfq_level = 0]
<1>5. task_set_mlfq_level(s1, t, 0) = l
  BY <1>1, <1>3, <1>4, SetLevelCurrent
<1>6. Good(l, n) /\ l.cur = t /\ Kin(s, l)
  <2>1. l = [s1 EXCEPT !.task[s1.cur].mlfq_level = 0] /\ l = [s1 EXCEPT !.task[t].mlfq_level = 0]
    BY <1>3
  <2> HIDE DEF l, t
  <2>2. Good(l, n) /\ l.cur = t
    <3>1. l = [s1 EXCEPT !.task[s1.cur].mlfq_level = 0] /\ Good(s1, n) /\ 0 \in MlfqLevel
      BY ZenonT(60), <1>1, <1>3, <2>1
    <3>2. Good(l, n) /\ l.cur = s1.cur
      BY ONLY <3>1, CurrentLevel
    <3> QED BY ZenonT(60), <1>3, <3>2
  <2>3. Kin(s1, l)
    BY <1>2, <1>4, <2>1, FieldKin
  <2> QED BY <1>3, <2>2, <2>3, KinTrans
<1> HIDE DEF l
<1>7. Good(s2, n) /\ s2.cur = t /\ Kin(s, s2)
  BY <1>5, <1>6, SameTaskKin
<1>8. yield(s) = schedule(s3)
  BY DEF yield, s2, s1
<1> HIDE DEF s2
<1>9. s2 \in KernelState
  BY <1>7 DEF Good, Disc
<1>10. Good(s3, n)
  BY ZenonT(60), <1>7, CurrentState
<1>11. Kin(s2, s3)
  <2> DEFINE x == s2.task[t]
             y == [x EXCEPT !.state = "READY"]
  <2>1. x \in TaskRecord /\ (t \in Slot => x.state # "EXITED")
    <3> HIDE DEF t
    <3>1. x \in TaskRecord
      BY <1>2, <1>9 DEF KernelState
    <3>2. t # Idle => x.state \in {"RUNNING", "READY"}
      BY <1>7 DEF Good, Runnable
    <3> QED BY <3>1, <3>2, SlotFacts
  <2>2. s3 = [s2 EXCEPT !.task[t] = y]
    BY <1>2, <1>9 DEF KernelState
  <2> HIDE DEF x
  <2>3. y \in TaskRecord /\ y.in_use = x.in_use /\ y.parent = x.parent /\ y.state = "READY"
    BY <2>1 DEF TaskRecord, TaskState
  <2> HIDE DEF y, s3
  <2>4. s3.task[t] = y /\ \A u \in Task : u # t => s3.task[u] = s2.task[u]
    BY <1>2, <1>9, <2>2, <2>3, SetTask
  <2> QED BY <2>1, <2>3, <2>4, SlotFacts DEF Kin, SameKin, x
<1> HIDE DEF s3
<1>12. Kin(s3, yield(s))
  BY <1>8, <1>10, GoodKin
<1> QED BY <1>7, <1>11, <1>12, KinTrans

\* Every step keeps parents alive and the dead dead.
LEMMA NextHeir ==
  ASSUME CpuQuotas \subseteq {0}, TypeOK, NewSlotKnown, QueueInv, Alive(k), [Next]_vars
  PROVE  Heir(k, k')
<1> DEFINE n == Spawning
<1>1. Good(k, n) /\ k \in KernelState /\ k.cur \in Task
  BY CurrentTyped DEF QueueInv, TypeOK
<1>2. ASSUME Kin(k, k') PROVE Heir(k, k')
  BY <1>1, <1>2, KinStep
<1>3. ASSUME k' = k PROVE Heir(k, k')
  BY <1>2, <1>3, SameTaskKin
<1>4. CASE pit_handler
  BY <1>4, TickHeir
<1>5. CASE \/ OtherInterrupt \/ WatchdogCheck \/ SpawnFails \/ SpawnRecord \/ SpawnTest
           \/ SpawnLoad \/ SpawnStamp \/ UNCHANGED vars
  BY <1>3, <1>5 DEF OtherInterrupt, WatchdogCheck, SpawnFails, SpawnRecord, SpawnTest, SpawnLoad,
                    SpawnStamp, vars
<1>6. CASE Yield
  BY <1>1, <1>2, <1>6, YieldKin DEF Yield
<1>7. CASE Exit
  BY <1>1, <1>7, ExitHeir DEF Exit
<1>8. ASSUME NEW quota \in CpuQuotas, NEW tier \in ForkTiers, Fork(quota, tier) PROVE Heir(k, k')
  BY <1>8, ForkHeir
<1>9. CASE OutOfMemory
  <2>1. k' = [k EXCEPT !.task[k.cur].tier = CRITICAL]
    BY <1>9 DEF OutOfMemory
  <2>2. Kin(k, k')
    BY <1>1, <2>1, FieldKin
  <2> QED BY <1>2, <2>2
<1>10. ASSUME NEW tier \in Tier
       PROVE  /\ task_set_tier(k, k.cur, tier) \in KernelState
              /\ Kin(k, task_set_tier(k, k.cur, tier))
  <2>1. PICK r : r = [k EXCEPT !.task[k.cur].tier = tier]
    BY ZenonT(60)
  <2>2. task_set_tier(k, k.cur, tier) = r /\ task_set_tier(k, k.cur, tier) \in KernelState
    BY <1>1, <2>1, SetTierCurrent
  <2>3. Kin(k, r)
    BY <1>1, <2>1, FieldKin
  <2> QED BY <2>2, <2>3
<1>11. ASSUME NEW tier \in {SYSTEM, USER}, Exec(tier) PROVE Heir(k, k')
  <2>1. tier \in Tier
    BY DEF Tier, SYSTEM, USER
  <2> QED BY <1>2, <1>3, <1>10, <1>11, <2>1 DEF Exec
<1>12. ASSUME NEW pid \in Slot \cup {AnyChild}, Wait(pid) PROVE Heir(k, k')
  BY <1>1, <1>12, WaitLoopHeir DEF Wait
<1>13. CASE WaitResume
  <2>1. k.task[k.cur] \in TaskRecord
    BY <1>1, CurrentTyped
  <2>2. k.task[k.cur].wait \in Slot \cup {NULL, AnyChild}
    BY <2>1 DEF TaskRecord
  <2> QED BY <1>1, <1>13, <2>2, WaitLoopHeir DEF WaitResume
<1>14. ASSUME NEW pid \in Slot \cup {AnyChild}, Kill(pid) PROVE Heir(k, k')
  <2> DEFINE child == task_find_child(k, k.cur, pid)
  <2>1. child # NULL /\ k' = [k EXCEPT !.task[child].kill_pending = TRUE]
    BY <1>14 DEF Kill
  <2>2. child \in Task
    BY <2>1, FindChildType, SlotFacts
  <2> HIDE DEF child
  <2>3. Kin(k, k')
    BY <1>1, <2>1, <2>2, FieldKin
  <2> QED BY <1>2, <2>3
<1>15. ASSUME NEW tier \in Tiers, TierRequest(tier) PROVE Heir(k, k')
  <2>1. tier \in Tier
    BY KernelConstants
  <2> QED BY <1>2, <1>10, <1>15, <2>1 DEF TierRequest
<1>16. ASSUME NEW tier \in Tiers, SetTier(tier) PROVE Heir(k, k')
  <2> DEFINE s == task_set_tier(k, k.cur, tier)
  <2>1. tier \in Tier
    BY KernelConstants
  <2>2. s \in KernelState /\ Kin(k, s)
    BY <1>10, <2>1
  <2>3. k' = [s EXCEPT !.task[k.cur].tier_override = tier]
    BY <1>16 DEF SetTier
  <2> HIDE DEF s
  <2>4. Kin(s, k')
    BY <1>1, <2>2, <2>3, FieldKin
  <2> QED BY <1>2, <2>2, <2>4, KinTrans
<1>17. CASE Boot \/ IdleSchedule
  <2>1. k' = schedule(k)
    BY <1>17 DEF Boot, IdleSchedule
  <2> QED BY <1>1, <1>2, <2>1, GoodKin
<1>18. CASE SpawnCreate
  <2> DEFINE c == Min(FreeSlots(k))
             y == [NewTask EXCEPT !.state = "READY", !.tier = USER, !.tier_override = NULL]
  <2>1. FreeSlots(k) # {} /\ k' = [k EXCEPT !.task[c] = y]
    BY <1>18 DEF SpawnCreate
  <2>2. c \in Slot /\ ~k.task[c].in_use
    BY <2>1, FreeSlotType
  <2>3. y \in TaskRecord /\ y.state = "READY"
    BY SpawnedType
  <2>4. y.parent = NULL
    BY DEF NewTask, ZeroTask
  <2> HIDE DEF c, y
  <2> QED BY <1>1, <2>1, <2>2, <2>3, <2>4, TakeHeir
<1>19. CASE SpawnEnqueue
  <2> DEFINE c == idle.new
             s == [k EXCEPT !.task[c].tier = SYSTEM]
  <2>1. c \in Slot /\ c \in Task /\ k' = enqueue_task(s, c)
    BY <1>19, SlotFacts DEF SpawnEnqueue, IdleAt, NewSlotKnown
  <2>2. SYSTEM \in Tier
    BY DEF Tier, SYSTEM
  <2>3. s \in KernelState
    BY <1>1, <2>1, <2>2, PutTier
  <2>4. s = [k EXCEPT !.task[c].tier = SYSTEM]
    OBVIOUS
  <2> HIDE DEF s, c
  <2>5. Kin(k, s)
    BY <1>1, <2>1, <2>4, FieldKin
  <2>6. Kin(s, k')
    BY <2>1, <2>3, EnqueueKin
  <2> QED BY <1>2, <2>5, <2>6, KinTrans
<1>20. CASE SpawnMark
  <2>1. /\ k' = IF idle.new = NULL THEN k ELSE [k EXCEPT !.task[idle.new].wd_managed = TRUE]
        /\ idle.new # NULL => idle.new \in Task
    BY <1>20, SlotFacts DEF SpawnMark, TypeOK, IdleLoop
  <2>2. CASE idle.new = NULL
    BY <1>3, <2>1, <2>2
  <2>3. CASE idle.new # NULL
    <3>1. Kin(k, k')
      BY <1>1, <2>1, <2>3, FieldKin
    <3> QED BY <1>2, <3>1
  <2> QED BY <2>2, <2>3
<1> QED
  BY <1>4, <1>5, <1>6, <1>7, <1>8, <1>9, <1>11, <1>12, <1>13, <1>14, <1>15, <1>16, <1>17, <1>18,
     <1>19, <1>20 DEF Next

\* The invariant both theorems rest on.
LifeInv == TypeOK /\ NewSlotKnown /\ QueueInv /\ ParentAlive

\* It holds at the end of boot.
LEMMA InitLife == Init => LifeInv
<1> SUFFICES ASSUME Init PROVE LifeInv
  OBVIOUS
<1>1. TypeOK /\ NewSlotKnown /\ QueueInv
  BY InitType, InitDisc DEF Init, NewSlotKnown
<1>2. \A t \in Slot : k.task[t] = IF t = 1 THEN ShellTask ELSE ZeroTask
  BY SlotFacts DEF Init
<1>3. ShellTask.parent = NULL /\ ZeroTask.parent = NULL
  BY DEF ShellTask, NewTask, ZeroTask
<1>4. ParentAlive
  BY <1>2, <1>3 DEF ParentAlive
<1> QED BY <1>1, <1>4 DEF LifeInv

\* Every step keeps it.
LEMMA NextLife ==
  ASSUME CpuQuotas \subseteq {0}, LifeInv, [Next]_vars
  PROVE  LifeInv' /\ Heir(k, k')
<1>1. TypeOK' /\ NewSlotKnown' /\ QueueInv'
  BY NextType, NextNewSlot, NextDisc DEF LifeInv
<1>2. Alive(k)
  BY DEF LifeInv, ParentAlive, Alive
<1>3. Heir(k, k')
  BY <1>2, NextHeir DEF LifeInv
<1>4. ParentAlive'
  BY <1>3 DEF Heir, Alive, ParentAlive
<1> QED BY <1>1, <1>3, <1>4 DEF LifeInv

(***************************************************************************)
(* The parent pointers of task.c: without quotas, for every number of      *)
(* slots, the parent of a task in use is a live task and not itself,       *)
(* because task_exit clears the pointers of its children in the same       *)
(* handler that marks it dead, and only dead tasks are freed.              *)
(***************************************************************************)
THEOREM ParentsLive ==
  ASSUME CpuQuotas \subseteq {0}
  PROVE  Spec => []ParentAlive
<1>1. LifeInv /\ [Next]_vars => LifeInv'
  BY NextLife
<1>2. LifeInv => ParentAlive
  BY DEF LifeInv
<1> QED BY <1>1, <1>2, InitLife, PTL DEF Spec

(***************************************************************************)
(* Dead tasks: without quotas no step of the kernel makes a task runnable  *)
(* again once task_exit has marked it EXITED; it stays so until sys_wait   *)
(* or the watchdog frees its slot.                                         *)
(***************************************************************************)
THEOREM DeadStayDead ==
  ASSUME CpuQuotas \subseteq {0}
  PROVE  Spec => NoResurrection
<1> DEFINE A == \A t \in Slot : k.task[t].in_use /\ k.task[t].state = "EXITED"
                  => ~k'.task[t].in_use \/ k'.task[t].state = "EXITED"
<1>1. LifeInv /\ [Next]_vars => LifeInv'
  BY NextLife
<1>2. LifeInv /\ [Next]_vars => [A]_vars
  <2>1. ASSUME LifeInv, [Next]_vars PROVE A
    BY <2>1, NextLife DEF Heir, StayDead
  <2> QED BY <2>1
<1>3. NoResurrection <=> [][A]_vars
  BY DEF NoResurrection
<1> HIDE DEF A
<1> QED BY <1>1, <1>2, <1>3, InitLife, PTL DEF Spec

=============================================================================
