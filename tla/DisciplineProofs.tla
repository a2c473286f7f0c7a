-------------------------- MODULE DisciplineProofs --------------------------
(*****************************************************************************)
(* The ready queues of module Kernel are right in every reachable            *)
(* state when no task has a CPU quota.  The inductive invariant is           *)
(* QueueInv, with TypeOK and NewSlotKnown.                                   *)
(*****************************************************************************)
EXTENDS KernelProofs

\* Each leaf goes to the SMT solver unless it names another prover.
USE SMTT(60)

\* A dead task may be freed.
LEMMA FreeDisc ==
  ASSUME NEW s, NEW C, NEW n, Disc(s, C, n), NEW t \in Slot, s.task[t].state = "EXITED", t \notin C,
         NEW r, r = free_task_slot(s, t)
  PROVE  /\ Disc(r, C, n) /\ r.cur = s.cur
         /\ \A u \in Task : u # t => r.task[u] = s.task[u]
<1>1. s \in KernelState /\ t \in Task
  BY SlotFacts DEF Disc
<1>2. /\ r \in KernelState /\ r.task[t] = ZeroTask /\ r.rq = s.rq /\ r.cur = s.cur
      /\ \A u \in Task : u # t => r.task[u] = s.task[u]
  BY <1>1, SetTask, ZeroTaskType DEF free_task_slot
<1>3. \A q, u : On(r, q, u) <=> On(s, q, u)
  BY <1>2 DEF On
<1>4. Linear(r)
  BY <1>2 DEF Linear, Disc
<1>5. ~ZeroTask.in_use /\ ZeroTask.state = "RUNNING" /\ ZeroTask.cpu_quota = 0 /\ ~ZeroTask.quota_done
  BY DEF ZeroTask
<1>6. NoQuota(r)
  BY <1>2, <1>5 DEF NoQuota, Disc
<1>7. \A u \in Slot : u # t => r.task[u] = s.task[u] /\ task_qidx(r, u) = task_qidx(s, u)
  BY <1>2, SlotFacts DEF task_qidx
<1>8. t # n /\ Unlinked(s, t)
  BY DEF Disc, Unlinked
<1>9. Disc(r, C, n)
  BY <1>2, <1>3, <1>4, <1>5, <1>6, <1>7, <1>8 DEF Disc, Unlinked
<1> QED BY <1>2, <1>9

\* A blocked task is linked nowhere; waking it links it once.
LEMMA WakeDisc ==
  ASSUME NEW s, NEW n, NEW C, Disc(s, C, n), NEW p \in Slot, p \notin C, s.task[p].state = "WAITING",
         NEW y \in TaskRecord, y.in_use = s.task[p].in_use, y.state = "READY",
         y.cur_queue = s.task[p].cur_queue, y.cpu_quota = 0, ~y.quota_done,
         NEW r, r = enqueue_task([s EXCEPT !.task[p] = y], p)
  PROVE  /\ Disc(r, C, n) /\ r.cur = s.cur
         /\ \A u \in Task : u # p => r.task[u] = s.task[u]
         /\ \A u \in Slot : u # p /\ Unlinked(s, u) => Unlinked(r, u)
<1> DEFINE D == C \cup {p}
           s1 == [s EXCEPT !.task[p] = y]
<1>1. s \in KernelState /\ p \in Task
  BY SlotFacts DEF Disc
<1>2. s.task[p].in_use /\ p # n /\ Unlinked(s, p)
  BY DEF Disc, Unlinked
<1>3. Disc(s, D, n)
  BY ZenonT(60), <1>2, DiscGrow
<1>4. p \in D
  OBVIOUS
<1> HIDE DEF D
<1>5. Disc(s1, D, n)
  BY ZenonT(60), <1>1, <1>2, <1>3, <1>4, ExemptChange
<1>6. /\ s1 \in KernelState /\ s1.task[p] = y /\ s1.rq = s.rq /\ s1.cur = s.cur
      /\ \A u \in Task : u # p => s1.task[u] = s.task[u]
  BY <1>1, SetTask
<1>7. r = enqueue_task(s1, p)
  OBVIOUS
<1> HIDE DEF s1
<1>8. \A u : Unlinked(s, u) <=> Unlinked(s1, u)
  BY <1>6 DEF Unlinked, On
<1>9. Disc(r, C, n)
  BY ZenonT(60), <1>2, <1>5, <1>6, <1>7, <1>8, EnqueueDisc DEF D
<1>10. r.cur = s1.cur /\ r.task = [s1.task EXCEPT ![p].cur_queue = task_qidx(s1, p)]
  <2>1. LET e == enqueue_task(s1, p)
        IN  e.cur = s1.cur /\ e.task = [s1.task EXCEPT ![p].cur_queue = task_qidx(s1, p)]
    BY ZenonT(60), <1>6, EnqueueFields
  <2> QED BY <1>7, <2>1
<1>11. \A q \in Queue, u \in Slot : On(r, q, u) <=> On(s1, q, u) \/ (q = task_qidx(s1, p) /\ u = p)
  <2>1. s1 \in KernelState
    BY <1>6
  <2>2. LET e == enqueue_task(s1, p)
        IN  \A q \in Queue, u \in Slot : On(e, q, u) <=> On(s1, q, u) \/ (q = task_qidx(s1, p) /\ u = p)
    BY <2>1, EnqueueOn
  <2> QED BY <1>7, <2>2
<1>12. \A u \in Slot : u # p /\ Unlinked(s1, u) => Unlinked(r, u)
  BY <1>11 DEF Unlinked
<1>13. s1.task \in [Task -> TaskRecord]
  BY <1>6 DEF KernelState
<1>14. \A u \in Task : u # p => r.task[u] = s1.task[u]
  BY <1>10, <1>13
<1> QED BY <1>6, <1>8, <1>9, <1>10, <1>12, <1>14

\* Waking a blocked parent is queueing it with another struct.
LEMMA WakeParentForm ==
  ASSUME NEW s \in KernelState, NEW p \in Slot, s.task[p].state = "WAITING",
         s.task[p].cpu_quota = 0, ~s.task[p].quota_done
  PROVE  \E y \in TaskRecord :
           /\ y.in_use = s.task[p].in_use /\ y.state = "READY" /\ y.cur_queue = s.task[p].cur_queue
           /\ y.cpu_quota = 0 /\ ~y.quota_done /\ y.parent = s.task[p].parent
           /\ WakeParent(s, p) = enqueue_task([s EXCEPT !.task[p] = y], p)
<1> DEFINE x == s.task[p]
           y1 == [x EXCEPT !.state = "READY"]
           y2 == [x EXCEPT !.state = "READY", !.mlfq_cont_ticks = 0, !.mlfq_level = 0]
           ready == [s EXCEPT !.task[p].state = "READY"]
           z == [ready EXCEPT !.task[p].mlfq_cont_ticks = 0, !.task[p].mlfq_level = 0]
           r == WakeParent(s, p)
<1>1. p \in Task /\ p # NULL
  BY SlotFacts
<1>2. x \in TaskRecord /\ x.cpu_quota = 0 /\ ~x.quota_done
  BY <1>1 DEF KernelState
<1>3. ready = [s EXCEPT !.task[p] = y1]
  BY <1>1 DEF KernelState
<1>4. z = [s EXCEPT !.task[p] = y2]
  BY ZenonT(60), <1>1 DEF KernelState
<1>5. r = enqueue_task(IF x.tier = USER THEN z ELSE ready, p)
  BY <1>1 DEF WakeParent
<1> HIDE DEF x, ready, z, r
<1>6. /\ y1 \in TaskRecord /\ y1.in_use = x.in_use /\ y1.state = "READY"
      /\ y1.cur_queue = x.cur_queue /\ y1.cpu_quota = 0 /\ ~y1.quota_done /\ y1.parent = x.parent
  BY <1>2 DEF TaskRecord, TaskState
<1>7. /\ y2 \in TaskRecord /\ y2.in_use = x.in_use /\ y2.state = "READY"
      /\ y2.cur_queue = x.cur_queue /\ y2.cpu_quota = 0 /\ ~y2.quota_done /\ y2.parent = x.parent
  <2>1. "READY" \in TaskState /\ 0 \in MlfqTicks /\ 0 \in MlfqLevel
    BY DEF TaskState, MlfqTicks, MlfqLevel, MLFQ_DEMOTE_TICKS
  <2>2. y2 = [x EXCEPT !.state = "READY", !.mlfq_cont_ticks = 0, !.mlfq_level = 0]
    OBVIOUS
  <2> HIDE DEF y2
  <2>3. /\ y2.in_use = x.in_use /\ y2.state = "READY" /\ y2.parent = x.parent
        /\ y2.cur_queue = x.cur_queue /\ y2.cpu_quota = 0 /\ ~y2.quota_done
    BY <1>2, <2>2 DEF TaskRecord
  <2>4. y2 \in TaskRecord
    <3> DEFINE w1 == [x EXCEPT !.state = "READY"]
               w2 == [w1 EXCEPT !.mlfq_cont_ticks = 0]
    <3>1. y2 = [w2 EXCEPT !.mlfq_level = 0]
      BY <1>2, <2>2 DEF TaskRecord
    <3>2. w1 \in TaskRecord
      BY <1>2, <2>1 DEF TaskRecord
    <3> HIDE DEF w1
    <3>3. w2 \in TaskRecord
      BY <2>1, <3>2 DEF TaskRecord
    <3> HIDE DEF w2
    <3> QED BY <2>1, <3>1, <3>3 DEF TaskRecord
  <2> QED BY <2>3, <2>4
<1> HIDE DEF y1, y2
<1>8. CASE x.tier = USER
  BY ZenonT(60), <1>4, <1>5, <1>7, <1>8 DEF x, r
<1>9. CASE x.tier # USER
  BY ZenonT(60), <1>3, <1>5, <1>6, <1>9 DEF x, r
<1> QED BY ZenonT(60), <1>8, <1>9

\* Waking the parent of an exiting task keeps the discipline.
LEMMA WakeParentDisc ==
  ASSUME NEW s, NEW n, NEW t \in Task, NEW C, C = {t}, Disc(s, C, n), NEW p \in Slot \cup {NULL},
         s.task[t].state = "EXITED", NEW r, r = WakeParent(s, p)
  PROVE  /\ Disc(r, C, n) /\ r.cur = s.cur /\ r.task[t] = s.task[t]
         /\ Unlinked(s, t) => Unlinked(r, t)
<1>1. CASE p = NULL \/ s.task[p].state # "WAITING"
  BY <1>1 DEF WakeParent
<1>2. CASE p # NULL /\ s.task[p].state = "WAITING"
  <2>1. p \in Slot /\ p \in Task /\ p # t /\ s \in KernelState
    BY <1>2, SlotFacts DEF Disc
  <2>2. s.task[p].cpu_quota = 0 /\ ~s.task[p].quota_done
    BY <2>1 DEF Disc, NoQuota
  <2>3. \E y \in TaskRecord :
          /\ y.in_use = s.task[p].in_use /\ y.state = "READY" /\ y.cur_queue = s.task[p].cur_queue
          /\ y.cpu_quota = 0 /\ ~y.quota_done
          /\ r = enqueue_task([s EXCEPT !.task[p] = y], p)
    BY ZenonT(60), <1>2, <2>1, <2>2, WakeParentForm
  <2>4. /\ Disc(r, C, n) /\ r.cur = s.cur
        /\ \A u \in Task : u # p => r.task[u] = s.task[u]
        /\ \A u \in Slot : u # p /\ Unlinked(s, u) => Unlinked(r, u)
    <3>1. PICK y \in TaskRecord :
          /\ y.in_use = s.task[p].in_use /\ y.state = "READY" /\ y.cur_queue = s.task[p].cur_queue
          /\ y.cpu_quota = 0 /\ ~y.quota_done
          /\ r = enqueue_task([s EXCEPT !.task[p] = y], p)
      BY ZenonT(60), <2>3
    <3>2. s.task[p].state = "WAITING" /\ p \in Slot /\ p # t /\ Disc(s, C, n) /\ p \notin C
      BY <1>2, <2>1
    <3> QED BY ONLY <3>1, <3>2, WakeDisc
  <2>5. t \in Slot => (Unlinked(s, t) => Unlinked(r, t))
    BY <2>1, <2>4
  <2>6. t \notin Slot => Unlinked(r, t)
    BY <2>4, NoSlotUnlinked DEF Disc
  <2> QED BY <2>1, <2>4, <2>5, <2>6
<1> QED BY <1>1, <1>2

\* Disowning its children keeps the discipline.
LEMMA DisownDisc ==
  ASSUME NEW s, NEW C, NEW n, NEW t, Disc(s, C, n), NEW r, r = Disown(s, t)
  PROVE  /\ Disc(r, C, n) /\ r.cur = s.cur /\ r.rq = s.rq
         /\ \A u \in Task : SameShape(r.task[u], s.task[u])
<1>1. s \in KernelState
  BY DEF Disc
<1>2. /\ r \in KernelState /\ r.rq = s.rq /\ r.cur = s.cur
      /\ \A u \in Task : r.task[u] = IF u \in Children(s, t)
                                    THEN [s.task[u] EXCEPT !.parent = NULL] ELSE s.task[u]
  BY <1>1, DisownType
<1>3. ASSUME NEW u \in Task PROVE SameShape(r.task[u], s.task[u])
  <2> DEFINE x == s.task[u]
             y == [x EXCEPT !.parent = NULL]
  <2>1. x \in TaskRecord
    BY <1>1 DEF KernelState
  <2>2. r.task[u] = x \/ r.task[u] = y
    BY <1>2
  <2> HIDE DEF x
  <2>3. SameShape(y, x) /\ SameShape(x, x)
    BY <2>1 DEF TaskRecord, SameShape
  <2> HIDE DEF y
  <2> QED BY <2>2, <2>3 DEF x
<1> QED BY <1>2, <1>3, Neutral

\* The exempted task, or the idle task, taken off its list.
LEMMA DequeueCurrent ==
  ASSUME NEW s, NEW n, NEW t \in Task, Disc(s, {t}, n), NEW r, r = dequeue_task(s, t)
  PROVE  Disc(r, {t}, n) /\ Unlinked(r, t) /\ r.task = s.task /\ r.cur = s.cur
<1>1. s \in KernelState
  BY DEF Disc
<1>2. r \in KernelState /\ r.task = s.task /\ r.cur = s.cur
  BY <1>1, DequeueFields
<1>3. CASE t \in Slot
  BY <1>2, <1>3, DequeueDisc
<1>4. CASE t \notin Slot
  <2>1. \A q \in Queue : PositionsOf(t, s.rq[q]) = {}
    <3>1. s.rq \in [Queue -> Seq(Slot)]
      BY <1>1 DEF KernelState
    <3>2. ASSUME NEW q \in Queue, NEW i \in 1 .. Len(s.rq[q]) PROVE s.rq[q][i] \in Slot
      <4>1. s.rq[q] \in Seq(Slot)
        BY <3>1
      <4> QED BY <4>1
    <3> QED BY ZenonT(60), <1>4, <3>2, Zenon DEF PositionsOf
  <2>2. r = s
    BY <2>1 DEF dequeue_task
  <2> QED BY <1>1, <1>4, <2>2, NoSlotUnlinked
<1> QED BY <1>2, <1>3, <1>4

\* When task_exit calls schedule, the dead task is off every list.
LEMMA ExitBefore ==
  ASSUME NEW s, NEW n, Good(s, n)
  PROVE  LET t == s.cur
             dead == [dequeue_task(s, t) EXCEPT !.task[t].state = "EXITED"]
             o == Disown(WakeParent(dead, dead.task[t].parent), t)
         IN  /\ task_exit(s) = schedule(o) /\ Disc(o, {t}, n) /\ o.cur = t /\ Unlinked(o, t)
             /\ t # Idle => o.task[t].in_use
<1> DEFINE t == s.cur
           d == dequeue_task(s, t)
           x == d.task[t]
           y == [x EXCEPT !.state = "EXITED"]
           dead == [d EXCEPT !.task[t].state = "EXITED"]
           w == WakeParent(dead, dead.task[t].parent)
           o == Disown(w, t)
<1>1. Disc(s, {t}, n) /\ t \in Task /\ (t \in Slot => s.task[t].in_use) /\ (t # Idle => s.task[t].in_use)
  <2>1. s \in KernelState
    BY DEF Good, Disc
  <2> QED BY <2>1, CurrentTyped, SlotFacts DEF Good, Runnable
<1>2. Disc(d, {t}, n) /\ Unlinked(d, t) /\ d.task = s.task /\ d.cur = t
  BY <1>1, DequeueCurrent
<1>3. task_exit(s) = schedule(o)
  BY DEF task_exit, d
<1> HIDE DEF d
<1>4. d \in KernelState
  BY <1>2 DEF Disc
<1>5. x \in TaskRecord /\ x.cpu_quota = 0 /\ ~x.quota_done
  BY <1>1, <1>2, <1>4 DEF KernelState, Disc, NoQuota
<1>6. dead = [d EXCEPT !.task[t] = y]
  BY <1>1, <1>4 DEF KernelState
<1> HIDE DEF x
<1>7. /\ y \in TaskRecord /\ y.state = "EXITED" /\ y.in_use = x.in_use
      /\ y.cur_queue = x.cur_queue /\ y.cpu_quota = 0 /\ ~y.quota_done
  BY <1>5 DEF TaskRecord, TaskState
<1> HIDE DEF y, dead
<1>8. dead \in KernelState /\ dead.task[t] = y /\ dead.rq = d.rq /\ dead.cur = t
  <2>1. y \in TaskRecord
    BY <1>7
  <2> QED BY <1>1, <1>2, <1>4, <1>6, <2>1, SetTask
<1>9. Disc(dead, {t}, n)
  <2> DEFINE C == {t}
  <2>1. t \in Slot => t \in C /\ d.task[t].in_use
    BY <1>1, <1>2
  <2>2. Disc(d, C, n)
    BY <1>2
  <2> HIDE DEF C
  <2>3. Disc(dead, C, n)
    BY <1>1, <1>6, <1>7, <2>1, <2>2, ExemptChange DEF x
  <2> QED BY <2>3 DEF C
<1>10. Unlinked(dead, t)
  BY <1>2, <1>8 DEF Unlinked, On
<1>11. dead.task[t].parent \in Slot \cup {NULL} /\ dead.task[t].state = "EXITED"
  BY <1>7, <1>8 DEF TaskRecord
<1> HIDE DEF t
<1>12. Disc(w, {t}, n) /\ w.cur = t /\ w.task[t] = y /\ Unlinked(w, t)
  <2> DEFINE p == dead.task[t].parent
  <2>1. w = WakeParent(dead, p) /\ p \in Slot \cup {NULL} /\ dead.task[t].state = "EXITED" /\ t \in Task
    BY <1>1, <1>11
  <2> DEFINE C == {t}
  <2>3. C = {t} /\ Disc(dead, C, n)
    BY <1>9
  <2> HIDE DEF w, p, C
  <2>2. /\ Disc(w, C, n) /\ w.cur = dead.cur /\ w.task[t] = dead.task[t]
        /\ Unlinked(dead, t) => Unlinked(w, t)
    BY ONLY <2>1, <2>3, WakeParentDisc
  <2> QED BY <1>8, <1>10, <2>2 DEF C
<1> HIDE DEF w
<1>13. Disc(o, {t}, n) /\ o.cur = t /\ o.rq = w.rq /\ SameShape(o.task[t], w.task[t])
  <2>1. o = Disown(w, t) /\ Disc(w, {t}, n)
    BY <1>12
  <2> HIDE DEF o
  <2>2. /\ Disc(o, {t}, n) /\ o.cur = w.cur /\ o.rq = w.rq
        /\ \A u \in Task : SameShape(o.task[u], w.task[u])
    BY ONLY <2>1, DisownDisc
  <2> QED BY <1>1, <1>12, <2>2
<1> HIDE DEF o
<1>14. Unlinked(o, t)
  BY <1>12, <1>13 DEF Unlinked, On
<1>15. t # Idle => o.task[t].in_use
  BY <1>1, <1>2, <1>7, <1>12, <1>13 DEF SameShape, x
<1> QED BY ZenonT(60), <1>3, <1>13, <1>14, <1>15 DEF o, w, dead, d, t

\* task_exit keeps the discipline: the dead task leaves the CPU and every list.
LEMMA ExitDisc ==
  ASSUME NEW s, NEW n, Good(s, n)
  PROVE  Good(task_exit(s), n)
<1>1. PICK o : /\ task_exit(s) = schedule(o) /\ Disc(o, {s.cur}, n) /\ o.cur = s.cur
               /\ Unlinked(o, s.cur) /\ (s.cur # Idle => o.task[s.cur].in_use)
  BY ZenonT(60), ExitBefore
<1>2. Disc(o, {o.cur}, n) /\ Unlinked(o, o.cur) /\ (o.cur # Idle => o.task[o.cur].in_use)
  BY ZenonT(60), <1>1
<1> QED BY ONLY <1>1, <1>2, ScheduleDisc DEF Good

\* What a step must keep of the running task to keep Good.
LEMMA GoodKept ==
  ASSUME NEW s, NEW n, Good(s, n), NEW r, Disc(r, {s.cur}, n), r.cur = s.cur,
         s.cur # Idle => SameShape(r.task[s.cur], s.task[s.cur])
  PROVE  Good(r, n)
BY DEF Good, Runnable, SameShape

\* A dead task is not the running one.
LEMMA ReapedGood ==
  ASSUME NEW s, NEW n, Good(s, n), NEW t \in Slot, s.task[t].state = "EXITED"
  PROVE  Good(free_task_slot(s, t), n)
<1> DEFINE r == free_task_slot(s, t)
           C == {s.cur}
<1>1. t # s.cur
  BY SlotFacts DEF Good, Runnable
<1>2. Disc(s, C, n) /\ t \notin C /\ r = free_task_slot(s, t)
  BY <1>1 DEF Good
<1>3. s.cur \in Task
  BY <1>2, CurrentTyped DEF Disc
<1> HIDE DEF r, C
<1>4. /\ Disc(r, C, n) /\ r.cur = s.cur
      /\ \A u \in Task : u # t => r.task[u] = s.task[u]
  BY <1>2, FreeDisc
<1>5. SameShape(r.task[s.cur], s.task[s.cur])
  BY <1>1, <1>3, <1>4 DEF SameShape
<1>6. Good(r, n)
  BY <1>4, <1>5, GoodKept DEF C
<1> QED BY <1>6 DEF r

\* The caller of sys_wait that blocks, off its list.
LEMMA WaitBlocked ==
  ASSUME NEW n, Good(k, n), NEW pid \in Slot \cup {NULL, AnyChild}
  PROVE  LET t == k.cur
             d == dequeue_task([k EXCEPT !.task[t].state = "WAITING", !.task[t].wait = pid], t)
         IN  /\ Disc(d, {d.cur}, n) /\ (d.cur # Idle => d.task[d.cur].in_use)
             /\ d.task[d.cur].state # "EXITED"
<1> DEFINE t == k.cur
           x == k.task[t]
           y == [x EXCEPT !.state = "WAITING", !.wait = pid]
           w == [k EXCEPT !.task[t].state = "WAITING", !.task[t].wait = pid]
           d == dequeue_task(w, t)
<1>1. k \in KernelState /\ t \in Task
  BY CurrentTyped DEF Good, Disc
<1>2. w = [k EXCEPT !.task[t] = y]
  BY ZenonT(60), <1>1 DEF KernelState
<1>3. x \in TaskRecord /\ x.cpu_quota = 0 /\ ~x.quota_done
  BY <1>1 DEF KernelState, Good, Disc, NoQuota
<1>4. (t \in Slot => x.in_use) /\ (t # Idle => x.in_use)
  BY SlotFacts DEF Good, Runnable
<1> HIDE DEF x
<1>5. /\ y.state = "WAITING" /\ y.in_use = x.in_use
      /\ y.cur_queue = x.cur_queue /\ y.cpu_quota = 0 /\ ~y.quota_done
  BY <1>3 DEF TaskRecord
<1>6. y \in TaskRecord
  <2>1. "WAITING" \in TaskState
    BY DEF TaskState
  <2> DEFINE z == [x EXCEPT !.state = "WAITING"]
  <2>2. z \in TaskRecord
    BY <1>3, <2>1 DEF TaskRecord
  <2>3. y = [z EXCEPT !.wait = pid]
    BY <1>3 DEF TaskRecord
  <2> HIDE DEF z, y
  <2> QED BY <2>2, <2>3 DEF TaskRecord
<1> DEFINE C == {t}
<1>7. Disc(k, C, n) /\ (t \in Slot => t \in C)
  BY DEF Good
<1>8. d = dequeue_task(w, t)
  OBVIOUS
<1> HIDE DEF y, w, C, d
<1>9. w \in KernelState /\ w.task[t] = y /\ w.cur = t
  BY <1>1, <1>2, <1>6, SetTask
<1>10. Disc(w, C, n)
  BY <1>1, <1>2, <1>4, <1>5, <1>6, <1>7, ExemptChange DEF x
<1>11. Disc(d, {t}, n) /\ d.task = w.task /\ d.cur = t
  <2>1. Disc(w, {t}, n)
    BY <1>10 DEF C
  <2> HIDE DEF t
  <2> QED BY <1>1, <1>8, <1>9, <2>1, DequeueCurrent
<1>12. Disc(d, {d.cur}, n) /\ (d.cur # Idle => d.task[d.cur].in_use) /\ d.task[d.cur].state # "EXITED"
  BY <1>4, <1>5, <1>9, <1>11
<1> QED BY ZenonT(60), <1>12 DEF d, w, t

\* A turn of the loop of sys_wait keeps the discipline.
LEMMA WaitLoopDisc ==
  ASSUME NEW n, Good(k, n), NEW pid \in Slot \cup {NULL, AnyChild}, WaitLoop(pid)
  PROVE  Good(k', n)
<1> DEFINE t == k.cur
           child == task_find_child(k, t, pid)
           s == [k EXCEPT !.task[t].wait = NULL]
           w == [k EXCEPT !.task[t].state = "WAITING", !.task[t].wait = pid]
           d == dequeue_task(w, t)
<1>1. k \in KernelState /\ t \in Task
  BY CurrentTyped DEF Good, Disc
<1>2. k' = IF child = NULL THEN s
           ELSE IF k.task[child].state = "EXITED" THEN free_task_slot(s, child)
           ELSE schedule(d)
  BY DEF WaitLoop
<1>3. Good(s, n) /\ s.cur = t
  BY CurrentWait
<1>4. CASE child = NULL
  BY <1>2, <1>3, <1>4
<1>5. CASE child # NULL /\ k.task[child].state = "EXITED"
  <2>1. child \in Slot /\ child \in Task
    BY <1>5, FindChildType, SlotFacts
  <2>2. child # t
    BY <1>5, <2>1, SlotFacts DEF Good, Runnable
  <2>3. s.task[child] = k.task[child]
    BY <1>1, <2>1, <2>2 DEF KernelState
  <2> HIDE DEF s, child
  <2>4. Good(free_task_slot(s, child), n)
    BY <1>3, <1>5, <2>1, <2>3, ReapedGood
  <2> QED BY <1>2, <1>5, <2>4
<1>6. CASE child # NULL /\ k.task[child].state # "EXITED"
  <2>1. k' = schedule(d)
    BY <1>2, <1>6
  <2>2. Disc(d, {d.cur}, n) /\ (d.cur # Idle => d.task[d.cur].in_use) /\ d.task[d.cur].state # "EXITED"
    BY ZenonT(60), WaitBlocked
  <2> HIDE DEF d
  <2> QED BY <2>1, <2>2, ScheduleDisc DEF Good
<1> QED BY <1>4, <1>5, <1>6

\* The slot that spawn_user_process has taken and not queued yet.
Spawning == IF idle.pc = "enqueue" THEN idle.new ELSE NULL

\* The inductive invariant.
QueueInv == Good(k, Spawning)

\* The timer interrupt keeps the queue invariant.
LEMMA TickDisc ==
  ASSUME TypeOK, QueueInv, pit_handler
  PROVE  QueueInv'
<1> DEFINE n == Spawning
<1>1. Good(k, n) /\ wd \in WatchdogEntry /\ idle \in IdleLoop
  BY DEF QueueInv, TypeOK
<1>2. Spawning' = n
  BY <1>1 DEF pit_handler, WakeIdle, Spawning, IdleLoop
<1> HIDE DEF n
<1>3. CASE KilledAtTick
  <2> DEFINE s == [k EXCEPT !.task[k.cur].kill_pending = FALSE]
  <2>1. Good(s, n)
    BY ZenonT(60), <1>1, CurrentKill
  <2>2. k' = task_exit(s)
    BY <1>3 DEF KilledAtTick
  <2> HIDE DEF s
  <2>3. Good(k', n)
    BY <2>1, <2>2, ExitDisc
  <2> QED BY <1>2, <2>3 DEF QueueInv
<1>4. CASE ChargedAtTick(tick')
  <2> DEFINE now == tick'
             charged  == ChargeMlfq(ChargeQuota(k))
             checked  == IF now % WATCHDOG_TICKS = 0 THEN watchdog_tick(charged, wd) ELSE wd
             reaped   == WatchdogReap(charged, wd, checked)
             aged     == IF now % MLFQ_AGING_TICKS = 0 THEN task_mlfq_aging(reaped) ELSE reaped
             refilled == IF now % QUOTA_PERIOD_TICKS = 0 THEN task_quota_period_reset(aged) ELSE aged
  <2>1. Good(charged, n)
    BY <1>1, ChargeDisc
  <2>2. k' = schedule(refilled)
    BY <1>4 DEF ChargedAtTick
  <2> HIDE DEF charged
  <2>3. wd.task # NULL /\ checked.task = NULL
          => wd.task \in Slot /\ charged.task[wd.task].state = "EXITED"
    <3>1. wd.task \in Slot \cup {NULL}
      BY <1>1 DEF WatchdogEntry
    <3> QED BY <1>1, <3>1, WatchdogTickType
  <2> HIDE DEF checked
  <2>4. Good(reaped, n)
    BY <2>1, <2>3, ReapedGood DEF WatchdogReap
  <2> HIDE DEF reaped
  <2>5. Good(aged, n)
    BY <2>4, AgingDisc
  <2> HIDE DEF aged
  <2>6. Good(refilled, n)
    BY <2>5, QuotaResetDisc
  <2> HIDE DEF refilled
  <2>7. Good(k', n)
    BY <2>2, <2>6, GoodSchedule
  <2> QED BY <1>2, <2>7 DEF QueueInv
<1> QED BY <1>3, <1>4 DEF pit_handler

\* fork keeps the discipline: its child is queued once.
LEMMA ForkDisc ==
  ASSUME CpuQuotas \subseteq {0}, QueueInv, NEW quota \in CpuQuotas, NEW tier \in ForkTiers,
         Fork(quota, tier)
  PROVE  Good(k', Spawning)
<1> DEFINE n == Spawning
           c == Min(FreeSlots(k))
           y == ForkChild(k.cur, quota, tier)
           s == [k EXCEPT !.task[c] = y]
           C == {k.cur}
<1>1. Good(k, n) /\ Disc(k, C, n) /\ k \in KernelState
  BY ZenonT(60) DEF QueueInv, Good, Disc
<1>2. InUser /\ FreeSlots(k) # {} /\ k' = enqueue_task(s, c)
  BY DEF Fork, SystemCall
<1>3. k.cur \in Slot /\ k.cur \in Task
  BY <1>1, <1>2, CurrentTyped DEF InUser, Task
<1>4. c \in Slot /\ c \in Task /\ ~k.task[c].in_use
  BY <1>2, FreeSlotType, SlotFacts
<1>5. c # k.cur /\ c \notin C
  BY <1>2, <1>3, <1>4, SlotFacts DEF QueueInv, Good, Runnable
<1>6. /\ y \in TaskRecord /\ y.in_use /\ y.state = "READY" /\ ~y.quota_done
      /\ y.cpu_quota = InheritQuota(k.task[k.cur].cpu_quota, quota)
  BY <1>1, <1>3, ForkChildType
<1>7. y.cpu_quota = 0
  <2>1. k.task[k.cur].cpu_quota = 0 /\ quota = 0
    BY <1>1, <1>3 DEF Disc, NoQuota
  <2> QED BY <1>6, <2>1 DEF InheritQuota
<1>8. s = [k EXCEPT !.task[c] = y]
  OBVIOUS
<1> HIDE DEF n, c, y, s, C
<1>9. /\ Disc(s, C \cup {c}, n) /\ Unlinked(s, c) /\ c # n
      /\ s.task[c] = y /\ s.cur = k.cur
      /\ \A u \in Slot : u # c => s.task[u] = k.task[u]
  BY <1>1, <1>4, <1>5, <1>6, <1>7, <1>8, NewDisc
<1>10. Disc(enqueue_task(s, c), C, n)
  BY <1>4, <1>5, <1>6, <1>9, EnqueueDisc
<1>11. s \in KernelState
  BY <1>9 DEF Disc
<1>12. LET e == enqueue_task(s, c)
       IN  e.cur = s.cur /\ e.task = [s.task EXCEPT ![c].cur_queue = task_qidx(s, c)]
  BY ZenonT(60), <1>4, <1>11, EnqueueFields
<1>13. s.task \in [Task -> TaskRecord]
  BY <1>11 DEF KernelState
<1>14. k'.cur = k.cur /\ k'.task[k.cur] = k.task[k.cur]
  BY <1>2, <1>3, <1>5, <1>9, <1>12, <1>13
<1>15. Good(k', n)
  BY <1>1, <1>2, <1>10, <1>14, GoodKept DEF C, SameShape
<1> QED BY <1>15 DEF n

\* kill_pending and wd_managed are not among the fields of SameShape.
LEMMA FieldNeutral ==
  ASSUME NEW x \in TaskRecord, NEW y,
         y = [x EXCEPT !.kill_pending = TRUE] \/ y = [x EXCEPT !.wd_managed = TRUE]
  PROVE  y \in TaskRecord /\ SameShape(y, x)
<1>1. CASE y = [x EXCEPT !.kill_pending = TRUE]
  BY ZenonT(60), <1>1 DEF TaskRecord, SameShape
<1>2. CASE y = [x EXCEPT !.wd_managed = TRUE]
  BY ZenonT(60), <1>2 DEF TaskRecord, SameShape
<1> QED BY <1>1, <1>2

\* So kill and the watchdog mark keep the discipline.
LEMMA NeutralStep ==
  ASSUME NEW s, NEW n, Good(s, n), NEW t \in Task, NEW r,
         r = [s EXCEPT !.task[t].kill_pending = TRUE] \/ r = [s EXCEPT !.task[t].wd_managed = TRUE]
  PROVE  Good(r, n)
<1> DEFINE x == s.task[t]
           C == {s.cur}
<1>1. s \in KernelState /\ s.cur \in Task /\ Disc(s, C, n)
  BY CurrentTyped DEF Good, Disc
<1>2. x \in TaskRecord
  BY <1>1 DEF KernelState
<1>3. \E y : /\ y = [x EXCEPT !.kill_pending = TRUE] \/ y = [x EXCEPT !.wd_managed = TRUE]
             /\ r = [s EXCEPT !.task[t] = y]
  BY <1>1 DEF KernelState
<1>4. PICK y : /\ y = [x EXCEPT !.kill_pending = TRUE] \/ y = [x EXCEPT !.wd_managed = TRUE]
               /\ r = [s EXCEPT !.task[t] = y]
  BY ZenonT(60), <1>3
<1>5. y \in TaskRecord /\ SameShape(y, s.task[t])
  <2> HIDE DEF x
  <2>1. y \in TaskRecord /\ SameShape(y, x)
    BY <1>2, <1>4, FieldNeutral
  <2> QED BY <2>1 DEF x
<1> HIDE DEF C, x
<1>6. /\ Disc(r, C, n) /\ r.cur = s.cur
      /\ \A u \in Task : SameShape(r.task[u], s.task[u])
  BY <1>1, <1>4, <1>5, NeutralTask
<1> QED BY <1>1, <1>6, GoodKept DEF C

\* create_task makes the new shell the READY task that is not queued.
LEMMA SpawnCreateDisc ==
  ASSUME QueueInv, SpawnCreate
  PROVE  QueueInv'
<1> DEFINE c == Min(FreeSlots(k))
           y == [NewTask EXCEPT !.state = "READY", !.tier = USER, !.tier_override = NULL]
           C == {k.cur}
<1>1. /\ k.cur = Idle /\ idle.pc = "spawn" /\ FreeSlots(k) # {}
      /\ k' = [k EXCEPT !.task[c] = y] /\ idle' = [pc |-> "enqueue", new |-> c]
  BY DEF SpawnCreate, IdleAt, InIdle
<1>2. Spawning = NULL /\ Spawning' = c
  BY <1>1 DEF Spawning
<1>3. Disc(k, C, NULL)
  BY <1>2 DEF QueueInv, Good
<1>4. c \in Slot /\ ~k.task[c].in_use /\ c \notin C
  BY <1>1, FreeSlotType, SlotFacts
<1>5. /\ y \in TaskRecord /\ y.in_use /\ y.state = "READY" /\ y.mlfq_level = 0
      /\ y.cpu_quota = 0 /\ ~y.quota_done
  BY SpawnedType
<1> HIDE DEF c, y, C
<1> DEFINE r == k'
<1>6. r = [k EXCEPT !.task[c] = y]
  BY <1>1
<1> HIDE DEF r
<1>7. Disc(r, C \cup {c}, NULL) /\ Unlinked(r, c) /\ r.task[c] = y /\ r.cur = k.cur
  BY <1>3, <1>4, <1>5, <1>6, NewDisc
<1>8. Disc(r, C, c)
  BY <1>4, <1>5, <1>7, SlotFacts DEF Disc, Unlinked
<1>9. Good(r, c)
  BY <1>1, <1>7, <1>8 DEF Good, Runnable, C
<1> QED BY <1>2, <1>9 DEF QueueInv, r

\* The end of spawn_user_process queues it, exactly once.
LEMMA SpawnEnqueueDisc ==
  ASSUME QueueInv, NewSlotKnown, SpawnEnqueue
  PROVE  QueueInv'
<1> DEFINE c == idle.new
           x == k.task[c]
           y == [x EXCEPT !.tier = SYSTEM]
           C == {k.cur}
           D == C \cup {c}
           s == [k EXCEPT !.task[c].tier = SYSTEM]
<1>1. /\ k.cur = Idle /\ idle.pc = "enqueue" /\ c \in Slot /\ c \in Task
      /\ k' = enqueue_task(s, c) /\ idle' = [idle EXCEPT !.pc = "record"]
  BY SlotFacts DEF SpawnEnqueue, IdleAt, InIdle, NewSlotKnown
<1>2. Disc(k, C, c) /\ k \in KernelState
  BY <1>1 DEF QueueInv, Good, Spawning, Disc
<1>3. Spawning' = NULL
  <2>1. idle'.pc # "enqueue"
    BY <1>1
  <2> QED BY <2>1 DEF Spawning
<1>4. x \in TaskRecord /\ x.cpu_quota = 0 /\ ~x.quota_done /\ x.in_use /\ x.state = "READY"
  BY <1>1, <1>2 DEF KernelState, Disc, NoQuota
<1>5. Disc(k, D, NULL) /\ Unlinked(k, c) /\ c \in D /\ c \notin C /\ c # NULL
  BY <1>1, <1>2, SlotFacts DEF Disc, Unlinked
<1>6. s = [k EXCEPT !.task[c] = y]
  BY <1>1, <1>2 DEF KernelState
<1> HIDE DEF x
<1>7. /\ y \in TaskRecord /\ y.state = x.state /\ y.in_use = x.in_use
      /\ y.cur_queue = x.cur_queue /\ y.cpu_quota = 0 /\ ~y.quota_done
  <2>1. SYSTEM \in Tier
    BY DEF Tier, SYSTEM
  <2> QED BY ZenonT(60), <1>4, <2>1 DEF TaskRecord
<1> HIDE DEF y, s, D
<1>8. Disc(s, D, NULL)
  BY ZenonT(60), <1>1, <1>4, <1>5, <1>6, <1>7, ExemptChange DEF x
<1>9. s \in KernelState /\ s.task[c] = y /\ s.rq = k.rq /\ s.cur = k.cur
  <2>1. y \in TaskRecord
    BY <1>7
  <2> QED BY <1>1, <1>2, <1>6, <2>1, SetTask
<1>10. Unlinked(s, c)
  BY <1>5, <1>9 DEF Unlinked, On
<1> HIDE DEF C, c
<1>11. Disc(enqueue_task(s, c), C, NULL)
  BY ZenonT(60), <1>1, <1>4, <1>5, <1>7, <1>8, <1>9, <1>10, EnqueueDisc DEF D
<1>12. enqueue_task(s, c).cur = s.cur
  BY <1>1, <1>9, EnqueueType
<1>13. Good(k', NULL)
  BY <1>1, <1>9, <1>11, <1>12 DEF Good, Runnable, C
<1> QED BY <1>3, <1>13 DEF QueueInv

\* The queue invariant holds at the end of boot.
LEMMA InitDisc == Init => QueueInv
<1> SUFFICES ASSUME Init PROVE QueueInv
  OBVIOUS
<1>1. k \in KernelState /\ k.cur = Idle /\ Spawning = NULL
  BY InitType DEF TypeOK, Init, Spawning
<1>2. \A q \in Queue : k.rq[q] = IF q = 1 THEN <<1>> ELSE << >>
  BY DEF Init
<1>3. \A t \in Task : k.task[t] = IF t = 1 THEN ShellTask ELSE ZeroTask
  BY DEF Init
<1>4. /\ ShellTask.in_use /\ ShellTask.state = "READY" /\ ShellTask.cur_queue = 1
      /\ ShellTask.tier = SYSTEM /\ ShellTask.cpu_quota = 0 /\ ~ShellTask.quota_done
  BY NewTaskType DEF ShellTask, TaskRecord
<1>5. ~ZeroTask.in_use /\ ZeroTask.state = "RUNNING" /\ ZeroTask.cpu_quota = 0 /\ ~ZeroTask.quota_done
  BY DEF ZeroTask
<1>6. 1 \in Slot /\ 1 \in Task /\ 1 \in Queue
  BY SchedConstants, SlotFacts DEF Slot, Queue
<1>7. \A q \in Queue, t \in Slot : On(k, q, t) <=> q = 1 /\ t = 1
  <2>1. ASSUME NEW q \in Queue, NEW t \in Slot, On(k, q, t) PROVE q = 1 /\ t = 1
    BY <1>2, <2>1 DEF On
  <2>2. On(k, 1, 1)
    BY <1>2, <1>6 DEF On
  <2> QED BY <2>1, <2>2
<1>8. task_qidx(k, 1) = 1
  BY <1>3, <1>4, <1>6 DEF task_qidx, QueueOf, tier_to_queue_idx, USER, SYSTEM, KERNEL, CRITICAL
<1>9. Linear(k)
  BY <1>2 DEF Linear
<1>10. NoQuota(k)
  BY <1>3, <1>4, <1>5 DEF NoQuota
<1>11. \A t \in Slot : k.task[t] = IF t = 1 THEN ShellTask ELSE ZeroTask
  BY <1>3, SlotFacts
<1>12. Disc(k, {Idle}, NULL)
  BY <1>1, <1>4, <1>5, <1>6, <1>7, <1>8, <1>9, <1>10, <1>11, SlotFacts DEF Disc
<1> QED BY <1>1, <1>12 DEF QueueInv, Good, Runnable

\* Without quotas every step keeps the queue invariant.
LEMMA NextDisc ==
  ASSUME CpuQuotas \subseteq {0}, TypeOK, NewSlotKnown, QueueInv, [Next]_vars
  PROVE  QueueInv'
<1> DEFINE n == Spawning
<1>1. Good(k, n) /\ k \in KernelState /\ idle \in IdleLoop
  BY DEF QueueInv, TypeOK
<1>2. ASSUME NEW call, SystemCall(call), Good(k', n) PROVE QueueInv'
  BY <1>2 DEF SystemCall, QueueInv, Spawning
<1>3. ASSUME Good(k', NULL), idle'.pc # "enqueue" PROVE QueueInv'
  BY <1>3 DEF QueueInv, Spawning
<1>4. idle.pc # "enqueue" => n = NULL
  BY DEF Spawning
<1>5. CASE pit_handler
  BY <1>5, TickDisc
<1>6. CASE OtherInterrupt
  <2>1. idle.pc # "enqueue" /\ k' = k
    BY <1>6 DEF OtherInterrupt
  <2>2. idle'.pc # "enqueue"
    BY <1>1, <1>6 DEF OtherInterrupt, WakeIdle, IdleLoop
  <2> QED BY <1>1, <1>3, <1>4, <2>1, <2>2
<1>7. CASE Yield
  BY <1>1, <1>2, <1>7, YieldDisc DEF Yield
<1>8. CASE Exit
  BY <1>1, <1>2, <1>8, ExitDisc DEF Exit
<1>9. ASSUME NEW quota \in CpuQuotas, NEW tier \in ForkTiers, Fork(quota, tier) PROVE QueueInv'
  BY <1>2, <1>9, ForkDisc DEF Fork
<1>10. CASE OutOfMemory
  <2>1. CRITICAL \in Tier
    BY DEF Tier, CRITICAL
  <2>2. SystemCall("no_memory") /\ k' = [k EXCEPT !.task[k.cur].tier = CRITICAL]
    BY <1>10 DEF OutOfMemory
  <2>3. Good(k', n)
    BY <1>1, <2>1, <2>2, CurrentTier
  <2> QED BY <1>2, <2>2, <2>3
<1>11. ASSUME NEW tier \in Tier PROVE Good(task_set_tier(k, k.cur, tier), n)
                                     /\ task_set_tier(k, k.cur, tier).cur = k.cur
  <2>1. PICK r : r = [k EXCEPT !.task[k.cur].tier = tier]
    BY ZenonT(60)
  <2>2. Good(r, n) /\ r.cur = k.cur
    BY <1>1, <2>1, CurrentTier
  <2>3. task_set_tier(k, k.cur, tier) = r
    BY <1>1, <2>1, SetTierCurrent
  <2> QED BY <2>2, <2>3
<1>12. ASSUME NEW tier \in {SYSTEM, USER}, Exec(tier) PROVE QueueInv'
  <2>1. tier \in Tier
    BY DEF Tier, SYSTEM, USER
  <2>2. Good(k', n)
    BY <1>1, <1>11, <1>12, <2>1 DEF Exec
  <2> QED BY <1>2, <1>12, <2>2 DEF Exec
<1>13. ASSUME NEW pid \in Slot \cup {AnyChild}, Wait(pid) PROVE QueueInv'
  BY <1>1, <1>2, <1>13, WaitLoopDisc DEF Wait
<1>14. CASE WaitResume
  <2>1. k.task[k.cur].wait \in Slot \cup {NULL, AnyChild}
    <3>1. k.task[k.cur] \in TaskRecord
      BY <1>1, CurrentTyped
    <3> QED BY <3>1 DEF TaskRecord
  <2>2. WaitLoop(k.task[k.cur].wait) /\ UNCHANGED idle
    BY <1>14 DEF WaitResume
  <2>3. Good(k', n)
    BY <1>1, <2>1, <2>2, WaitLoopDisc
  <2> QED BY <2>2, <2>3 DEF QueueInv, Spawning
<1>15. ASSUME NEW pid \in Slot \cup {AnyChild}, Kill(pid) PROVE QueueInv'
  <2> DEFINE child == task_find_child(k, k.cur, pid)
  <2>1. SystemCall("kill") /\ child # NULL /\ k' = [k EXCEPT !.task[child].kill_pending = TRUE]
    BY <1>15 DEF Kill
  <2>2. child \in Task
    BY <2>1, FindChildType, SlotFacts
  <2> HIDE DEF child
  <2>3. Good(k', n)
    BY <1>1, <2>1, <2>2, NeutralStep
  <2> QED BY <1>2, <2>1, <2>3
<1>16. ASSUME NEW tier \in Tiers, TierRequest(tier) PROVE QueueInv'
  <2>1. tier \in Tier
    BY KernelConstants
  <2> QED BY <1>2, <1>11, <1>16, <2>1 DEF TierRequest
<1>17. ASSUME NEW tier \in Tiers, SetTier(tier) PROVE QueueInv'
  <2> DEFINE s == task_set_tier(k, k.cur, tier)
  <2>1. tier \in Tier
    BY KernelConstants
  <2>2. Good(s, n) /\ s.cur = k.cur
    BY <1>11, <2>1
  <2>3. SystemCall("set_tier") /\ k' = [s EXCEPT !.task[k.cur].tier_override = tier]
    BY <1>17 DEF SetTier
  <2> HIDE DEF s
  <2>4. k' = [s EXCEPT !.task[s.cur].tier_override = tier]
    BY <2>2, <2>3
  <2>5. Good(k', n)
    BY <2>1, <2>2, <2>4, CurrentOverride
  <2> QED BY <1>2, <2>3, <2>5
<1>18. CASE Boot \/ IdleSchedule
  <2>1. k' = schedule(k) /\ idle.pc # "enqueue" /\ idle'.pc # "enqueue"
    BY <1>18 DEF Boot, IdleSchedule, IdleAt, IdleGoto
  <2> QED BY <1>1, <1>3, <1>4, <2>1, GoodSchedule
<1>19. CASE WatchdogCheck \/ SpawnFails \/ SpawnLoad
  <2>1. k' = k /\ idle.pc # "enqueue" /\ idle'.pc # "enqueue"
    BY <1>19 DEF WatchdogCheck, SpawnFails, SpawnLoad, IdleAt, IdleGoto
  <2> QED BY <1>1, <1>3, <1>4, <2>1
<1>20. CASE SpawnCreate
  BY <1>20, SpawnCreateDisc
<1>21. CASE SpawnEnqueue
  BY <1>21, SpawnEnqueueDisc
<1>22. CASE SpawnRecord \/ SpawnTest \/ SpawnStamp
  <2>1. /\ k' = k /\ idle.pc # "enqueue"
        /\ \/ idle'.pc = "schedule"
           \/ \E pc \in {"test", "load", "schedule"} : idle' = [idle EXCEPT !.pc = pc]
    BY <1>22 DEF SpawnRecord, SpawnTest, SpawnStamp, IdleAt, IdleGoto
  <2>2. idle'.pc # "enqueue"
    BY <1>1, <2>1 DEF IdleLoop
  <2> QED BY <1>1, <1>3, <1>4, <2>1, <2>2
<1>23. CASE SpawnMark
  <2>1. /\ k' = IF idle.new = NULL THEN k ELSE [k EXCEPT !.task[idle.new].wd_managed = TRUE]
        /\ idle.pc # "enqueue" /\ idle' = [idle EXCEPT !.pc = "stamp"]
    BY <1>23 DEF SpawnMark, IdleAt
  <2>2. idle'.pc # "enqueue" /\ (idle.new # NULL => idle.new \in Task)
    BY <1>1, <2>1, SlotFacts DEF IdleLoop
  <2>3. CASE idle.new = NULL
    BY <1>1, <1>3, <1>4, <2>1, <2>2, <2>3
  <2>4. CASE idle.new # NULL
    <3>1. Good(k', n)
      BY <1>1, <2>1, <2>2, <2>4, NeutralStep
    <3> QED BY <1>3, <1>4, <2>1, <2>2, <3>1
  <2> QED BY <2>3, <2>4
<1>24. CASE UNCHANGED vars
  BY <1>24 DEF vars, QueueInv, Spawning
<1> QED
  BY <1>5, <1>6, <1>7, <1>8, <1>9, <1>10, <1>12, <1>13, <1>14, <1>15, <1>16, <1>17, <1>18,
     <1>19, <1>20, <1>21, <1>22, <1>23, <1>24 DEF Next

\* The queue invariant implies the three properties of the runs.
LEMMA InvDiscipline ==
  ASSUME TypeOK, QueueInv
  PROVE  NoTaskLinkedTwice /\ QueuesHoldTheReady /\ CurrentIsRunnable
<1>1. Disc(k, {k.cur}, Spawning) /\ Runnable(k)
  BY DEF QueueInv, Good
<1>2. NoTaskLinkedTwice
  BY <1>1 DEF Disc, Linear, NoTaskLinkedTwice
<1>3. \A q, t : Queued(t, q) <=> On(k, q, t)
  BY DEF Queued, On
<1>4. \A t \in Slot : ~BeingSpawned(t) => t # Spawning
  BY SlotFacts DEF BeingSpawned, Spawning
<1>5. QueuesHoldTheReady
  BY ZenonT(60), <1>1, <1>3, <1>4 DEF QueuesHoldTheReady, Disc
<1>6. CurrentIsRunnable
  BY <1>1 DEF CurrentIsRunnable, Disc, Runnable
<1> QED BY <1>2, <1>5, <1>6

(***************************************************************************)
(* The ready queues of task.c are right when no task has a CPU quota, for  *)
(* every number of slots and every tick period: no task is linked twice,   *)
(* the lists hold exactly the READY tasks, each on the list of its tier    *)
(* and level, and the CPU runs a live task.  With quotas the first of      *)
(* these is false of the code (run linked_twice).                          *)
(***************************************************************************)
THEOREM QueueDiscipline ==
  ASSUME CpuQuotas \subseteq {0}
  PROVE  Spec => [](NoTaskLinkedTwice /\ QueuesHoldTheReady /\ CurrentIsRunnable)
<1> DEFINE IInv == TypeOK /\ NewSlotKnown /\ QueueInv
<1>0. Init => NewSlotKnown
  BY DEF Init, NewSlotKnown
<1>1. Init => IInv
  BY <1>0, InitType, InitDisc
<1>2. IInv /\ [Next]_vars => IInv'
  BY NextType, NextNewSlot, NextDisc
<1>3. IInv => NoTaskLinkedTwice /\ QueuesHoldTheReady /\ CurrentIsRunnable
  BY InvDiscipline
<1> HIDE DEF IInv
<1> QED BY <1>1, <1>2, <1>3, PTL DEF Spec

=============================================================================
