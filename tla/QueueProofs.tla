----------------------------- MODULE QueueProofs ----------------------------
(*****************************************************************************)
(* The ready lists of task.c as sequences: what enqueue_task,                *)
(* dequeue_task and the picking operators do to them, and the queue          *)
(* discipline that the handlers keep.                                        *)
(*****************************************************************************)
EXTENDS Sched, TLAPS, WellFoundedInduction, NaturalsInduction

\* Each leaf goes to the SMT solver unless it names another prover.
USE SMTT(60)

\* A non-empty set of naturals has a least element, and Min returns it.
LEMMA MinNat ==
  ASSUME NEW S \in SUBSET Nat, S # {}
  PROVE  Min(S) \in S /\ \A y \in S : Min(S) <= y
<1>1. PICK x \in S : \A y \in S : ~(<<y, x>> \in OpToRel(<, Nat))
  BY ZenonT(60), NatLessThanWellFounded, WFMin, Zenon
<1>2. \A y \in S : ~(y < x)
  BY ZenonT(60), <1>1, Zenon DEF OpToRel
<1>3. \A y \in S : x <= y
  BY <1>2
<1> QED
  BY ZenonT(60), <1>3, Zenon DEF Min

\* Induction, over a set: Nat is in every set that holds 0 and is closed under + 1.
LEMMA NatSetInduction ==
  ASSUME NEW T, 0 \in T, \A n \in Nat : n \in T => n + 1 \in T
  PROVE  Nat \subseteq T
<1> DEFINE Bad == Nat \ T
<1> SUFFICES ASSUME Bad # {} PROVE FALSE
  OBVIOUS
<1>1. Min(Bad) \in Bad /\ \A y \in Bad : Min(Bad) <= y
  BY MinNat
<1>2. Min(Bad) - 1 \in Nat \ Bad
  BY <1>1
<1> QED
  BY <1>1, <1>2

\* A recursive function on 0 .. N whose step stays in S exists.
LEMMA FoldExists ==
  ASSUME NEW S, NEW a \in S, NEW N \in Nat, NEW G \in [1 .. N -> [S -> S]]
  PROVE  \E h \in [0 .. N -> S] : h = [i \in 0 .. N |-> IF i = 0 THEN a ELSE G[i][h[i - 1]]]
<1> DEFINE Upto(m, h) == h[0] = a /\ \A i \in 1 .. m : h[i] = G[i][h[i - 1]]
           T == {m \in Nat : m <= N => \E h \in [0 .. m -> S] : Upto(m, h)}
<1>1. 0 \in T
  <2>1. [i \in 0 .. 0 |-> a] \in [0 .. 0 -> S] /\ Upto(0, [i \in 0 .. 0 |-> a])
    OBVIOUS
  <2> QED BY ZenonT(60), <2>1
<1>2. ASSUME NEW m \in Nat, m \in T PROVE m + 1 \in T
  <2> SUFFICES ASSUME m + 1 <= N PROVE \E h \in [0 .. m + 1 -> S] : Upto(m + 1, h)
    OBVIOUS
  <2>1. PICK h \in [0 .. m -> S] : Upto(m, h)
    BY <1>2
  <2> DEFINE h1 == [i \in 0 .. m + 1 |-> IF i <= m THEN h[i] ELSE G[m + 1][h[m]]]
  <2>2. h1 \in [0 .. m + 1 -> S]
    OBVIOUS
  <2>3. Upto(m + 1, h1)
    BY <2>1
  <2> QED BY ZenonT(60), <2>2, <2>3
<1>3. N \in T
  <2> HIDE DEF T
  <2> QED BY <1>1, <1>2, NatSetInduction
<1>4. PICK h \in [0 .. N -> S] : Upto(N, h)
  BY <1>3
<1>5. h = [i \in 0 .. N |-> IF i = 0 THEN a ELSE G[i][h[i - 1]]]
  BY <1>4
<1> QED BY <1>5

-----------------------------------------------------------------------------
\* Task t is on the list of queue q.
On(s, q, t) == \E i \in 1 .. Len(s.rq[q]) : s.rq[q][i] = t

\* No task is linked twice.
Linear(s) ==
    \A p, q \in Queue : \A i \in 1 .. Len(s.rq[p]), j \in 1 .. Len(s.rq[q]) :
        s.rq[p][i] = s.rq[q][j] => p = q /\ i = j

\* task_qidx always names one of the five ready queues.
LEMMA QidxType ==
  ASSUME NEW s \in KernelState, NEW t \in Task
  PROVE  task_qidx(s, t) \in Queue
<1>1. s.task[t] \in TaskRecord
  BY DEF KernelState
<1>2. s.task[t].tier \in Tier /\ s.task[t].mlfq_level \in 0 .. 2
  BY <1>1 DEF TaskRecord, MlfqLevel
<1> QED
  BY <1>2 DEF task_qidx, QueueOf, tier_to_queue_idx, Queue, Tier, KERNEL, SYSTEM, USER, CRITICAL

\* What enqueue_task changes: cur_queue of t and the tail of one list.
LEMMA EnqueueFields ==
  ASSUME NEW s \in KernelState, NEW t \in Slot
  PROVE  LET r == enqueue_task(s, t)
             q == task_qidx(s, t)
         IN  /\ q \in Queue
             /\ r \in KernelState
             /\ r.cur = s.cur /\ r.slice = s.slice
             /\ r.task = [s.task EXCEPT ![t].cur_queue = q]
             /\ r.rq = [s.rq EXCEPT ![q] = Append(@, t)]
<1> DEFINE q == task_qidx(s, t)
<1>1. q \in Queue
  BY QidxType DEF Task
<1> HIDE DEF q
<1>2. s.task \in [Task -> TaskRecord] /\ s.rq \in [Queue -> Seq(Slot)] /\ t \in Task
  BY DEF KernelState, Task
<1>3. [s.task EXCEPT ![t].cur_queue = q] \in [Task -> TaskRecord]
  <2>1. s.task[t] \in TaskRecord
    BY <1>2
  <2>2. [s.task[t] EXCEPT !.cur_queue = q] \in TaskRecord
    BY <2>1, <1>1 DEF TaskRecord
  <2> QED BY <1>2, <2>2
<1>4. [s.rq EXCEPT ![q] = Append(@, t)] \in [Queue -> Seq(Slot)]
  BY <1>1, <1>2
<1>5. enqueue_task(s, t) = [s EXCEPT !.task = [s.task EXCEPT ![t].cur_queue = q],
                                     !.rq = [s.rq EXCEPT ![q] = Append(@, t)]]
  BY DEF enqueue_task, q, KernelState
<1> QED
  BY ZenonT(60), <1>1, <1>3, <1>4, <1>5 DEF KernelState, q

\* enqueue_task puts t on the list of its tier and level and moves nothing else;
\* the lists stay linear if t was on none.
LEMMA EnqueueOn ==
  ASSUME NEW s \in KernelState, NEW t \in Slot
  PROVE  LET r == enqueue_task(s, t)
         IN  /\ \A p \in Queue, u \in Slot :
                  On(r, p, u) <=> On(s, p, u) \/ (p = task_qidx(s, t) /\ u = t)
             /\ Linear(s) /\ (\A p \in Queue : ~On(s, p, t)) => Linear(r)
<1> DEFINE r == enqueue_task(s, t)
           q == task_qidx(s, t)
<1>1. q \in Queue /\ r.rq = [s.rq EXCEPT ![q] = Append(@, t)] /\ s.rq \in [Queue -> Seq(Slot)]
  BY ZenonT(60), EnqueueFields DEF KernelState
<1> HIDE DEF r, q
<1>2. /\ Len(r.rq[q]) = Len(s.rq[q]) + 1
      /\ r.rq[q][Len(s.rq[q]) + 1] = t
      /\ \A i \in 1 .. Len(s.rq[q]) : r.rq[q][i] = s.rq[q][i]
      /\ \A p \in Queue \ {q} : r.rq[p] = s.rq[p]
      /\ Len(s.rq[q]) \in Nat
  BY <1>1
<1>3. ASSUME NEW p \in Queue, NEW u \in Slot
      PROVE  On(r, p, u) <=> On(s, p, u) \/ (p = q /\ u = t)
  BY <1>1, <1>2 DEF On
<1>4. ASSUME Linear(s), \A p \in Queue : ~On(s, p, t) PROVE Linear(r)
  <2> SUFFICES ASSUME NEW p \in Queue, NEW u \in Queue,
                      NEW i \in 1 .. Len(r.rq[p]), NEW j \in 1 .. Len(r.rq[u]),
                      r.rq[p][i] = r.rq[u][j]
               PROVE  p = u /\ i = j
    BY DEF Linear
  <2> DEFINE New(v, n) == v = q /\ n = Len(s.rq[q]) + 1
  <2>1. ASSUME NEW v \in Queue, NEW n \in 1 .. Len(r.rq[v]), ~New(v, n)
        PROVE  n \in 1 .. Len(s.rq[v]) /\ r.rq[v][n] = s.rq[v][n] /\ s.rq[v][n] # t
    BY <1>1, <1>2, <1>4, <2>1 DEF On
  <2>2. CASE ~New(p, i) /\ ~New(u, j)
    <3>1. i \in 1 .. Len(s.rq[p]) /\ j \in 1 .. Len(s.rq[u]) /\ s.rq[p][i] = s.rq[u][j]
      BY <2>1, <2>2
    <3> QED BY <3>1, <1>4 DEF Linear
  <2>3. CASE New(p, i) /\ New(u, j)
    BY <2>3
  <2>4. r.rq[q][Len(s.rq[q]) + 1] = t
    BY <1>2
  <2>5. CASE New(p, i) /\ ~New(u, j)
    <3>1. r.rq[u][j] # t
      BY <2>1, <2>5
    <3> QED BY <3>1, <2>4, <2>5
  <2>6. CASE ~New(p, i) /\ New(u, j)
    <3>1. r.rq[p][i] # t
      BY <2>1, <2>6
    <3> QED BY <3>1, <2>4, <2>6
  <2> QED BY <2>2, <2>3, <2>5, <2>6
<1> QED
  BY <1>3, <1>4 DEF r, q

\* Taking one position out of a list.
LEMMA RemoveIndexSeq ==
  ASSUME NEW S, NEW w \in Seq(S), NEW n \in 1 .. Len(w)
  PROVE  LET r == RemoveIndex(w, n)
         IN  /\ r \in Seq(S)
             /\ Len(r) = Len(w) - 1
             /\ \A i \in 1 .. Len(r) : r[i] = IF i < n THEN w[i] ELSE w[i + 1]
BY DEF RemoveIndex

\* dequeue_task changes nothing but the lists.
LEMMA DequeueFields ==
  ASSUME NEW s \in KernelState, NEW t \in Task
  PROVE  LET r == dequeue_task(s, t)
         IN  /\ r \in KernelState
             /\ r.cur = s.cur /\ r.slice = s.slice /\ r.task = s.task
<1> DEFINE q == s.task[t].cur_queue
<1>1. CASE q \in Queue /\ PositionsOf(t, s.rq[q]) # {}
  <2>1. s.rq \in [Queue -> Seq(Slot)] /\ s.rq[q] \in Seq(Slot)
    BY <1>1 DEF KernelState
  <2>2. PositionsOf(t, s.rq[q]) \in SUBSET Nat
    BY <2>1 DEF PositionsOf
  <2> DEFINE m == Min(PositionsOf(t, s.rq[q]))
  <2>3. m \in PositionsOf(t, s.rq[q])
    BY <1>1, <2>2, MinNat
  <2>4. m \in 1 .. Len(s.rq[q])
    BY ZenonT(60), <2>3, Zenon DEF PositionsOf
  <2> HIDE DEF m
  <2>5. RemoveIndex(s.rq[q], m) \in Seq(Slot)
    BY <2>1, <2>4, RemoveIndexSeq
  <2>6. dequeue_task(s, t) = [s EXCEPT !.rq = [s.rq EXCEPT ![q] = RemoveIndex(@, m)]]
    BY <1>1 DEF dequeue_task, KernelState, m
  <2>7. [s.rq EXCEPT ![q] = RemoveIndex(@, m)] \in [Queue -> Seq(Slot)]
    BY ZenonT(60), <2>1, <2>5
  <2> QED BY ZenonT(60), <2>6, <2>7 DEF KernelState
<1>2. CASE ~(q \in Queue /\ PositionsOf(t, s.rq[q]) # {})
  BY <1>2 DEF dequeue_task
<1> QED BY <1>1, <1>2

\* dequeue_task unlinks t from every list, provided cur_queue tells where it is.
LEMMA DequeueOn ==
  ASSUME NEW s \in KernelState, NEW t \in Slot, Linear(s),
         \A p \in Queue : On(s, p, t) => s.task[t].cur_queue = p
  PROVE  LET r == dequeue_task(s, t)
         IN  /\ \A p \in Queue, u \in Slot : On(r, p, u) <=> On(s, p, u) /\ u # t
             /\ Linear(r)
<1> DEFINE r == dequeue_task(s, t)
           q == s.task[t].cur_queue
<1>0. s.rq \in [Queue -> Seq(Slot)]
  BY DEF KernelState
<1>1. CASE q \in Queue /\ PositionsOf(t, s.rq[q]) # {}
  <2>1. s.rq[q] \in Seq(Slot)
    BY <1>0, <1>1
  <2>2. PositionsOf(t, s.rq[q]) \in SUBSET Nat
    BY <2>1 DEF PositionsOf
  <2> DEFINE m == Min(PositionsOf(t, s.rq[q]))
  <2>3. m \in PositionsOf(t, s.rq[q])
    BY <1>1, <2>2, MinNat
  <2>4. m \in 1 .. Len(s.rq[q]) /\ s.rq[q][m] = t
    BY ZenonT(60), <2>3, Zenon DEF PositionsOf
  <2> HIDE DEF m
  <2>5. r.rq = [s.rq EXCEPT ![q] = RemoveIndex(@, m)]
    BY <1>1 DEF dequeue_task, KernelState, m
  <2> HIDE DEF r
  <2>6. /\ Len(r.rq[q]) = Len(s.rq[q]) - 1
        /\ \A i \in 1 .. Len(r.rq[q]) : r.rq[q][i] = IF i < m THEN s.rq[q][i] ELSE s.rq[q][i + 1]
        /\ \A p \in Queue \ {q} : r.rq[p] = s.rq[p]
        /\ Len(s.rq[q]) \in Nat
    <3>1. r.rq[q] = RemoveIndex(s.rq[q], m) /\ \A p \in Queue \ {q} : r.rq[p] = s.rq[p]
      BY <1>0, <1>1, <2>5
    <3>2. Len(s.rq[q]) \in Nat
      BY <2>1
    <3> DEFINE w == s.rq[q]
               v == RemoveIndex(w, m)
    <3>3. Len(v) = Len(w) - 1 /\ \A i \in 1 .. Len(v) : v[i] = IF i < m THEN w[i] ELSE w[i + 1]
      <4> HIDE DEF w
      <4> QED BY ZenonT(60), <2>1, <2>4, RemoveIndexSeq DEF w
    <3> QED BY ZenonT(60), <3>1, <3>2, <3>3
  <2> HIDE DEF q
  <2> DEFINE Old(p, i) == IF p = q /\ i >= m THEN i + 1 ELSE i
  <2>7. ASSUME NEW p \in Queue, NEW i \in 1 .. Len(r.rq[p])
        PROVE  /\ Old(p, i) \in 1 .. Len(s.rq[p])
               /\ r.rq[p][i] = s.rq[p][Old(p, i)]
               /\ ~(p = q /\ Old(p, i) = m)
    BY <1>0, <2>4, <2>6
  <2>8. ASSUME NEW p \in Queue, NEW u \in Slot, On(r, p, u) PROVE On(s, p, u) /\ u # t
    <3>1. PICK i \in 1 .. Len(r.rq[p]) : r.rq[p][i] = u
      BY <2>8 DEF On
    <3>2. Old(p, i) \in 1 .. Len(s.rq[p]) /\ u = s.rq[p][Old(p, i)] /\ ~(p = q /\ Old(p, i) = m)
      BY <2>7, <3>1
    <3> HIDE DEF Old
    <3>3. On(s, p, u)
      BY <3>2 DEF On
    <3>4. u # t
      BY <3>2, <2>4, <1>1 DEF Linear
    <3> QED BY <3>3, <3>4
  <2>9. ASSUME NEW p \in Queue, NEW u \in Slot, On(s, p, u), u # t PROVE On(r, p, u)
    <3>1. PICK i \in 1 .. Len(s.rq[p]) : s.rq[p][i] = u
      BY <2>9 DEF On
    <3>2. CASE p # q
      BY <3>1, <3>2, <2>6 DEF On
    <3>3. CASE p = q /\ i < m
      <4>1. i \in 1 .. Len(r.rq[q])
        BY <3>1, <3>3, <2>6, <2>4
      <4>2. r.rq[q][i] = s.rq[q][i]
        BY <4>1, <3>3, <2>6
      <4> QED BY <4>1, <4>2, <3>1, <3>3 DEF On
    <3>4. CASE p = q /\ i > m
      <4>1. i - 1 \in 1 .. Len(r.rq[p]) /\ r.rq[p][i - 1] = u
        BY <3>1, <3>4, <2>6, <2>4
      <4> QED BY <4>1 DEF On
    <3>5. ~(p = q /\ i = m)
      BY <3>1, <2>4, <2>9
    <3> QED BY <3>2, <3>3, <3>4, <3>5, <2>4
  <2>10. Linear(r)
    <3> SUFFICES ASSUME NEW p \in Queue, NEW u \in Queue,
                        NEW i \in 1 .. Len(r.rq[p]), NEW j \in 1 .. Len(r.rq[u]),
                        r.rq[p][i] = r.rq[u][j]
                 PROVE  p = u /\ i = j
      BY DEF Linear
    <3>1. Old(p, i) \in 1 .. Len(s.rq[p]) /\ Old(u, j) \in 1 .. Len(s.rq[u])
          /\ s.rq[p][Old(p, i)] = s.rq[u][Old(u, j)]
      BY <2>7
    <3>2. p = u /\ Old(p, i) = Old(u, j)
      <4> HIDE DEF Old
      <4> QED BY <3>1 DEF Linear
    <3> QED BY <3>2, <2>4
  <2> QED BY <2>8, <2>9, <2>10 DEF r
<1>2. CASE ~(q \in Queue /\ PositionsOf(t, s.rq[q]) # {})
  <2>1. r = s
    BY <1>2 DEF dequeue_task
  <2>2. \A p \in Queue : ~On(s, p, t)
    BY <1>2 DEF On, PositionsOf
  <2> QED BY <2>1, <2>2
<1> QED BY <1>1, <1>2

\* Rotation by n moves two different positions to two different positions.
LEMMA RotateInjective ==
  ASSUME NEW m \in Nat, NEW n \in 1 .. m, NEW a \in 1 .. m, NEW b \in 1 .. m,
         (IF a + n <= m THEN a + n ELSE a + n - m) = (IF b + n <= m THEN b + n ELSE b + n - m)
  PROVE  a = b
OBVIOUS

\* The result of rotating a list n times from head to tail.
LEMMA RotateSeq ==
  ASSUME NEW S, NEW w \in Seq(S), NEW n \in 1 .. Len(w)
  PROVE  LET r == Rotate(w, n)
         IN  /\ r \in Seq(S)
             /\ Len(r) = Len(w)
             /\ \A i \in 1 .. Len(r) : r[i] = IF i + n <= Len(w) THEN w[i + n] ELSE w[i + n - Len(w)]
<1>1. Len(w) \in Nat /\ \A i \in 1 .. Len(w) : w[i] \in S
  OBVIOUS
<1>2. \A i \in 1 .. Len(w) : (IF i + n <= Len(w) THEN w[i + n] ELSE w[i + n - Len(w)]) \in S
  BY <1>1
<1> QED BY <1>1, <1>2 DEF Rotate

\* The queue picked from, and the position in it.
LEMMA PickFound ==
  ASSUME NEW s \in KernelState, NEW min_q \in Nat, EligibleQueues(s, min_q) # {}
  PROVE  LET q == Min(EligibleQueues(s, min_q))
             n == Min(Eligible(s, q))
         IN  /\ q \in Queue /\ q >= min_q
             /\ \A p \in EligibleQueues(s, min_q) : q <= p
             /\ s.rq[q] \in Seq(Slot)
             /\ n \in 1 .. Len(s.rq[q])
             /\ \A i \in Eligible(s, q) : n <= i
             /\ Picked(s, min_q) = s.rq[q][n]
             /\ s.rq[q][n] \in Slot
             /\ ~s.task[s.rq[q][n]].quota_done
<1> DEFINE E == EligibleQueues(s, min_q)
           q == Min(E)
           n == Min(Eligible(s, q))
<1>1. E \in SUBSET Nat
  BY DEF EligibleQueues, Queue
<1>2. q \in E /\ \A p \in E : q <= p
  BY <1>1, MinNat
<1>3. q \in Queue /\ q >= min_q /\ Eligible(s, q) # {}
  <2> HIDE DEF q
  <2> QED BY <1>2 DEF EligibleQueues
<1> HIDE DEF q
<1>4. s.rq[q] \in Seq(Slot)
  BY <1>3 DEF KernelState
<1>5. Eligible(s, q) \in SUBSET Nat
  BY <1>4 DEF Eligible
<1>6. n \in Eligible(s, q) /\ \A i \in Eligible(s, q) : n <= i
  BY <1>3, <1>5, MinNat
<1>7. n \in 1 .. Len(s.rq[q]) /\ ~s.task[s.rq[q][n]].quota_done
  BY ZenonT(60), <1>6, Zenon DEF Eligible
<1> HIDE DEF n
<1>8. s.rq[q][n] \in Slot
  BY <1>4, <1>7
<1>9. Picked(s, min_q) = s.rq[q][n]
  BY DEF Picked, q, n
<1> QED BY <1>2, <1>3, <1>4, <1>6, <1>7, <1>8, <1>9 DEF q, n

\* pick_next_task and pick_next_lower change nothing but the lists, and not even
\* them when there is nothing to pick.
LEMMA PickFields ==
  ASSUME NEW s \in KernelState, NEW min_q \in Nat
  PROVE  LET r == AfterPick(s, min_q)
         IN  /\ r \in KernelState
             /\ r.cur = s.cur /\ r.slice = s.slice /\ r.task = s.task
             /\ Picked(s, min_q) \in Slot \cup {NULL}
             /\ (Picked(s, min_q) = NULL) => r = s
<1>1. CASE EligibleQueues(s, min_q) = {}
  BY <1>1 DEF AfterPick, Picked
<1>2. CASE EligibleQueues(s, min_q) # {}
  <2> DEFINE q == Min(EligibleQueues(s, min_q))
             n == Min(Eligible(s, q))
             w == IF Len(s.rq[q]) = 1 THEN << >> ELSE Rotate(s.rq[q], n)
  <2>1. q \in Queue /\ s.rq[q] \in Seq(Slot) /\ n \in 1 .. Len(s.rq[q]) /\ Picked(s, min_q) \in Slot
    BY <1>2, PickFound
  <2>2. AfterPick(s, min_q) = [s EXCEPT !.rq = [s.rq EXCEPT ![q] = w]]
    BY <1>2 DEF AfterPick, KernelState
  <2> HIDE DEF q, n
  <2>3. w \in Seq(Slot)
    BY <2>1, RotateSeq
  <2>4. [s.rq EXCEPT ![q] = w] \in [Queue -> Seq(Slot)]
    BY <2>1, <2>3 DEF KernelState
  <2>5. Picked(s, min_q) # NULL
    BY <2>1, SchedConstants DEF Slot, NULL
  <2> HIDE DEF w
  <2> QED BY ZenonT(60), <2>1, <2>2, <2>4, <2>5 DEF KernelState
<1> QED BY <1>1, <1>2

\* Picking loses no task but the one picked, and links none twice.
LEMMA PickOn ==
  ASSUME NEW s \in KernelState, NEW min_q \in Nat, Picked(s, min_q) # NULL
  PROVE  LET r == AfterPick(s, min_q)
             t == Picked(s, min_q)
         IN  /\ \E q \in Queue : q >= min_q /\ On(s, q, t)
             /\ \A p \in Queue, u \in Slot : On(r, p, u) => On(s, p, u)
             /\ \A p \in Queue, u \in Slot : On(s, p, u) /\ u # t => On(r, p, u)
             /\ Linear(s) => Linear(r)
<1>1. EligibleQueues(s, min_q) # {}
  BY DEF Picked
<1> DEFINE r == AfterPick(s, min_q)
           q == Min(EligibleQueues(s, min_q))
           n == Min(Eligible(s, q))
           L == Len(s.rq[q])
<1>2. /\ q \in Queue /\ q >= min_q /\ s.rq[q] \in Seq(Slot) /\ n \in 1 .. L
      /\ Picked(s, min_q) = s.rq[q][n]
  BY <1>1, PickFound
<1>3. r.rq = [s.rq EXCEPT ![q] = IF L = 1 THEN << >> ELSE Rotate(@, n)]
  BY <1>1 DEF AfterPick, KernelState
<1> HIDE DEF q, n, r
<1>4. s.rq \in [Queue -> Seq(Slot)] /\ L \in Nat
  BY <1>2 DEF KernelState
<1>5. \A p \in Queue \ {q} : r.rq[p] = s.rq[p]
  BY <1>3, <1>4
<1>6. \E v \in Queue : v >= min_q /\ On(s, v, Picked(s, min_q))
  BY <1>2 DEF On
<1>7. CASE L = 1
  <2>1. r.rq[q] = << >>
    BY <1>2, <1>3, <1>4, <1>7
  <2>2. \A i \in 1 .. L : i = n
    BY <1>7, <1>2
  <2>3. Len(r.rq[q]) = 0
    BY <2>1
  <2>4. ASSUME NEW p \in Queue, NEW i \in 1 .. Len(r.rq[p])
        PROVE  p # q /\ i \in 1 .. Len(s.rq[p]) /\ r.rq[p][i] = s.rq[p][i]
    BY <1>5, <2>3
  <2>5. \A p \in Queue, u \in Slot : On(r, p, u) => On(s, p, u)
    BY <2>4 DEF On
  <2>6. ASSUME NEW p \in Queue, NEW u \in Slot, On(s, p, u), u # Picked(s, min_q)
        PROVE  On(r, p, u)
    <3>1. p # q
      BY <2>2, <2>6, <1>2 DEF On
    <3> QED BY <3>1, <2>6, <1>5 DEF On
  <2>7. Linear(s) => Linear(r)
    BY <2>4 DEF Linear
  <2> QED BY <1>6, <2>5, <2>6, <2>7 DEF r
<1>8. CASE L # 1
  <2> DEFINE w == s.rq[q]
  <2>1. r.rq[q] = Rotate(w, n)
    BY <1>2, <1>3, <1>4, <1>8
  <2>2. Len(r.rq[q]) = L /\ \A i \in 1 .. L : r.rq[q][i] = IF i + n <= L THEN w[i + n] ELSE w[i + n - L]
    <3>1. w \in Seq(Slot) /\ n \in 1 .. Len(w)
      BY <1>2
    <3> HIDE DEF w
    <3>2. /\ Len(Rotate(w, n)) = Len(w)
          /\ \A i \in 1 .. Len(Rotate(w, n)) :
               Rotate(w, n)[i] = IF i + n <= Len(w) THEN w[i + n] ELSE w[i + n - Len(w)]
      BY <3>1, RotateSeq
    <3> QED BY <2>1, <3>2 DEF w
  <2> DEFINE Old(p, i) == IF p # q THEN i ELSE IF i + n <= L THEN i + n ELSE i + n - L
  <2>3. ASSUME NEW p \in Queue, NEW i \in 1 .. Len(r.rq[p])
        PROVE  Old(p, i) \in 1 .. Len(s.rq[p]) /\ r.rq[p][i] = s.rq[p][Old(p, i)]
    <3>1. CASE p # q
      BY <3>1, <1>5
    <3>2. CASE p = q
      <4>1. i \in 1 .. L
        BY <3>2, <2>2
      <4>2. Old(q, i) \in 1 .. L
        <5>1. n \in 1 .. L /\ L \in Nat
          BY <1>2, <1>4
        <5> HIDE DEF L
        <5> QED BY <4>1, <5>1
      <4>3. r.rq[q][i] = w[Old(q, i)]
        BY <4>1, <2>2
      <4> QED BY <3>2, <4>2, <4>3
    <3> QED BY <3>1, <3>2
  <2>4. ASSUME NEW p \in Queue, NEW u \in Slot, On(r, p, u) PROVE On(s, p, u)
    <3>1. PICK i \in 1 .. Len(r.rq[p]) : r.rq[p][i] = u
      BY <2>4 DEF On
    <3>2. Old(p, i) \in 1 .. Len(s.rq[p]) /\ u = s.rq[p][Old(p, i)]
      BY <2>3, <3>1
    <3> HIDE DEF Old
    <3> QED BY <3>2 DEF On
  <2>5. ASSUME NEW p \in Queue, NEW u \in Slot, On(s, p, u) PROVE On(r, p, u)
    <3>1. CASE p # q
      BY <2>5, <3>1, <1>5 DEF On
    <3>2. CASE p = q
      <4>1. PICK j \in 1 .. L : w[j] = u
        BY <2>5, <3>2 DEF On
      <4> DEFINE i == IF j > n THEN j - n ELSE j - n + L
      <4>2. i \in 1 .. L /\ (i + n <= L => i + n = j) /\ (~(i + n <= L) => i + n - L = j)
        BY <1>2, <1>4
      <4> HIDE DEF i
      <4>3. r.rq[q][i] = w[j]
        BY <4>2, <2>2
      <4> QED BY <4>1, <4>2, <4>3, <2>2, <3>2 DEF On
    <3> QED BY <3>1, <3>2
  <2>6. ASSUME Linear(s) PROVE Linear(r)
    <3> SUFFICES ASSUME NEW p \in Queue, NEW u \in Queue,
                        NEW i \in 1 .. Len(r.rq[p]), NEW j \in 1 .. Len(r.rq[u]),
                        r.rq[p][i] = r.rq[u][j]
                 PROVE  p = u /\ i = j
      BY DEF Linear
    <3>1. Old(p, i) \in 1 .. Len(s.rq[p]) /\ Old(u, j) \in 1 .. Len(s.rq[u])
          /\ s.rq[p][Old(p, i)] = s.rq[u][Old(u, j)]
      BY <2>3
    <3>2. p = u /\ Old(p, i) = Old(u, j)
      <4> HIDE DEF Old
      <4> QED BY <3>1, <2>6 DEF Linear
    <3>3. p = q => i \in 1 .. L /\ j \in 1 .. L
      BY <3>2, <2>2
    <3>4. \A a, b \in 1 .. L : Old(q, a) = Old(q, b) => a = b
      <4>1. n \in 1 .. L /\ L \in Nat
        BY <1>2, <1>4
      <4> HIDE DEF L
      <4> QED BY <4>1, RotateInjective
    <3>5. CASE p = q
      BY <3>2, <3>3, <3>4, <3>5
    <3>6. CASE p # q
      BY <3>2, <3>6
    <3> QED BY <3>5, <3>6
  <2> QED BY <1>6, <2>4, <2>5, <2>6 DEF r
<1> QED BY <1>7, <1>8

\* No task has a CPU quota.
NoQuota(s) == \A t \in Task : s.task[t].cpu_quota = 0 /\ ~s.task[t].quota_done

\* Without quotas the head of the first list is picked: a task that is picked
\* from the tail of its list was alone on it and leaves it.
LEMMA PickedFromTail ==
  ASSUME NEW s \in KernelState, NoQuota(s), Linear(s), NEW t \in Slot, NEW q \in Queue,
         Len(s.rq[q]) > 0, s.rq[q][Len(s.rq[q])] = t, Picked(s, 0) = t
  PROVE  \A p \in Queue : ~On(AfterPick(s, 0), p, t)
<1> DEFINE r == AfterPick(s, 0)
           v == Min(EligibleQueues(s, 0))
           n == Min(Eligible(s, v))
<1>0. t # NULL
  BY SchedConstants DEF Slot, NULL
<1>1. EligibleQueues(s, 0) # {}
  BY <1>0 DEF Picked
<1>2. /\ v \in Queue /\ s.rq[v] \in Seq(Slot) /\ n \in 1 .. Len(s.rq[v])
      /\ s.rq[v][n] = t /\ \A i \in Eligible(s, v) : n <= i
  BY <1>1, PickFound
<1>3. r.rq = [s.rq EXCEPT ![v] = IF Len(@) = 1 THEN << >> ELSE Rotate(@, n)]
  BY <1>1 DEF AfterPick, KernelState
<1> HIDE DEF v, n, r
<1>4. s.rq \in [Queue -> Seq(Slot)] /\ Len(s.rq[v]) \in Nat /\ Len(s.rq[q]) \in Nat
  BY <1>2 DEF KernelState
<1>5. v = q /\ n = Len(s.rq[v])
  BY <1>2, <1>4 DEF Linear
<1>6. 1 \in Eligible(s, v)
  <2>1. 1 \in 1 .. Len(s.rq[v]) /\ s.rq[v][1] \in Slot
    BY <1>2, <1>4
  <2> QED BY <2>1 DEF Eligible, NoQuota, Task
<1>7. Len(s.rq[v]) = 1
  <2>1. n <= 1
    BY <1>2, <1>6
  <2>2. n \in 1 .. Len(s.rq[v]) /\ n = Len(s.rq[v]) /\ Len(s.rq[v]) \in Nat
    BY <1>2, <1>4, <1>5
  <2>3. \A x \in Nat : \A y \in 1 .. x : y = x /\ y <= 1 => x = 1
    OBVIOUS
  <2> QED BY ZenonT(60), <2>1, <2>2, <2>3, Zenon
<1>8. r.rq[v] = << >> /\ \A p \in Queue \ {v} : r.rq[p] = s.rq[p]
  BY <1>2, <1>3, <1>4, <1>7
<1>9. ASSUME NEW p \in Queue, p # v PROVE ~On(s, p, t)
  BY <1>9, <1>2 DEF On, Linear
<1>10. ~On(r, v, t)
  BY <1>8 DEF On
<1> QED BY <1>8, <1>9, <1>10 DEF On, r

-----------------------------------------------------------------------------
(***************************************************************************)
(* The queue discipline with exceptions.  C is the set of tasks that are   *)
(* outside it at this point of a handler (in between handlers, the running *)
(* task), n a slot that is READY but not queued yet (or NULL).             *)
(***************************************************************************)
Disc(s, C, n) ==
    /\ s \in KernelState
    /\ Linear(s)
    /\ NoQuota(s)
    /\ \A q \in Queue, t \in Slot :
         On(s, q, t) => s.task[t].in_use /\ s.task[t].cur_queue = q /\ t # n
    /\ \A q \in Queue, t \in Slot :
         On(s, q, t) /\ t \notin C => s.task[t].state = "READY" /\ task_qidx(s, t) = q
    /\ \A t \in Slot :
         s.task[t].in_use /\ s.task[t].state = "READY" /\ t \notin C /\ t # n
            => On(s, task_qidx(s, t), t)
    /\ \A t \in Slot : s.task[t].in_use /\ s.task[t].state = "RUNNING" => t \in C
    /\ \A t \in Slot : ~s.task[t].in_use => s.task[t].state = "RUNNING"
    /\ n \in Slot => /\ s.task[n].in_use /\ s.task[n].state = "READY"
                     /\ s.task[n].mlfq_level = 0 /\ n \notin C

\* Task t is on no list.
Unlinked(s, t) == \A q \in Queue : ~On(s, q, t)

\* Overwriting one task struct.
LEMMA SetTask ==
  ASSUME NEW s \in KernelState, NEW t \in Task, NEW r \in TaskRecord
  PROVE  LET s1 == [s EXCEPT !.task[t] = r]
         IN  /\ s1 \in KernelState
             /\ s1.task = [s.task EXCEPT ![t] = r]
             /\ s1.task[t] = r
             /\ \A u \in Task : u # t => s1.task[u] = s.task[u]
             /\ s1.rq = s.rq /\ s1.cur = s.cur /\ s1.slice = s.slice
<1>1. [s EXCEPT !.task[t] = r] = [s EXCEPT !.task = [s.task EXCEPT ![t] = r]]
  BY DEF KernelState
<1>2. [s.task EXCEPT ![t] = r] \in [Task -> TaskRecord]
  BY DEF KernelState
<1> QED BY ZenonT(60), <1>1, <1>2 DEF KernelState

\* The idle task is not in the task table, and NULL is no slot.
LEMMA SlotFacts == Slot \subseteq Task /\ Idle \notin Slot /\ NULL \notin Slot /\ Idle \in Task
BY SchedConstants DEF Slot, Task, Idle, NULL

\* A task outside the discipline may change freely, as long as it stays in use and
\* cur_queue keeps telling where it is linked.
LEMMA ExemptChange ==
  ASSUME NEW s, NEW C, NEW n, Disc(s, C, n), NEW t \in Task, NEW r \in TaskRecord,
         t \in Slot => t \in C /\ s.task[t].in_use,
         r.in_use = s.task[t].in_use, r.cur_queue = s.task[t].cur_queue,
         r.cpu_quota = 0, ~r.quota_done
  PROVE  Disc([s EXCEPT !.task[t] = r], C, n)
<1> DEFINE s1 == [s EXCEPT !.task[t] = r]
<1>1. s \in KernelState
  BY DEF Disc
<1>2. /\ s1 \in KernelState /\ s1.task[t] = r /\ s1.rq = s.rq
      /\ \A u \in Task : u # t => s1.task[u] = s.task[u]
  BY <1>1, SetTask
<1> HIDE DEF s1
<1>3. Linear(s1)
  BY <1>2 DEF Disc, Linear
<1>4. NoQuota(s1)
  BY <1>2 DEF Disc, NoQuota
<1>5. \A q, u : On(s1, q, u) <=> On(s, q, u)
  BY <1>2 DEF On
<1>6. \A u \in Slot : u \notin C => s1.task[u] = s.task[u] /\ task_qidx(s1, u) = task_qidx(s, u)
  BY <1>2, SlotFacts DEF task_qidx
<1>7. \A u \in Slot : s1.task[u].in_use = s.task[u].in_use /\ s1.task[u].cur_queue = s.task[u].cur_queue
  BY <1>2, SlotFacts
<1> QED BY <1>2, <1>3, <1>4, <1>5, <1>6, <1>7 DEF Disc, s1

\* enqueue_task brings a READY task that is on no list back under the discipline.
LEMMA EnqueueDisc ==
  ASSUME NEW s, NEW C, NEW n, NEW t \in Slot, t \notin C, t # n, Disc(s, C \cup {t}, n),
         Unlinked(s, t), s.task[t].in_use, s.task[t].state = "READY"
  PROVE  Disc(enqueue_task(s, t), C, n)
<1> DEFINE r == enqueue_task(s, t)
           q == task_qidx(s, t)
<1>1. s \in KernelState
  BY DEF Disc
<1>2. /\ q \in Queue /\ r \in KernelState
      /\ r.task = [s.task EXCEPT ![t].cur_queue = q]
  BY ZenonT(60), <1>1, EnqueueFields
<1>3. \A p \in Queue, u \in Slot : On(r, p, u) <=> On(s, p, u) \/ (p = q /\ u = t)
  BY <1>1, EnqueueOn
<1>4. Linear(r)
  BY <1>1, EnqueueOn DEF Disc, Unlinked
<1> HIDE DEF r, q
<1>5. /\ \A u \in Task : u # t => r.task[u] = s.task[u]
      /\ r.task[t] = [s.task[t] EXCEPT !.cur_queue = q]
      /\ t \in Task
      /\ s.task[t] \in TaskRecord
  BY ZenonT(60), <1>1, <1>2, SlotFacts DEF KernelState
<1>6. /\ r.task[t].cur_queue = q
      /\ r.task[t].in_use = s.task[t].in_use /\ r.task[t].state = s.task[t].state
      /\ r.task[t].tier = s.task[t].tier /\ r.task[t].mlfq_level = s.task[t].mlfq_level
      /\ r.task[t].cpu_quota = s.task[t].cpu_quota /\ r.task[t].quota_done = s.task[t].quota_done
  <2> DEFINE x == s.task[t]
             y == r.task[t]
  <2>1. x \in TaskRecord /\ y = [x EXCEPT !.cur_queue = q]
    BY <1>5
  <2> HIDE DEF x, y
  <2>2. /\ y.cur_queue = q
        /\ y.in_use = x.in_use /\ y.state = x.state
        /\ y.tier = x.tier /\ y.mlfq_level = x.mlfq_level
        /\ y.cpu_quota = x.cpu_quota /\ y.quota_done = x.quota_done
    BY <2>1 DEF TaskRecord
  <2> QED BY <2>2 DEF x, y
<1>7. NoQuota(r)
  <2> SUFFICES ASSUME NEW u \in Task PROVE r.task[u].cpu_quota = 0 /\ ~r.task[u].quota_done
    BY DEF NoQuota
  <2>1. s.task[u].cpu_quota = 0 /\ ~s.task[u].quota_done
    BY DEF Disc, NoQuota
  <2> QED BY ZenonT(60), <2>1, <1>5, <1>6
<1>8. \A u \in Slot : task_qidx(r, u) = task_qidx(s, u)
  BY ZenonT(60), <1>5, <1>6, SlotFacts DEF task_qidx
<1>9. task_qidx(r, t) = q
  BY <1>8 DEF q
<1>10. \A u \in Slot : u # t => r.task[u] = s.task[u]
  BY <1>5, SlotFacts
<1>11. \A p \in Queue, u \in Slot :
         On(r, p, u) => r.task[u].in_use /\ r.task[u].cur_queue = p /\ u # n
  <2> SUFFICES ASSUME NEW p \in Queue, NEW u \in Slot, On(r, p, u)
               PROVE  r.task[u].in_use /\ r.task[u].cur_queue = p /\ u # n
    OBVIOUS
  <2>1. CASE u = t
    <3>1. ~On(s, p, u)
      BY <2>1 DEF Unlinked
    <3> QED BY <2>1, <3>1, <1>3, <1>6
  <2>2. CASE u # t
    BY <2>2, <1>3, <1>10 DEF Disc
  <2> QED BY <2>1, <2>2
<1>12. \A p \in Queue, u \in Slot :
         On(r, p, u) /\ u \notin C => r.task[u].state = "READY" /\ task_qidx(r, u) = p
  BY <1>3, <1>6, <1>8, <1>9, <1>10 DEF Disc, Unlinked
<1>13. \A u \in Slot :
         r.task[u].in_use /\ r.task[u].state = "READY" /\ u \notin C /\ u # n
            => On(r, task_qidx(r, u), u)
  <2> SUFFICES ASSUME NEW u \in Slot, r.task[u].in_use, r.task[u].state = "READY", u \notin C, u # n
               PROVE  On(r, task_qidx(r, u), u)
    OBVIOUS
  <2>1. CASE u = t
    BY <2>1, <1>2, <1>3, <1>9
  <2>2. CASE u # t
    <3>1. On(s, task_qidx(s, u), u)
      BY <2>2, <1>10 DEF Disc
    <3>2. task_qidx(s, u) \in Queue
      BY <1>1, QidxType, SlotFacts
    <3> QED BY <3>1, <3>2, <1>3, <1>8
  <2> QED BY <2>1, <2>2
<1>14. \A u \in Slot : r.task[u].in_use /\ r.task[u].state = "RUNNING" => u \in C
  BY <1>6, <1>10 DEF Disc
<1>15. n \in Slot => /\ r.task[n].in_use /\ r.task[n].state = "READY"
                     /\ r.task[n].mlfq_level = 0 /\ n \notin C
  BY <1>10 DEF Disc
<1>16. \A u \in Slot : ~r.task[u].in_use => r.task[u].state = "RUNNING"
  BY ZenonT(60), <1>6, <1>10 DEF Disc
<1> QED BY <1>2, <1>4, <1>7, <1>11, <1>12, <1>13, <1>14, <1>15, <1>16 DEF Disc, r

\* dequeue_task takes a task that is outside the discipline off every list.
LEMMA DequeueDisc ==
  ASSUME NEW s, NEW C, NEW n, NEW t \in Slot, t \in C, Disc(s, C, n)
  PROVE  Disc(dequeue_task(s, t), C, n) /\ Unlinked(dequeue_task(s, t), t)
<1> DEFINE r == dequeue_task(s, t)
<1>1. s \in KernelState /\ t \in Task
  BY SlotFacts DEF Disc
<1>2. r \in KernelState /\ r.task = s.task
  BY <1>1, DequeueFields
<1>3. (\A p \in Queue, u \in Slot : On(r, p, u) <=> On(s, p, u) /\ u # t) /\ Linear(r)
  BY <1>1, DequeueOn DEF Disc
<1> HIDE DEF r
<1>4. NoQuota(r) /\ \A u : task_qidx(r, u) = task_qidx(s, u)
  BY <1>2 DEF Disc, NoQuota, task_qidx
<1>5. \A u \in Slot : task_qidx(s, u) \in Queue
  BY <1>1, QidxType, SlotFacts
<1>6. Unlinked(r, t)
  BY <1>3 DEF Unlinked
<1>7. Disc(r, C, n)
  BY <1>2, <1>3, <1>4, <1>5 DEF Disc
<1> QED BY <1>6, <1>7 DEF r

\* The task picked was on a list; from now on it is outside the discipline.
LEMMA PickDisc ==
  ASSUME NEW s, NEW C, NEW n, NEW min_q \in Nat, Disc(s, C, n), Picked(s, min_q) # NULL,
         NEW p, p = Picked(s, min_q), NEW r, r = AfterPick(s, min_q)
  PROVE  /\ p \in Slot /\ p # n /\ r.task[p].in_use /\ r.task = s.task
         /\ ~Unlinked(s, p)
         /\ Disc(r, C \cup {p}, n)
         /\ \A t \in Slot : Unlinked(s, t) => Unlinked(r, t)
<1>1. s \in KernelState
  BY DEF Disc
<1>2. r \in KernelState /\ r.task = s.task /\ p \in Slot
  BY <1>1, PickFields
<1>3. /\ \E q \in Queue : On(s, q, p)
      /\ \A q \in Queue, u \in Slot : On(r, q, u) => On(s, q, u)
      /\ \A q \in Queue, u \in Slot : On(s, q, u) /\ u # p => On(r, q, u)
      /\ Linear(r)
  BY <1>1, PickOn DEF Disc
<1>4. NoQuota(r) /\ \A u : task_qidx(r, u) = task_qidx(s, u)
  BY <1>2 DEF Disc, NoQuota, task_qidx
<1>5. \A u \in Slot : task_qidx(s, u) \in Queue
  BY <1>1, QidxType, SlotFacts
<1>6. p # n /\ r.task[p].in_use /\ ~Unlinked(s, p)
  BY <1>2, <1>3 DEF Disc, Unlinked
<1>7. Disc(r, C \cup {p}, n)
  BY <1>2, <1>3, <1>4, <1>5, <1>6 DEF Disc
<1>8. \A t \in Slot : Unlinked(s, t) => Unlinked(r, t)
  BY <1>3 DEF Unlinked
<1> QED BY ZenonT(60), <1>2, <1>6, <1>7, <1>8

=============================================================================
