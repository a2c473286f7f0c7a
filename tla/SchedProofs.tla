----------------------------- MODULE SchedProofs ----------------------------
(*****************************************************************************)
(* Type correctness of the operators of module Sched, and that               *)
(* schedule restores the queue discipline of module QueueProofs.             *)
(*****************************************************************************)
EXTENDS QueueProofs

-----------------------------------------------------------------------------
(* Assigning one field of one task struct *)

\* Each leaf goes to the SMT solver unless it names another prover.
USE SMTT(60)

\* Assigning state of a task struct: what the struct and the state become.
LEMMA SetStateField ==
  ASSUME NEW s \in KernelState, NEW t \in Task, NEW v \in TaskState
  PROVE  LET x == s.task[t]
             y == [s.task[t] EXCEPT !.state = v]
             z == [s EXCEPT !.task[t].state = v]
         IN  /\ y \in TaskRecord /\ y.state = v
             /\ y.in_use = x.in_use /\ y.tier = x.tier /\ y.mlfq_level = x.mlfq_level
             /\ y.cur_queue = x.cur_queue /\ y.cpu_quota = x.cpu_quota /\ y.quota_done = x.quota_done
             /\ z = [s EXCEPT !.task[t] = y]
             /\ z \in KernelState /\ z.cur = s.cur /\ z.rq = s.rq /\ z.task[t] = y
<1> DEFINE x == s.task[t]
           y == [x EXCEPT !.state = v]
<1>1. x \in TaskRecord
  BY DEF KernelState
<1>2. [s EXCEPT !.task[t].state = v] = [s EXCEPT !.task[t] = y]
  BY DEF KernelState
<1> HIDE DEF x
<1>3. y \in TaskRecord /\ y.state = v
  BY <1>1 DEF TaskRecord
<1>4. /\ y.in_use = x.in_use /\ y.tier = x.tier /\ y.mlfq_level = x.mlfq_level
        /\ y.cur_queue = x.cur_queue /\ y.cpu_quota = x.cpu_quota /\ y.quota_done = x.quota_done
  BY <1>1 DEF TaskRecord
<1> HIDE DEF y
<1>5. LET z == [s EXCEPT !.task[t] = y]
      IN  z \in KernelState /\ z.cur = s.cur /\ z.rq = s.rq /\ z.task[t] = y
  BY <1>3, SetTask
<1> QED BY <1>2, <1>3, <1>4, <1>5 DEF x, y

\* Assigning tier of a task struct: what the struct and the state become.
LEMMA SetTierField ==
  ASSUME NEW s \in KernelState, NEW t \in Task, NEW v \in Tier
  PROVE  LET x == s.task[t]
             y == [s.task[t] EXCEPT !.tier = v]
             z == [s EXCEPT !.task[t].tier = v]
         IN  /\ y \in TaskRecord /\ y.tier = v
             /\ y.in_use = x.in_use /\ y.state = x.state /\ y.mlfq_level = x.mlfq_level
             /\ y.cur_queue = x.cur_queue /\ y.cpu_quota = x.cpu_quota /\ y.quota_done = x.quota_done
             /\ z = [s EXCEPT !.task[t] = y]
             /\ z \in KernelState /\ z.cur = s.cur /\ z.rq = s.rq /\ z.task[t] = y
<1> DEFINE x == s.task[t]
           y == [x EXCEPT !.tier = v]
<1>1. x \in TaskRecord
  BY DEF KernelState
<1>2. [s EXCEPT !.task[t].tier = v] = [s EXCEPT !.task[t] = y]
  BY DEF KernelState
<1> HIDE DEF x
<1>3. y \in TaskRecord /\ y.tier = v
  BY <1>1 DEF TaskRecord
<1>4. /\ y.in_use = x.in_use /\ y.state = x.state /\ y.mlfq_level = x.mlfq_level
        /\ y.cur_queue = x.cur_queue /\ y.cpu_quota = x.cpu_quota /\ y.quota_done = x.quota_done
  BY <1>1 DEF TaskRecord
<1> HIDE DEF y
<1>5. LET z == [s EXCEPT !.task[t] = y]
      IN  z \in KernelState /\ z.cur = s.cur /\ z.rq = s.rq /\ z.task[t] = y
  BY <1>3, SetTask
<1> QED BY <1>2, <1>3, <1>4, <1>5 DEF x, y

\* Assigning mlfq_level of a task struct: what the struct and the state become.
LEMMA SetLevelField ==
  ASSUME NEW s \in KernelState, NEW t \in Task, NEW v \in MlfqLevel
  PROVE  LET x == s.task[t]
             y == [s.task[t] EXCEPT !.mlfq_level = v]
             z == [s EXCEPT !.task[t].mlfq_level = v]
         IN  /\ y \in TaskRecord /\ y.mlfq_level = v
             /\ y.in_use = x.in_use /\ y.state = x.state /\ y.tier = x.tier
             /\ y.cur_queue = x.cur_queue /\ y.cpu_quota = x.cpu_quota /\ y.quota_done = x.quota_done
             /\ z = [s EXCEPT !.task[t] = y]
             /\ z \in KernelState /\ z.cur = s.cur /\ z.rq = s.rq /\ z.task[t] = y
<1> DEFINE x == s.task[t]
           y == [x EXCEPT !.mlfq_level = v]
<1>1. x \in TaskRecord
  BY DEF KernelState
<1>2. [s EXCEPT !.task[t].mlfq_level = v] = [s EXCEPT !.task[t] = y]
  BY DEF KernelState
<1> HIDE DEF x
<1>3. y \in TaskRecord /\ y.mlfq_level = v
  BY <1>1 DEF TaskRecord
<1>4. /\ y.in_use = x.in_use /\ y.state = x.state /\ y.tier = x.tier
        /\ y.cur_queue = x.cur_queue /\ y.cpu_quota = x.cpu_quota /\ y.quota_done = x.quota_done
  BY <1>1 DEF TaskRecord
<1> HIDE DEF y
<1>5. LET z == [s EXCEPT !.task[t] = y]
      IN  z \in KernelState /\ z.cur = s.cur /\ z.rq = s.rq /\ z.task[t] = y
  BY <1>3, SetTask
<1> QED BY <1>2, <1>3, <1>4, <1>5 DEF x, y

\* Assigning mlfq_cont_ticks of a task struct: what the struct and the state become.
LEMMA SetContField ==
  ASSUME NEW s \in KernelState, NEW t \in Task, NEW v \in MlfqTicks
  PROVE  LET x == s.task[t]
             y == [s.task[t] EXCEPT !.mlfq_cont_ticks = v]
             z == [s EXCEPT !.task[t].mlfq_cont_ticks = v]
         IN  /\ y \in TaskRecord /\ y.mlfq_cont_ticks = v
             /\ y.in_use = x.in_use /\ y.state = x.state /\ y.tier = x.tier
             /\ y.mlfq_level = x.mlfq_level /\ y.cur_queue = x.cur_queue /\ y.cpu_quota = x.cpu_quota /\ y.quota_done = x.quota_done
             /\ z = [s EXCEPT !.task[t] = y]
             /\ z \in KernelState /\ z.cur = s.cur /\ z.rq = s.rq /\ z.task[t] = y
<1> DEFINE x == s.task[t]
           y == [x EXCEPT !.mlfq_cont_ticks = v]
<1>1. x \in TaskRecord
  BY DEF KernelState
<1>2. [s EXCEPT !.task[t].mlfq_cont_ticks = v] = [s EXCEPT !.task[t] = y]
  BY DEF KernelState
<1> HIDE DEF x
<1>3. y \in TaskRecord /\ y.mlfq_cont_ticks = v
  BY <1>1 DEF TaskRecord
<1>4. /\ y.in_use = x.in_use /\ y.state = x.state /\ y.tier = x.tier
        /\ y.mlfq_level = x.mlfq_level /\ y.cur_queue = x.cur_queue /\ y.cpu_quota = x.cpu_quota /\ y.quota_done = x.quota_done
  BY <1>1 DEF TaskRecord
<1> HIDE DEF y
<1>5. LET z == [s EXCEPT !.task[t] = y]
      IN  z \in KernelState /\ z.cur = s.cur /\ z.rq = s.rq /\ z.task[t] = y
  BY <1>3, SetTask
<1> QED BY <1>2, <1>3, <1>4, <1>5 DEF x, y

\* Assigning kill_pending of a task struct: what the struct and the state become.
LEMMA SetKillField ==
  ASSUME NEW s \in KernelState, NEW t \in Task, NEW v \in BOOLEAN
  PROVE  LET x == s.task[t]
             y == [s.task[t] EXCEPT !.kill_pending = v]
             z == [s EXCEPT !.task[t].kill_pending = v]
         IN  /\ y \in TaskRecord /\ y.kill_pending = v
             /\ y.in_use = x.in_use /\ y.state = x.state /\ y.tier = x.tier
             /\ y.mlfq_level = x.mlfq_level /\ y.cur_queue = x.cur_queue /\ y.cpu_quota = x.cpu_quota /\ y.quota_done = x.quota_done
             /\ z = [s EXCEPT !.task[t] = y]
             /\ z \in KernelState /\ z.cur = s.cur /\ z.rq = s.rq /\ z.task[t] = y
<1> DEFINE x == s.task[t]
           y == [x EXCEPT !.kill_pending = v]
<1>1. x \in TaskRecord
  BY DEF KernelState
<1>2. [s EXCEPT !.task[t].kill_pending = v] = [s EXCEPT !.task[t] = y]
  BY DEF KernelState
<1> HIDE DEF x
<1>3. y \in TaskRecord /\ y.kill_pending = v
  BY <1>1 DEF TaskRecord
<1>4. /\ y.in_use = x.in_use /\ y.state = x.state /\ y.tier = x.tier
        /\ y.mlfq_level = x.mlfq_level /\ y.cur_queue = x.cur_queue /\ y.cpu_quota = x.cpu_quota /\ y.quota_done = x.quota_done
  BY <1>1 DEF TaskRecord
<1> HIDE DEF y
<1>5. LET z == [s EXCEPT !.task[t] = y]
      IN  z \in KernelState /\ z.cur = s.cur /\ z.rq = s.rq /\ z.task[t] = y
  BY <1>3, SetTask
<1> QED BY <1>2, <1>3, <1>4, <1>5 DEF x, y

\* Assigning wait of a task struct: what the struct and the state become.
LEMMA SetWaitField ==
  ASSUME NEW s \in KernelState, NEW t \in Task, NEW v \in Slot \cup {NULL, AnyChild}
  PROVE  LET x == s.task[t]
             y == [s.task[t] EXCEPT !.wait = v]
             z == [s EXCEPT !.task[t].wait = v]
         IN  /\ y \in TaskRecord /\ y.wait = v
             /\ y.in_use = x.in_use /\ y.state = x.state /\ y.tier = x.tier
             /\ y.mlfq_level = x.mlfq_level /\ y.cur_queue = x.cur_queue /\ y.cpu_quota = x.cpu_quota /\ y.quota_done = x.quota_done
             /\ z = [s EXCEPT !.task[t] = y]
             /\ z \in KernelState /\ z.cur = s.cur /\ z.rq = s.rq /\ z.task[t] = y
<1> DEFINE x == s.task[t]
           y == [x EXCEPT !.wait = v]
<1>1. x \in TaskRecord
  BY DEF KernelState
<1>2. [s EXCEPT !.task[t].wait = v] = [s EXCEPT !.task[t] = y]
  BY DEF KernelState
<1> HIDE DEF x
<1>3. y \in TaskRecord /\ y.wait = v
  BY <1>1 DEF TaskRecord
<1>4. /\ y.in_use = x.in_use /\ y.state = x.state /\ y.tier = x.tier
        /\ y.mlfq_level = x.mlfq_level /\ y.cur_queue = x.cur_queue /\ y.cpu_quota = x.cpu_quota /\ y.quota_done = x.quota_done
  BY <1>1 DEF TaskRecord
<1> HIDE DEF y
<1>5. LET z == [s EXCEPT !.task[t] = y]
      IN  z \in KernelState /\ z.cur = s.cur /\ z.rq = s.rq /\ z.task[t] = y
  BY <1>3, SetTask
<1> QED BY <1>2, <1>3, <1>4, <1>5 DEF x, y

\* Assigning wd_managed of a task struct: what the struct and the state become.
LEMMA SetManagedField ==
  ASSUME NEW s \in KernelState, NEW t \in Task, NEW v \in BOOLEAN
  PROVE  LET x == s.task[t]
             y == [s.task[t] EXCEPT !.wd_managed = v]
             z == [s EXCEPT !.task[t].wd_managed = v]
         IN  /\ y \in TaskRecord /\ y.wd_managed = v
             /\ y.in_use = x.in_use /\ y.state = x.state /\ y.tier = x.tier
             /\ y.mlfq_level = x.mlfq_level /\ y.cur_queue = x.cur_queue /\ y.cpu_quota = x.cpu_quota /\ y.quota_done = x.quota_done
             /\ z = [s EXCEPT !.task[t] = y]
             /\ z \in KernelState /\ z.cur = s.cur /\ z.rq = s.rq /\ z.task[t] = y
<1> DEFINE x == s.task[t]
           y == [x EXCEPT !.wd_managed = v]
<1>1. x \in TaskRecord
  BY DEF KernelState
<1>2. [s EXCEPT !.task[t].wd_managed = v] = [s EXCEPT !.task[t] = y]
  BY DEF KernelState
<1> HIDE DEF x
<1>3. y \in TaskRecord /\ y.wd_managed = v
  BY <1>1 DEF TaskRecord
<1>4. /\ y.in_use = x.in_use /\ y.state = x.state /\ y.tier = x.tier
        /\ y.mlfq_level = x.mlfq_level /\ y.cur_queue = x.cur_queue /\ y.cpu_quota = x.cpu_quota /\ y.quota_done = x.quota_done
  BY <1>1 DEF TaskRecord
<1> HIDE DEF y
<1>5. LET z == [s EXCEPT !.task[t] = y]
      IN  z \in KernelState /\ z.cur = s.cur /\ z.rq = s.rq /\ z.task[t] = y
  BY <1>3, SetTask
<1> QED BY <1>2, <1>3, <1>4, <1>5 DEF x, y

\* Assigning tier_override of a task struct: what the struct and the state become.
LEMMA SetOverrideField ==
  ASSUME NEW s \in KernelState, NEW t \in Task, NEW v \in Tier \cup {NULL}
  PROVE  LET x == s.task[t]
             y == [s.task[t] EXCEPT !.tier_override = v]
             z == [s EXCEPT !.task[t].tier_override = v]
         IN  /\ y \in TaskRecord /\ y.tier_override = v
             /\ y.in_use = x.in_use /\ y.state = x.state /\ y.tier = x.tier
             /\ y.mlfq_level = x.mlfq_level /\ y.cur_queue = x.cur_queue /\ y.cpu_quota = x.cpu_quota /\ y.quota_done = x.quota_done
             /\ z = [s EXCEPT !.task[t] = y]
             /\ z \in KernelState /\ z.cur = s.cur /\ z.rq = s.rq /\ z.task[t] = y
<1> DEFINE x == s.task[t]
           y == [x EXCEPT !.tier_override = v]
<1>1. x \in TaskRecord
  BY DEF KernelState
<1>2. [s EXCEPT !.task[t].tier_override = v] = [s EXCEPT !.task[t] = y]
  BY DEF KernelState
<1> HIDE DEF x
<1>3. y \in TaskRecord /\ y.tier_override = v
  BY <1>1 DEF TaskRecord
<1>4. /\ y.in_use = x.in_use /\ y.state = x.state /\ y.tier = x.tier
        /\ y.mlfq_level = x.mlfq_level /\ y.cur_queue = x.cur_queue /\ y.cpu_quota = x.cpu_quota /\ y.quota_done = x.quota_done
  BY <1>1 DEF TaskRecord
<1> HIDE DEF y
<1>5. LET z == [s EXCEPT !.task[t] = y]
      IN  z \in KernelState /\ z.cur = s.cur /\ z.rq = s.rq /\ z.task[t] = y
  BY <1>3, SetTask
<1> QED BY <1>2, <1>3, <1>4, <1>5 DEF x, y

\* Assigning state keeps the type of the state.
LEMMA PutState ==
  ASSUME NEW s \in KernelState, NEW t \in Task, NEW v \in TaskState
  PROVE  [s EXCEPT !.task[t].state = v] \in KernelState /\ [s EXCEPT !.task[t].state = v].cur = s.cur
<1> DEFINE y == [s.task[t] EXCEPT !.state = v]
<1>1. y \in TaskRecord /\ [s EXCEPT !.task[t].state = v] = [s EXCEPT !.task[t] = y]
  BY ZenonT(60), SetStateField
<1> HIDE DEF y
<1> QED BY <1>1, SetTask

\* Assigning tier keeps the type of the state.
LEMMA PutTier ==
  ASSUME NEW s \in KernelState, NEW t \in Task, NEW v \in Tier
  PROVE  [s EXCEPT !.task[t].tier = v] \in KernelState /\ [s EXCEPT !.task[t].tier = v].cur = s.cur
<1> DEFINE y == [s.task[t] EXCEPT !.tier = v]
<1>1. y \in TaskRecord /\ [s EXCEPT !.task[t].tier = v] = [s EXCEPT !.task[t] = y]
  BY ZenonT(60), SetTierField
<1> HIDE DEF y
<1> QED BY <1>1, SetTask

\* Assigning mlfq_level keeps the type of the state.
LEMMA PutLevel ==
  ASSUME NEW s \in KernelState, NEW t \in Task, NEW v \in MlfqLevel
  PROVE  [s EXCEPT !.task[t].mlfq_level = v] \in KernelState /\ [s EXCEPT !.task[t].mlfq_level = v].cur = s.cur
<1> DEFINE y == [s.task[t] EXCEPT !.mlfq_level = v]
<1>1. y \in TaskRecord /\ [s EXCEPT !.task[t].mlfq_level = v] = [s EXCEPT !.task[t] = y]
  BY ZenonT(60), SetLevelField
<1> HIDE DEF y
<1> QED BY <1>1, SetTask

\* Assigning mlfq_cont_ticks keeps the type of the state.
LEMMA PutCont ==
  ASSUME NEW s \in KernelState, NEW t \in Task, NEW v \in MlfqTicks
  PROVE  [s EXCEPT !.task[t].mlfq_cont_ticks = v] \in KernelState /\ [s EXCEPT !.task[t].mlfq_cont_ticks = v].cur = s.cur
<1> DEFINE y == [s.task[t] EXCEPT !.mlfq_cont_ticks = v]
<1>1. y \in TaskRecord /\ [s EXCEPT !.task[t].mlfq_cont_ticks = v] = [s EXCEPT !.task[t] = y]
  BY ZenonT(60), SetContField
<1> HIDE DEF y
<1> QED BY <1>1, SetTask

\* Assigning kill_pending keeps the type of the state.
LEMMA PutKill ==
  ASSUME NEW s \in KernelState, NEW t \in Task, NEW v \in BOOLEAN
  PROVE  [s EXCEPT !.task[t].kill_pending = v] \in KernelState /\ [s EXCEPT !.task[t].kill_pending = v].cur = s.cur
<1> DEFINE y == [s.task[t] EXCEPT !.kill_pending = v]
<1>1. y \in TaskRecord /\ [s EXCEPT !.task[t].kill_pending = v] = [s EXCEPT !.task[t] = y]
  BY ZenonT(60), SetKillField
<1> HIDE DEF y
<1> QED BY <1>1, SetTask

\* Assigning wait keeps the type of the state.
LEMMA PutWait ==
  ASSUME NEW s \in KernelState, NEW t \in Task, NEW v \in Slot \cup {NULL, AnyChild}
  PROVE  [s EXCEPT !.task[t].wait = v] \in KernelState /\ [s EXCEPT !.task[t].wait = v].cur = s.cur
<1> DEFINE y == [s.task[t] EXCEPT !.wait = v]
<1>1. y \in TaskRecord /\ [s EXCEPT !.task[t].wait = v] = [s EXCEPT !.task[t] = y]
  BY ZenonT(60), SetWaitField
<1> HIDE DEF y
<1> QED BY <1>1, SetTask

\* Assigning wd_managed keeps the type of the state.
LEMMA PutManaged ==
  ASSUME NEW s \in KernelState, NEW t \in Task, NEW v \in BOOLEAN
  PROVE  [s EXCEPT !.task[t].wd_managed = v] \in KernelState /\ [s EXCEPT !.task[t].wd_managed = v].cur = s.cur
<1> DEFINE y == [s.task[t] EXCEPT !.wd_managed = v]
<1>1. y \in TaskRecord /\ [s EXCEPT !.task[t].wd_managed = v] = [s EXCEPT !.task[t] = y]
  BY ZenonT(60), SetManagedField
<1> HIDE DEF y
<1> QED BY <1>1, SetTask

\* Assigning tier_override keeps the type of the state.
LEMMA PutOverride ==
  ASSUME NEW s \in KernelState, NEW t \in Task, NEW v \in Tier \cup {NULL}
  PROVE  [s EXCEPT !.task[t].tier_override = v] \in KernelState /\ [s EXCEPT !.task[t].tier_override = v].cur = s.cur
<1> DEFINE y == [s.task[t] EXCEPT !.tier_override = v]
<1>1. y \in TaskRecord /\ [s EXCEPT !.task[t].tier_override = v] = [s EXCEPT !.task[t] = y]
  BY ZenonT(60), SetOverrideField
<1> HIDE DEF y
<1> QED BY <1>1, SetTask

-----------------------------------------------------------------------------
(* The dispatcher preserves the types *)

\* switch_to_task keeps the type: it sets cur, the slice and the state of p.
LEMMA SwitchType ==
  ASSUME NEW s \in KernelState, NEW p \in Task
  PROVE  LET r == switch_to_task(s, p)
             y == [s.task[p] EXCEPT !.state = "RUNNING"]
         IN  /\ r \in KernelState /\ r.cur = p /\ r.rq = s.rq
             /\ r.task = [s EXCEPT !.task[p] = y].task
<1> DEFINE y == [s.task[p] EXCEPT !.state = "RUNNING"]
           s1 == [s EXCEPT !.task[p] = y]
           s2 == [s EXCEPT !.cur = p, !.task[p].state = "RUNNING"]
<1>1. y \in TaskRecord /\ [s EXCEPT !.task[p].state = "RUNNING"] = s1
  BY ZenonT(60), SetStateField DEF TaskState
<1>2. s1 \in KernelState /\ s1.rq = s.rq
  BY <1>1, SetTask
<1>3. s2 = [[s EXCEPT !.task[p].state = "RUNNING"] EXCEPT !.cur = p]
  BY ZenonT(60) DEF KernelState
<1>4. s2 = [s1 EXCEPT !.cur = p]
  BY <1>1, <1>3
<1> HIDE DEF s1
<1>5. s2 \in KernelState /\ s2.cur = p /\ s2.rq = s.rq /\ s2.task = s1.task
  <2> HIDE DEF s2
  <2> QED BY ZenonT(60), <1>2, <1>4 DEF KernelState
<1> HIDE DEF s2
<1>6. tier_timeslice(s2, s2.cur) \in 0 .. 3
  <2> DEFINE x == s2.task[s2.cur]
  <2>1. x \in TaskRecord
    BY <1>5 DEF KernelState
  <2> HIDE DEF x
  <2>2. x.mlfq_level \in 0 .. 2
    BY <2>1 DEF TaskRecord, MlfqLevel
  <2> QED BY <2>2 DEF tier_timeslice, x
<1>7. set_task_timeslice(s2) = [s2 EXCEPT !.slice = tier_timeslice(s2, s2.cur)]
  BY DEF set_task_timeslice
<1>8. switch_to_task(s, p) = set_task_timeslice(s2)
  BY DEF switch_to_task, s2
<1>9. LET r == [s2 EXCEPT !.slice = tier_timeslice(s2, s2.cur)]
      IN  r \in KernelState /\ r.cur = p /\ r.rq = s.rq /\ r.task = s1.task
  BY <1>5, <1>6 DEF KernelState
<1> QED BY <1>7, <1>8, <1>9 DEF s1

\* set_task_timeslice keeps the type and changes the slice only.
LEMMA TimesliceType ==
  ASSUME NEW s \in KernelState
  PROVE  LET r == set_task_timeslice(s)
         IN  r \in KernelState /\ r.cur = s.cur /\ r.rq = s.rq /\ r.task = s.task
<1> DEFINE x == s.task[s.cur]
<1>1. x \in TaskRecord
  BY DEF KernelState
<1> HIDE DEF x
<1>2. x.mlfq_level \in 0 .. 2
  BY <1>1 DEF TaskRecord, MlfqLevel
<1>3. tier_timeslice(s, s.cur) \in 0 .. 3
  BY <1>2 DEF tier_timeslice, x
<1> QED BY <1>3 DEF KernelState, set_task_timeslice

\* The type of what picking returns and leaves behind.
LEMMA PickedType ==
  ASSUME NEW s \in KernelState, NEW min_q \in Nat
  PROVE  /\ Picked(s, min_q) \in Slot \cup {NULL}
         /\ AfterPick(s, min_q) \in KernelState
         /\ AfterPick(s, min_q).task = s.task /\ AfterPick(s, min_q).cur = s.cur
         /\ AfterPick(s, min_q).slice = s.slice
         /\ Picked(s, min_q) = NULL => AfterPick(s, min_q) = s
BY ZenonT(60), PickFields, PickFound, SlotFacts DEF AfterPick, Picked

\* Dispatch keeps the type.
LEMMA DispatchType ==
  ASSUME NEW s \in KernelState
  PROVE  Dispatch(s) \in KernelState
BY ZenonT(60), PickedType, SwitchType, SlotFacts DEF Dispatch

\* enqueue_task keeps the type.
LEMMA EnqueueType ==
  ASSUME NEW s \in KernelState, NEW t \in Slot
  PROVE  enqueue_task(s, t) \in KernelState /\ enqueue_task(s, t).cur = s.cur
BY ZenonT(60), EnqueueFields

\* The end of a slice keeps the type.
LEMMA ExpireType ==
  ASSUME NEW s \in KernelState, NEW t \in Slot
  PROVE  Expire(s, t) \in KernelState
<1> DEFINE lower == task_qidx(s, t) + 1
           s1 == AfterPick(s, 0)
<1>1. lower \in Nat
  BY QidxType, SlotFacts DEF Queue
<1>2. s1 \in KernelState
  BY PickedType
<1> HIDE DEF lower, s1
<1>3. AfterPick(s1, lower) \in KernelState /\ Picked(s1, lower) \in Slot \cup {NULL}
  BY <1>1, <1>2, PickedType
<1>4. Picked(s1, lower) # NULL =>
        switch_to_task(enqueue_task(AfterPick(s1, lower), t), Picked(s1, lower)) \in KernelState
  BY ZenonT(60), <1>3, EnqueueType, SwitchType, SlotFacts
<1> QED BY <1>2, <1>4, DispatchType, TimesliceType DEF Expire, lower, s1

\* Using a tick of the slice keeps the type.
LEMMA UseSliceType ==
  ASSUME NEW s \in KernelState
  PROVE  LET d == dequeue_task(s, s.cur)
             r == UseSlice(s)
         IN  /\ d \in KernelState /\ r \in KernelState
             /\ r.task = d.task /\ r.rq = d.rq /\ r.cur = s.cur /\ d.cur = s.cur
<1> DEFINE d == dequeue_task(s, s.cur)
<1>1. d \in KernelState /\ d.cur = s.cur
  BY DequeueFields DEF KernelState
<1> HIDE DEF d
<1> DEFINE v == IF d.slice > 0 THEN d.slice - 1 ELSE d.slice
<1>2. d.slice \in 0 .. 3
  BY <1>1 DEF KernelState
<1>3. v \in 0 .. 3
  BY <1>2
<1>4. UseSlice(s) = [d EXCEPT !.slice = v]
  BY DEF UseSlice, d
<1> HIDE DEF v
<1>5. LET r == [d EXCEPT !.slice = v]
      IN  r \in KernelState /\ r.task = d.task /\ r.rq = d.rq /\ r.cur = s.cur
  BY ZenonT(60), <1>1, <1>3 DEF KernelState
<1> QED BY <1>1, <1>4, <1>5 DEF d

\* schedule keeps the type.
LEMMA ScheduleType ==
  ASSUME NEW s \in KernelState
  PROVE  schedule(s) \in KernelState
<1> DEFINE prev == s.cur
           s1 == UseSlice(s)
           s2 == [s1 EXCEPT !.task[prev].state = "READY"]
<1>1. s1 \in KernelState /\ prev \in Task
  BY UseSliceType DEF KernelState
<1>2. dequeue_task(s, prev) \in KernelState
  BY <1>1, DequeueFields
<1> HIDE DEF s1, prev
<1>3. s2 \in KernelState
  BY ZenonT(60), <1>1, SetStateField, SetTask DEF TaskState
<1> HIDE DEF s2
<1>4. CASE prev = Idle
  BY <1>4, DispatchType DEF schedule, prev
<1>5. CASE prev # Idle
  <2>1. prev \in Slot
    BY <1>1, <1>5 DEF Task
  <2>2. enqueue_task(s2, prev) \in KernelState
    BY <1>3, <2>1, EnqueueType
  <2>3. Dispatch(enqueue_task(s2, prev)) \in KernelState /\ Expire(enqueue_task(s2, prev), prev) \in KernelState
    BY <2>1, <2>2, DispatchType, ExpireType
  <2>4. Dispatch(s) \in KernelState /\ Dispatch(dequeue_task(s, prev)) \in KernelState
    BY <1>2, DispatchType
  <2> QED BY <1>1, <1>5, <2>3, <2>4 DEF schedule, prev, s1, s2
<1> QED BY <1>4, <1>5

\* Moving a task between queues keeps the type.
LEMMA RequeueType ==
  ASSUME NEW s \in KernelState, NEW q, NEW t \in Slot
  PROVE  Requeue(s, q, t) \in KernelState /\ Requeue(s, q, t).cur = s.cur
<1>1. dequeue_task(s, t) \in KernelState /\ dequeue_task(s, t).cur = s.cur
  BY DequeueFields, SlotFacts
<1> QED BY <1>1, EnqueueType DEF Requeue

\* The tier and the level of the running task change without a requeue.
LEMMA RequeueCurrent ==
  ASSUME NEW s \in KernelState, NEW q
  PROVE  Requeue(s, q, s.cur) = s
BY DEF Requeue

\* task_set_mlfq_level keeps the type.
LEMMA SetLevelType ==
  ASSUME NEW s \in KernelState, NEW t \in Task, t \in Slot \/ t = s.cur, NEW level \in MlfqLevel
  PROVE  LET r == task_set_mlfq_level(s, t, level)
         IN  r \in KernelState /\ r.cur = s.cur
<1> DEFINE s1 == [s EXCEPT !.task[t].mlfq_level = level]
<1>1. s1 \in KernelState /\ s1.cur = s.cur
  BY PutLevel
<1> HIDE DEF s1
<1>2. CASE t \in Slot
  BY ZenonT(60), <1>1, <1>2, RequeueType DEF task_set_mlfq_level, s1
<1>3. CASE t = s.cur
  BY ZenonT(60), <1>1, <1>3, RequeueCurrent DEF task_set_mlfq_level, s1
<1> QED BY <1>2, <1>3

\* task_set_tier is only called for the running task.
LEMMA SetTierCurrent ==
  ASSUME NEW s \in KernelState, NEW tier \in Tier
  PROVE  /\ task_set_tier(s, s.cur, tier) = [s EXCEPT !.task[s.cur].tier = tier]
         /\ task_set_tier(s, s.cur, tier) \in KernelState
         /\ task_set_tier(s, s.cur, tier).cur = s.cur
<1> DEFINE s1 == [s EXCEPT !.task[s.cur].tier = tier]
<1>1. s.cur \in Task
  BY DEF KernelState
<1>2. s1 \in KernelState /\ s1.cur = s.cur
  BY <1>1, SetTierField
<1>3. task_set_tier(s, s.cur, tier) = Requeue(s1, task_qidx(s, s.cur), s.cur)
  BY DEF task_set_tier
<1> HIDE DEF s1
<1>4. Requeue(s1, task_qidx(s, s.cur), s.cur) = s1
  BY <1>2, RequeueCurrent
<1> QED BY ZenonT(60), <1>2, <1>3, <1>4 DEF s1

\* task_set_mlfq_level on the running task sets the field and moves nothing.
LEMMA SetLevelCurrent ==
  ASSUME NEW s \in KernelState, NEW level \in MlfqLevel
  PROVE  task_set_mlfq_level(s, s.cur, level) = [s EXCEPT !.task[s.cur].mlfq_level = level]
<1> DEFINE s1 == [s EXCEPT !.task[s.cur].mlfq_level = level]
<1>1. s.cur \in Task
  BY DEF KernelState
<1>2. s1 \in KernelState /\ s1.cur = s.cur
  BY <1>1, SetLevelField
<1>3. task_set_mlfq_level(s, s.cur, level) = Requeue(s1, task_qidx(s, s.cur), s.cur)
  BY DEF task_set_mlfq_level
<1> HIDE DEF s1
<1>4. Requeue(s1, task_qidx(s, s.cur), s.cur) = s1
  BY <1>2, RequeueCurrent
<1> QED BY <1>2, <1>3, <1>4 DEF s1

\* yield keeps the type.
LEMMA YieldType ==
  ASSUME NEW s \in KernelState
  PROVE  yield(s) \in KernelState
<1> DEFINE t == s.cur
           s1 == [s EXCEPT !.task[t].mlfq_cont_ticks = 0]
           s2 == IF s.task[t].tier # USER THEN s ELSE task_set_mlfq_level(s1, t, 0)
<1>1. t \in Task
  BY DEF KernelState
<1>2. s1 \in KernelState /\ s1.cur = t
  <2>1. 0 \in MlfqTicks
    BY DEF MlfqTicks, MLFQ_DEMOTE_TICKS
  <2> QED BY <1>1, <2>1, SetContField
<1> HIDE DEF s1
<1>3. s2 \in KernelState
  <2>1. 0 \in MlfqLevel
    BY DEF MlfqLevel
  <2> QED BY <1>1, <1>2, <2>1, SetLevelType
<1> HIDE DEF s2
<1>4. [s2 EXCEPT !.task[t].state = "READY"] \in KernelState
  BY ZenonT(60), <1>1, <1>3, SetStateField DEF TaskState
<1>5. yield(s) = schedule([s2 EXCEPT !.task[t].state = "READY"])
  BY DEF yield, s2, s1
<1> QED BY <1>4, <1>5, ScheduleType

\* Ageing one task keeps the type.
LEMMA AgeType ==
  ASSUME NEW s \in KernelState, NEW t \in Slot
  PROVE  AgeTask(s, t) \in KernelState /\ AgeTask(s, t).cur = s.cur
<1>1. s.task[t] \in TaskRecord /\ t \in Task
  BY SlotFacts DEF KernelState
<1>2. s.task[t].mlfq_level \in MlfqLevel
  BY <1>1 DEF TaskRecord
<1>3. Ages(s, t) => s.task[t].mlfq_level - 1 \in MlfqLevel
  BY <1>2 DEF Ages, MlfqLevel
<1> QED BY <1>1, <1>3, SetLevelType DEF AgeTask

\* What every turn of the loop of task_mlfq_aging preserves, the loop preserves.
LEMMA AgingInSet ==
  ASSUME NEW S, NEW s \in S, \A i \in Slot, x \in S : AgeTask(x, i) \in S
  PROVE  task_mlfq_aging(s) \in S
<1> DEFINE N == MAX_TASKS
           G == [i \in 1 .. N |-> [x \in S |-> AgeTask(x, i)]]
           f == CHOOSE g : g = [i \in 0 .. N |-> IF i = 0 THEN s ELSE AgeTask(g[i - 1], i)]
<1>1. N \in Nat /\ G \in [1 .. N -> [S -> S]]
  BY SchedConstants DEF Slot
<1>2. task_mlfq_aging(s) = f[N]
  BY DEF task_mlfq_aging
<1>3. PICK h \in [0 .. N -> S] : h = [i \in 0 .. N |-> IF i = 0 THEN s ELSE G[i][h[i - 1]]]
  <2> HIDE DEF G, N
  <2> QED BY <1>1, FoldExists
<1> HIDE DEF N
<1>4. \A i \in 0 .. N : i # 0 => i - 1 \in 0 .. N /\ i \in 1 .. N
  BY <1>1
<1>5. \A i \in 0 .. N : i # 0 => G[i][h[i - 1]] = AgeTask(h[i - 1], i)
  BY ZenonT(60), <1>3, <1>4
<1>6. h = [i \in 0 .. N |-> IF i = 0 THEN s ELSE AgeTask(h[i - 1], i)]
  BY ZenonT(60), <1>3, <1>5
<1>7. f = [i \in 0 .. N |-> IF i = 0 THEN s ELSE AgeTask(f[i - 1], i)]
  BY ZenonT(60), <1>6, Zenon
<1> HIDE DEF f
<1> DEFINE F == {m \in Nat : m <= N => f[m] \in S}
<1>8. 0 \in F
  BY <1>1, <1>7
<1>9. ASSUME NEW m \in Nat, m \in F PROVE m + 1 \in F
  <2> SUFFICES ASSUME m + 1 <= N PROVE f[m + 1] \in S
    OBVIOUS
  <2>1. m + 1 \in 0 .. N /\ m + 1 # 0 /\ (m + 1) - 1 = m /\ m + 1 \in Slot /\ m <= N
    BY <1>1 DEF Slot, N
  <2>2. f[m + 1] = IF m + 1 = 0 THEN s ELSE AgeTask(f[(m + 1) - 1], m + 1)
    BY ZenonT(60), <1>7, <2>1, Zenon
  <2>3. f[m + 1] = AgeTask(f[m], m + 1)
    BY ZenonT(60), <2>1, <2>2, Zenon
  <2>4. f[m] \in S
    BY <1>9, <2>1
  <2> QED BY <2>1, <2>3, <2>4
<1>10. Nat \subseteq F
  <2> HIDE DEF F
  <2> QED BY <1>8, <1>9, NatSetInduction
<1> QED BY <1>1, <1>2, <1>10

\* The whole ageing loop keeps the type.
LEMMA AgingType ==
  ASSUME NEW s \in KernelState
  PROVE  task_mlfq_aging(s) \in KernelState
BY AgeType, AgingInSet

\* task_quota_period_reset keeps the type and moves nothing.
LEMMA QuotaResetType ==
  ASSUME NEW s \in KernelState
  PROVE  LET r == task_quota_period_reset(s)
         IN  r \in KernelState /\ r.rq = s.rq /\ r.cur = s.cur
<1> DEFINE y(t) == IF s.task[t].in_use
                   THEN [s.task[t] EXCEPT !.quota_used_ticks = 0, !.quota_done = FALSE]
                   ELSE s.task[t]
<1>1. ASSUME NEW t \in Task PROVE y(t) \in TaskRecord
  <2> DEFINE x == s.task[t]
  <2>1. x \in TaskRecord
    BY DEF KernelState
  <2> HIDE DEF x
  <2>2. [x EXCEPT !.quota_used_ticks = 0, !.quota_done = FALSE] \in TaskRecord
    BY ZenonT(60), <2>1 DEF TaskRecord
  <2> QED BY <2>1, <2>2 DEF x
<1>2. task_quota_period_reset(s) = [s EXCEPT !.task = [t \in Task |-> y(t)]]
  BY DEF task_quota_period_reset
<1> HIDE DEF y
<1>3. [t \in Task |-> y(t)] \in [Task -> TaskRecord]
  BY <1>1
<1> QED BY <1>2, <1>3 DEF KernelState

\* Charging a tick to the quota keeps the type.
LEMMA ChargeQuotaType ==
  ASSUME NEW s \in KernelState
  PROVE  ChargeQuota(s) \in KernelState /\ ChargeQuota(s).cur = s.cur
<1> DEFINE t == s.cur
           x == s.task[t]
           u == s.task[t].quota_used_ticks + 1
           d == s.task[t].quota_done \/ s.task[t].quota_used_ticks + 1 >= QuotaLimit(s.task[t].cpu_quota)
<1>1. t \in Task /\ x \in TaskRecord
  BY DEF KernelState
<1>2. u \in Nat /\ d \in BOOLEAN
  <2> HIDE DEF x
  <2>1. x.quota_used_ticks \in Nat /\ x.quota_done \in BOOLEAN
    BY <1>1 DEF TaskRecord
  <2> QED BY <2>1 DEF x
<1>3. s.task[t].cpu_quota # 0 => ChargeQuota(s) =
         [s EXCEPT !.task[t].quota_used_ticks = u, !.task[t].quota_done = d]
  BY DEF ChargeQuota
<1> HIDE DEF u, d
<1>4. [s EXCEPT !.task[t].quota_used_ticks = u, !.task[t].quota_done = d]
        = [s EXCEPT !.task[t] = [x EXCEPT !.quota_used_ticks = u, !.quota_done = d]]
  BY ZenonT(60) DEF KernelState
<1> HIDE DEF x
<1>5. [x EXCEPT !.quota_used_ticks = u, !.quota_done = d] \in TaskRecord
  BY ZenonT(60), <1>1, <1>2 DEF TaskRecord
<1> DEFINE y == [x EXCEPT !.quota_used_ticks = u, !.quota_done = d]
           r == [s EXCEPT !.task[t] = y]
<1> HIDE DEF y
<1>7. r \in KernelState /\ r.cur = s.cur
  BY <1>1, <1>5, SetTask DEF y
<1>6. s.task[t].cpu_quota # 0 => ChargeQuota(s) \in KernelState /\ ChargeQuota(s).cur = s.cur
  BY ZenonT(60), <1>3, <1>4, <1>7 DEF y
<1> QED BY <1>6 DEF ChargeQuota

\* Charging a tick to the MLFQ level keeps the type: no level above 2.
LEMMA ChargeMlfqType ==
  ASSUME NEW s \in KernelState
  PROVE  ChargeMlfq(s) \in KernelState /\ ChargeMlfq(s).cur = s.cur
<1> DEFINE t == s.cur
           x == s.task[t]
           cont == Min({s.task[t].mlfq_cont_ticks + 1, MLFQ_DEMOTE_TICKS})
           demoted == task_set_mlfq_level(s, t, s.task[t].mlfq_level + 1)
<1>1. t \in Task /\ x \in TaskRecord
  BY DEF KernelState
<1>2. x.mlfq_cont_ticks \in 0 .. 3 /\ x.mlfq_level \in 0 .. 2
  <2> HIDE DEF x
  <2> QED BY <1>1 DEF TaskRecord, MlfqLevel, MlfqTicks, MLFQ_DEMOTE_TICKS
<1>3. cont \in MlfqTicks
  <2> DEFINE a == s.task[t].mlfq_cont_ticks + 1
  <2>1. a \in Nat
    BY <1>2
  <2> HIDE DEF a
  <2>2. Min({a, MLFQ_DEMOTE_TICKS}) \in {a, MLFQ_DEMOTE_TICKS}
        /\ \A y \in {a, MLFQ_DEMOTE_TICKS} : Min({a, MLFQ_DEMOTE_TICKS}) <= y
    <3>1. {a, MLFQ_DEMOTE_TICKS} \in SUBSET Nat /\ {a, MLFQ_DEMOTE_TICKS} # {}
      BY <2>1 DEF MLFQ_DEMOTE_TICKS
    <3> QED BY <3>1, MinNat
  <2>3. cont = Min({a, MLFQ_DEMOTE_TICKS})
    BY DEF a
  <2> HIDE DEF cont
  <2> QED BY <2>1, <2>2, <2>3 DEF MlfqTicks, MLFQ_DEMOTE_TICKS
<1>4. s.task[t].mlfq_level < 2 => demoted \in KernelState /\ demoted.cur = s.cur
  <2>1. s.task[t].mlfq_level < 2 => s.task[t].mlfq_level + 1 \in MlfqLevel
    BY <1>2 DEF MlfqLevel
  <2> QED BY <1>1, <2>1, SetLevelType
<1>5. ChargeMlfq(s) = IF s.task[t].tier # USER \/ s.task[t].quota_done THEN s
        ELSE IF cont = MLFQ_DEMOTE_TICKS /\ s.task[t].mlfq_level < 2
             THEN [demoted EXCEPT !.task[t].mlfq_cont_ticks = 0]
             ELSE [s EXCEPT !.task[t].mlfq_cont_ticks = cont]
  BY DEF ChargeMlfq
<1> HIDE DEF demoted, cont, t
<1>6. s.task[t].mlfq_level < 2 => LET r == [demoted EXCEPT !.task[t].mlfq_cont_ticks = 0]
                                  IN  r \in KernelState /\ r.cur = s.cur
  <2>1. 0 \in MlfqTicks
    BY DEF MlfqTicks, MLFQ_DEMOTE_TICKS
  <2> QED BY <1>1, <1>4, <2>1, PutCont
<1>7. LET r == [s EXCEPT !.task[t].mlfq_cont_ticks = cont]
      IN  r \in KernelState /\ r.cur = s.cur
  BY <1>1, <1>3, PutCont
<1> QED BY <1>5, <1>6, <1>7

-----------------------------------------------------------------------------
(* The dispatcher preserves the queue discipline *)

\* current_task is live.
Runnable(s) ==
    s.cur # Idle => s.task[s.cur].in_use /\ s.task[s.cur].state \in {"RUNNING", "READY"}

\* A task may always be exempted.
LEMMA DiscGrow ==
  ASSUME NEW s, NEW C, NEW n, NEW t, t # n, Disc(s, C, n)
  PROVE  Disc(s, C \cup {t}, n)
BY DEF Disc

\* A task that is not linked and not READY is an exception by itself.
LEMMA DiscSame ==
  ASSUME NEW s, NEW C, NEW n, NEW r \in KernelState, Disc(s, C, n),
         r.task = s.task, r.rq = s.rq
  PROVE  Disc(r, C, n)
BY DEF Disc, On, Linear, NoQuota, task_qidx

\* switch_to_task makes the exempted task the running one.
LEMMA SwitchDisc ==
  ASSUME NEW s, NEW n, NEW p \in Task, Disc(s, {p}, n), p # Idle => s.task[p].in_use
  PROVE  LET r == switch_to_task(s, p)
         IN  Disc(r, {r.cur}, n) /\ Runnable(r)
<1> DEFINE r == switch_to_task(s, p)
           y == [s.task[p] EXCEPT !.state = "RUNNING"]
           s1 == [s EXCEPT !.task[p] = y]
<1>1. s \in KernelState
  BY DEF Disc
<1>2. r \in KernelState /\ r.cur = p /\ r.rq = s.rq /\ r.task = s1.task
  BY <1>1, SwitchType
<1>3. /\ y \in TaskRecord /\ y.state = "RUNNING" /\ y.in_use = s.task[p].in_use
      /\ y.cur_queue = s.task[p].cur_queue /\ y.cpu_quota = s.task[p].cpu_quota
      /\ y.quota_done = s.task[p].quota_done
  <2> DEFINE x == s.task[p]
  <2>1. x \in TaskRecord /\ y = [x EXCEPT !.state = "RUNNING"]
    BY <1>1 DEF KernelState
  <2> HIDE DEF x, y
  <2>2. /\ y \in TaskRecord /\ y.state = "RUNNING" /\ y.in_use = x.in_use
        /\ y.cur_queue = x.cur_queue /\ y.cpu_quota = x.cpu_quota
        /\ y.quota_done = x.quota_done
    BY <2>1 DEF TaskRecord, TaskState
  <2> QED BY <2>2 DEF x
<1> HIDE DEF r, y
<1>4. s1.rq = s.rq /\ s1.task[p] = y
  <2>1. y \in TaskRecord
    BY <1>3
  <2> QED BY <1>1, <2>1 DEF KernelState
<1>5. s.task[p].cpu_quota = 0 /\ ~s.task[p].quota_done
  BY DEF Disc, NoQuota
<1>6. p \in Slot => p # Idle
  BY SlotFacts
<1>7. Disc(s1, {p}, n)
  <2> HIDE DEF s1
  <2> QED BY <1>3, <1>5, <1>6, ExemptChange DEF s1
<1> HIDE DEF s1
<1>8. Disc(r, {p}, n)
  BY <1>2, <1>4, <1>7, DiscSame
<1>9. Runnable(r)
  BY <1>2, <1>3, <1>4 DEF Runnable
<1> QED BY <1>2, <1>8, <1>9 DEF r

\* Dispatch restores the discipline between handlers.
LEMMA DispatchDisc ==
  ASSUME NEW s, NEW n, Disc(s, {}, n)
  PROVE  Disc(Dispatch(s), {Dispatch(s).cur}, n) /\ Runnable(Dispatch(s))
<1>1. s \in KernelState
  BY DEF Disc
<1>2. CASE Picked(s, 0) = NULL
  <2>1. Dispatch(s) = switch_to_task(s, Idle)
    BY <1>1, <1>2, PickedType DEF Dispatch
  <2>2. Disc(s, {Idle}, n)
    BY SlotFacts DEF Disc
  <2> QED BY <2>1, <2>2, SwitchDisc, SlotFacts
<1>3. CASE Picked(s, 0) # NULL
  <2> DEFINE p == Picked(s, 0)
             r == AfterPick(s, 0)
  <2>1. p \in Slot /\ r.task[p].in_use /\ Disc(r, {} \cup {p}, n)
    BY <1>3, PickDisc
  <2>2. {} \cup {p} = {p}
    OBVIOUS
  <2>3. Disc(r, {p}, n)
    BY <2>1, <2>2
  <2>4. Dispatch(s) = switch_to_task(r, p)
    BY <1>3 DEF Dispatch
  <2> HIDE DEF p, r
  <2> QED BY <2>1, <2>3, <2>4, SwitchDisc, SlotFacts
<1> QED BY <1>2, <1>3

\* The end of a slice restores it too.  When prev is picked again and a lower queue
\* is served instead, prev is queued a second time; without quotas it is alone on
\* its list then (PickedFromTail), so that the pick has unlinked it.
LEMMA ExpireDisc ==
  ASSUME NEW s, NEW n, NEW t \in Slot, NEW q \in Queue, Disc(s, {}, n), t # n,
         s.cur = t, s.task[t].in_use, s.task[t].state = "READY",
         Len(s.rq[q]) > 0, s.rq[q][Len(s.rq[q])] = t
  PROVE  Disc(Expire(s, t), {Expire(s, t).cur}, n) /\ Runnable(Expire(s, t))
<1> DEFINE lower == task_qidx(s, t) + 1
           s1 == AfterPick(s, 0)
           p == Picked(s1, lower)
           s2 == AfterPick(s1, lower)
<1>1. s \in KernelState
  BY DEF Disc
<1>2. CASE Picked(s, 0) # t
  BY <1>2, DispatchDisc DEF Expire
<1>3. CASE Picked(s, 0) = t
  <2>1. t # NULL /\ lower \in Nat
    BY <1>1, QidxType, SlotFacts DEF Queue
  <2>2. Disc(s1, {} \cup {t}, n) /\ s1.task = s.task
    <3>1. Picked(s, 0) # NULL /\ Disc(s, {}, n) /\ 0 \in Nat
      BY <1>3, <2>1
    <3>2. Disc(s1, {} \cup {Picked(s, 0)}, n) /\ s1.task = s.task
      BY ONLY <3>1, PickDisc DEF s1
    <3> QED BY ZenonT(60), <1>3, <3>2
  <2>3. {} \cup {t} = {t}
    OBVIOUS
  <2>4. Unlinked(s1, t)
    BY <1>1, <1>3, PickedFromTail DEF Disc, Unlinked
  <2>5. s1 \in KernelState /\ s1.cur = t
    BY <1>1, PickedType
  <2> HIDE DEF s1, lower
  <2>6. CASE p = NULL
    <3>1. Expire(s, t) = set_task_timeslice(s1)
      BY <1>3, <2>6 DEF Expire, s1, lower
    <3>2. LET r == set_task_timeslice(s1)
          IN  r \in KernelState /\ r.cur = t /\ r.rq = s1.rq /\ r.task = s1.task
      BY <2>5, TimesliceType
    <3> DEFINE r == set_task_timeslice(s1)
    <3> HIDE DEF r
    <3>3. r \in KernelState /\ r.cur = t /\ r.rq = s1.rq /\ r.task = s1.task
      BY <3>2 DEF r
    <3>4. Disc(r, {t}, n)
      BY <2>2, <2>3, <3>3, DiscSame
    <3>5. Runnable(r)
      BY <2>2, <3>3 DEF Runnable
    <3> QED BY <3>1, <3>3, <3>4, <3>5 DEF r
  <2>7. CASE p # NULL
    <3>1. /\ p \in Slot /\ s2.task[p].in_use /\ s2.task = s1.task
          /\ ~Unlinked(s1, p) /\ Disc(s2, {t} \cup {p}, n) /\ Unlinked(s2, t) /\ p # n
      <4> DEFINE C == {t}
      <4>1. Picked(s1, lower) # NULL /\ Disc(s1, C, n) /\ lower \in Nat
        BY <2>1, <2>2, <2>3, <2>7
      <4>2. p = Picked(s1, lower) /\ s2 = AfterPick(s1, lower)
        OBVIOUS
      <4> HIDE DEF C, p, s2
      <4>3. /\ p \in Slot /\ s2.task[p].in_use /\ s2.task = s1.task
            /\ ~Unlinked(s1, p) /\ Disc(s2, C \cup {p}, n) /\ p # n
            /\ \A u \in Slot : Unlinked(s1, u) => Unlinked(s2, u)
        BY ONLY <4>1, <4>2, PickDisc
      <4>4. Disc(s2, {t} \cup {p}, n)
        BY ONLY <4>3 DEF C
      <4>5. Unlinked(s2, t)
        BY ONLY <2>4, <4>3, t \in Slot
      <4> QED BY ZenonT(60), <4>3, <4>4, <4>5
    <3>2. p # t
      BY <2>4, <3>1
    <3>3. Expire(s, t) = switch_to_task(enqueue_task(s2, t), p)
      BY <1>3, <2>7 DEF Expire, s1, lower
    <3> HIDE DEF s2, p
    <3>4. {t} \cup {p} = {p} \cup {t}
      OBVIOUS
    <3>5. Disc(enqueue_task(s2, t), {p}, n)
      BY <2>2, <3>1, <3>2, <3>4, EnqueueDisc
    <3>6. enqueue_task(s2, t).task[p].in_use
      <4>1. s2 \in KernelState
        BY <3>1 DEF Disc
      <4>2. enqueue_task(s2, t).task = [s2.task EXCEPT ![t].cur_queue = task_qidx(s2, t)]
        BY ZenonT(60), <4>1, EnqueueFields
      <4>3. p \in Task /\ s2.task \in [Task -> TaskRecord]
        BY <3>1, <4>1, SlotFacts DEF KernelState
      <4> QED BY <3>1, <3>2, <4>2, <4>3
    <3> QED BY ZenonT(60), <3>1, <3>3, <3>5, <3>6, SwitchDisc, SlotFacts
  <2> QED BY <2>6, <2>7
<1> QED BY <1>2, <1>3

\* A blocked or dead task that is on no list is within the discipline.
LEMMA DiscShrink ==
  ASSUME NEW s, NEW n, NEW t, Disc(s, {t}, n), Unlinked(s, t),
         t \in Slot => s.task[t].state \in {"WAITING", "EXITED"}
  PROVE  Disc(s, {}, n)
BY DEF Disc, Unlinked

\* The idle task is on no list.
LEMMA NoSlotUnlinked ==
  ASSUME NEW s \in KernelState, NEW t, t \notin Slot
  PROVE  Unlinked(s, t)
BY DEF KernelState, Unlinked, On

\* The running task, put back on the tail of its list with state READY.
LEMMA BackDisc ==
  ASSUME NEW s, NEW n, NEW t \in Slot, Disc(s, {t}, n), s.cur = t, s.task[t].in_use,
         Unlinked(s, t), NEW r, r = enqueue_task([s EXCEPT !.task[t].state = "READY"], t)
  PROVE  /\ Disc(r, {}, n) /\ r.cur = t /\ t # n
         /\ r.task[t].in_use /\ r.task[t].state = "READY"
         /\ \E q \in Queue : Len(r.rq[q]) > 0 /\ r.rq[q][Len(r.rq[q])] = t
<1> DEFINE x == s.task[t]
           y == [x EXCEPT !.state = "READY"]
           s1 == [s EXCEPT !.task[t] = y]
           q == task_qidx(s1, t)
<1>1. s \in KernelState /\ t \in Task /\ t # n
  BY SlotFacts DEF Disc
<1>2. x \in TaskRecord /\ x.cpu_quota = 0 /\ ~x.quota_done
  BY <1>1 DEF KernelState, Disc, NoQuota
<1>3. [s EXCEPT !.task[t].state = "READY"] = s1
  BY <1>1 DEF KernelState
<1> HIDE DEF x
<1>4. /\ y \in TaskRecord /\ y.state = "READY" /\ y.in_use = x.in_use
      /\ y.cur_queue = x.cur_queue /\ y.cpu_quota = x.cpu_quota /\ y.quota_done = x.quota_done
  BY <1>2 DEF TaskRecord, TaskState
<1> HIDE DEF y
<1>5. s1 \in KernelState /\ s1.task[t] = y /\ s1.rq = s.rq /\ s1.cur = s.cur
  <2>1. y \in TaskRecord
    BY <1>4
  <2> QED BY ZenonT(60), <1>1, <2>1 DEF KernelState
<1>6. Disc(s1, {t}, n)
  BY ZenonT(60), <1>1, <1>2, <1>4, ExemptChange DEF x
<1> HIDE DEF s1
<1>7. Unlinked(s1, t)
  BY <1>5 DEF Unlinked, On
<1>8. s1.task[t].in_use /\ s1.task[t].state = "READY"
  BY ZenonT(60), <1>4, <1>5 DEF x
<1>9. r = enqueue_task(s1, t)
  BY <1>3
<1>10. {} \cup {t} = {t}
  OBVIOUS
<1>11. Disc(r, {}, n)
  BY <1>1, <1>6, <1>7, <1>8, <1>9, <1>10, EnqueueDisc
<1>12. /\ q \in Queue /\ r.cur = t
       /\ r.task = [s1.task EXCEPT ![t].cur_queue = q]
       /\ r.rq = [s1.rq EXCEPT ![q] = Append(s1.rq[q], t)]
  BY <1>5, <1>9, EnqueueFields
<1> HIDE DEF q
<1>15. s1.task \in [Task -> TaskRecord] /\ s1.rq \in [Queue -> Seq(Slot)]
  BY <1>5 DEF KernelState
<1>13. r.task[t].in_use /\ r.task[t].state = "READY"
  <2>1. r.task[t] = [s1.task[t] EXCEPT !.cur_queue = q]
    <3> DEFINE f == s1.task
               g == r.task
    <3>1. f \in [Task -> TaskRecord] /\ g = [f EXCEPT ![t].cur_queue = q]
      BY <1>12, <1>15
    <3> HIDE DEF f, g
    <3>2. g[t] = [f[t] EXCEPT !.cur_queue = q]
      BY <1>1, <3>1
    <3> QED BY <3>2 DEF f, g
  <2> QED BY <1>4, <1>5, <1>8, <2>1 DEF TaskRecord
<1>14. Len(r.rq[q]) > 0 /\ r.rq[q][Len(r.rq[q])] = t
  <2>1. r.rq[q] = Append(s1.rq[q], t) /\ s1.rq[q] \in Seq(Slot)
    <3> DEFINE f == s1.rq
               g == r.rq
    <3>1. f \in [Queue -> Seq(Slot)] /\ g = [f EXCEPT ![q] = Append(f[q], t)] /\ q \in Queue
      BY <1>12, <1>15
    <3> HIDE DEF f, g
    <3>2. g[q] = Append(f[q], t) /\ f[q] \in Seq(Slot)
      BY <3>1
    <3> QED BY ZenonT(60), <3>2 DEF f, g
  <2> QED BY <2>1
<1> QED BY <1>1, <1>11, <1>12, <1>13, <1>14

\* schedule keeps the discipline and leaves a runnable task on the CPU.
LEMMA ScheduleDisc ==
  ASSUME NEW s, NEW n, Disc(s, {s.cur}, n), s.cur # Idle => s.task[s.cur].in_use,
         s.cur # Idle /\ s.task[s.cur].state = "EXITED" => Unlinked(s, s.cur),
         NEW r, r = schedule(s)
  PROVE  Disc(r, {r.cur}, n) /\ Runnable(r)
<1> DEFINE t == s.cur
           s1 == UseSlice(s)
           back == enqueue_task([s1 EXCEPT !.task[t].state = "READY"], t)
<1>1. s \in KernelState
  BY DEF Disc
<1>2. t \in Task
  BY <1>1 DEF KernelState
<1>3. CASE t = Idle
  <2>1. Disc(s, {}, n)
    BY <1>1, <1>3, NoSlotUnlinked, DiscShrink, SlotFacts
  <2>2. r = s \/ r = Dispatch(s)
    BY <1>3 DEF schedule
  <2>3. Runnable(s)
    BY <1>3 DEF Runnable
  <2> QED BY <2>1, <2>2, <2>3, DispatchDisc
<1>4. CASE t # Idle /\ s.task[t].state = "EXITED"
  <2>1. Disc(s, {}, n)
    BY <1>4, DiscShrink
  <2>2. r = Dispatch(s)
    BY <1>4 DEF schedule
  <2> QED BY <2>1, <2>2, DispatchDisc
<1>5. CASE t # Idle /\ s.task[t].state = "WAITING"
  <2> DEFINE d == dequeue_task(s, t)
  <2>1. t \in Slot
    BY <1>2, <1>5 DEF Task
  <2>2. Disc(d, {t}, n) /\ Unlinked(d, t)
    BY <2>1, DequeueDisc
  <2>3. d.task = s.task
    BY <1>1, <1>2, DequeueFields
  <2>4. r = Dispatch(d)
    BY <1>5 DEF schedule
  <2> HIDE DEF d
  <2>5. Disc(d, {}, n)
    BY <1>5, <2>2, <2>3, DiscShrink
  <2> QED BY <2>4, <2>5, DispatchDisc
<1>6. CASE t # Idle /\ s.task[t].state \notin {"WAITING", "EXITED"}
  <2> DEFINE d == dequeue_task(s, t)
  <2>1. t \in Slot
    BY <1>2, <1>6 DEF Task
  <2>2. Disc(d, {t}, n) /\ Unlinked(d, t) /\ d.task = s.task
    BY <1>1, <1>2, <2>1, DequeueDisc, DequeueFields
  <2>3. s1 \in KernelState /\ s1.task = d.task /\ s1.rq = d.rq /\ s1.cur = t
    BY <1>1, UseSliceType
  <2>4. \/ r = Dispatch(back)
        \/ r = Expire(back, t)
        \/ r = s1
    BY <1>6 DEF schedule
  <2> HIDE DEF d, s1
  <2>5. Disc(s1, {t}, n) /\ Unlinked(s1, t)
    BY <2>2, <2>3, DiscSame DEF Unlinked, On
  <2>6. s1.task[t].in_use /\ s1.task[t].state \in {"RUNNING", "READY"}
    <3>1. s.task[t] \in TaskRecord
      BY <1>1, <1>2 DEF KernelState
    <3>2. s.task[t].state \in TaskState
      BY <3>1 DEF TaskRecord
    <3> QED BY <1>6, <2>2, <2>3, <3>2 DEF TaskState
  <2> HIDE DEF t
  <2>7. /\ Disc(back, {}, n) /\ back.cur = t /\ t # n
        /\ back.task[t].in_use /\ back.task[t].state = "READY"
        /\ \E q \in Queue : Len(back.rq[q]) > 0 /\ back.rq[q][Len(back.rq[q])] = t
    BY <2>1, <2>3, <2>5, <2>6, BackDisc
  <2> HIDE DEF back
  <2>8. CASE r = Dispatch(back)
    BY <2>7, <2>8, DispatchDisc
  <2>9. CASE r = Expire(back, t)
    BY <2>1, <2>7, <2>9, ExpireDisc
  <2>10. CASE r = s1
    BY <2>3, <2>5, <2>6, <2>10 DEF Runnable
  <2> QED BY <2>4, <2>8, <2>9, <2>10
<1> QED BY <1>3, <1>4, <1>5, <1>6

=============================================================================
