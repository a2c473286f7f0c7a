------------------------------ MODULE MCMemory ------------------------------
(***************************************************************************)
(* An instance of module Memory for the model checker.  Which frame is     *)
(* where does not matter as long as none is in two places, only what is    *)
(* mapped where and how many frames are free: states that differ in        *)
(* nothing else count as one.  Neither does what a call returned, nor the  *)
(* number of pages charged, which is only reported, nor the directory that *)
(* is loaded between two steps of tasks, that load their own.              *)
(***************************************************************************)
EXTENDS Memory

Prog(valid, segments) == [valid |-> valid, segments |-> segments]

\* Two pages, in two segments that share the first; one page; a file that is
\* no program.
SomePrograms ==
    <<Prog(TRUE, <<<<0>>, <<0, 1>>>>), Prog(TRUE, <<<<1>>>>), Prog(FALSE, << >>)>>

Limits == {0, 3}
Frames == 1 .. 11
Slots == 1 .. 2

Shape(d) ==
    IF d \notin DOMAIN m.space THEN << >>
    ELSE <<{i \in Table : m.space[d].tables[i] # NONE},
           [p \in {q \in Page : m.space[d].pages[q].frame # NONE} |->
                <<m.space[d].pages[p].rw, m.ref_count[m.space[d].pages[p].frame]>>]>>

Loaded == IF ~idle.on_cpu THEN "task" ELSE IF m.cr3 = KERNEL THEN "kernel" ELSE "new"

View ==
    <<[t \in Slot |-> <<[task[t] EXCEPT !.cr3 = NONE, !.pages_charged = 0], Shape(task[t].cr3)>>],
      [idle EXCEPT !.pd = NONE], Shape(idle.pd), Shape(KERNEL), Loaded, m.halted,
      {f \in Frame : Uses(f) > 1} # {},
      Cardinality(FreeFrames(m)), Cardinality(kernel_frames)>>
=============================================================================
