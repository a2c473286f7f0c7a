------------------------------- MODULE Memory -------------------------------
(***************************************************************************)
(* Physical frames and address spaces: the free list and the page tables   *)
(* of kernel/paging.c, page faults (vm/vm.c), the loader (kernel/elf.c),   *)
(* and fork, exec, exit and spawn (kernel/process.c).                      *)
(*                                                                         *)
(* Only the user half of a page directory is modelled.  A directory is     *)
(* named by its frame; KERNEL is the static page_directory.  System calls, *)
(* faults and exits run with interrupts off and are one step.  The         *)
(* watchdog calls spawn_user_process from the idle loop with interrupts    *)
(* on, so spawn is a step for each call that it makes, and a tick may take *)
(* the CPU away in between.                                                *)
(***************************************************************************)
EXTENDS Integers, Sequences, FiniteSets, FiniteSetsExt, SequencesExt

CONSTANTS
    Frame,            \* the frames managed by the free list (numbers above 0)
    Slot,             \* task slots
    TABLE_SIZE,       \* pages that a page table maps, 1024 in the code
    LAST_PAGE,        \* highest user page, the stack
    Programs,         \* files that can be executed, a sequence; the first is the shell
    MEM_LIMITS,       \* limits that fork is asked for, in pages; 0 is none
    MAX_KERNEL_FRAMES \* bound: frames taken by the heap and the page cache

KERNEL == 0
NONE == 0

Page == 0 .. LAST_PAGE
USER_STACK == LAST_PAGE
TableOf(p) == p \div TABLE_SIZE
Table == {TableOf(p) : p \in Page}

NoPage == [frame |-> NONE, rw |-> FALSE]
EmptySpace == [tables |-> [i \in Table |-> NONE], pages |-> [p \in Page |-> NoPage]]

VARIABLES
    m,      \* [freeq, ref_count, space, cr3, ret, halted]
    task,   \* [Slot -> task]
    idle,   \* the spawn in progress
    kernel_frames

vars == <<m, task, idle, kernel_frames>>

FreeTask == [state |-> "free", cr3 |-> KERNEL, map |-> FALSE, mem_limit |-> 0,
             pages_charged |-> 0]

-----------------------------------------------------------------------------
(* paging.c.  freeq counts how often a frame is on the free list; ret is   *)
(* the value that the last call returned.                                  *)

FreeFrames(mm) == {f \in Frame : mm.freeq[f] > 0}

_alloc_phys_page(mm) ==
    IF FreeFrames(mm) = {} THEN [mm EXCEPT !.ret = NONE]
    ELSE LET f == Min(FreeFrames(mm)) IN [mm EXCEPT !.freeq[f] = @ - 1, !.ret = f]

\* Mutant: the frame is not counted.
alloc_page_frame_uncounted(mm) == _alloc_phys_page(mm)

alloc_page_frame(mm) ==
    LET got == _alloc_phys_page(mm)
    IN  IF got.ret = NONE THEN got ELSE [got EXCEPT !.ref_count[got.ret] = 1]

free_page_frame(mm, f) ==
    LET r == IF mm.ref_count[f] > 0 THEN mm.ref_count[f] - 1 ELSE 0
    IN  [mm EXCEPT !.ref_count[f] = r, !.freeq[f] = IF r > 0 THEN @ ELSE @ + 1]

Pte(mm, p) == mm.space[mm.cr3].pages[p]
page_present(mm, p) == Pte(mm, p).frame # NONE
UserPages(mm) == {p \in Page : page_present(mm, p)}

\* Without a frame for the page table nothing is mapped, and the caller is not told.
map_page(mm, p, f, rw) ==
    LET i    == TableOf(p)
        got  == IF mm.space[mm.cr3].tables[i] = NONE
                THEN _alloc_phys_page(mm) ELSE [mm EXCEPT !.ret = mm.space[mm.cr3].tables[i]]
    IN  IF got.ret = NONE THEN got
        ELSE [got EXCEPT !.space[mm.cr3].tables[i] = got.ret,
                         !.space[mm.cr3].pages[p] = [frame |-> f, rw |-> rw]]

load_cr3(mm, d) == [mm EXCEPT !.cr3 = d]

\* Mutant: the entries of the user half are copied too.
paging_create_task_pd_copies_all(mm) ==
    LET got == alloc_page_frame(mm)
    IN  IF got.ret = NONE THEN got
        ELSE [got EXCEPT !.space = [d \in DOMAIN @ \cup {got.ret} |->
                                        IF d = got.ret THEN @[mm.cr3] ELSE @[d]]]

paging_create_task_pd(mm) ==
    LET got == alloc_page_frame(mm)
    IN  IF got.ret = NONE THEN got
        ELSE [got EXCEPT !.space = [d \in DOMAIN @ \cup {got.ret} |->
                                        IF d = got.ret THEN EmptySpace ELSE @[d]]]

-----------------------------------------------------------------------------
(* process.c and elf.c *)

FreeAll(mm, frames) == FoldSet(LAMBDA f, acc : free_page_frame(acc, f), mm, frames \ {NONE})

\* Mutant: the page tables are not freed.
teardown_current_pd_keeps_tables(mm, d, target) ==
    LET s  == mm.space[mm.cr3]
        m1 == FreeAll(mm, {s.pages[p].frame : p \in Page})
        m2 == [m1 EXCEPT !.space[mm.cr3].pages = EmptySpace.pages,
                         !.space[mm.cr3].tables = EmptySpace.tables]
        m3 == free_page_frame(load_cr3(m2, target), d)
    IN  [m3 EXCEPT !.space = [e \in DOMAIN @ \ {d} |-> @[e]]]

\* The user half of the current directory is freed; then the frame of d.
teardown_current_pd(mm, d, target) ==
    LET s  == mm.space[mm.cr3]
        m1 == FreeAll(FreeAll(mm, {s.pages[p].frame : p \in Page}), {s.tables[i] : i \in Table})
        m2 == [m1 EXCEPT !.space[mm.cr3] = EmptySpace]
        m3 == free_page_frame(load_cr3(m2, target), d)
    IN  [m3 EXCEPT !.space = [e \in DOMAIN @ \ {d} |-> @[e]]]

\* One page: a new frame, mapped writable.  ret is 0 if there is no frame.
AddPage(mm, p) ==
    LET got == alloc_page_frame(mm)
    IN  IF got.ret = NONE THEN got
        ELSE [map_page(got, p, got.ret, TRUE) EXCEPT !.ret = got.ret]

\* The pages of a sequence in turn, until there is no frame for one.
AddPages(mm, pages) ==
    LET add[i \in 0 .. Len(pages)] ==
            IF i = 0 THEN [mm EXCEPT !.ret = KERNEL + 1]
            ELSE LET before == add[i - 1]
                 IN  IF before.ret = NONE \/ page_present(before, pages[i]) THEN before
                     ELSE AddPage(before, pages[i])
    IN  add[Len(pages)]

\* A segment is copied to its pages once all are mapped; the kernel faults, and
\* halts, if one is not.
LoadSegment(mm, pages) ==
    LET got == AddPages(mm, pages)
    IN  IF got.ret = NONE \/ \A i \in 1 .. Len(pages) : page_present(got, pages[i]) THEN got
        ELSE [got EXCEPT !.halted = TRUE]

\* Mutant: only the first segment is loaded.
elf_load_first_segment(mm, prog) ==
    IF prog.valid THEN LoadSegment(mm, prog.segments[1]) ELSE [mm EXCEPT !.ret = NONE]

elf_load(mm, prog) ==
    LET load[i \in 0 .. Len(prog.segments)] ==
            IF i = 0 THEN [mm EXCEPT !.ret = IF prog.valid THEN KERNEL + 1 ELSE NONE]
            ELSE LET before == load[i - 1]
                 IN  IF before.ret = NONE \/ before.halted THEN before
                     ELSE LoadSegment(before, prog.segments[i])
    IN  load[Len(prog.segments)]

count_user_pages(mm) == Cardinality(UserPages(mm))

\* A write to the new stack halts the kernel if the stack could not be mapped.
WriteStack(mm) == IF page_present(mm, USER_STACK) THEN mm ELSE [mm EXCEPT !.halted = TRUE]

\* vm_protect_readonly: what was mapped is written again after a fault.
vm_protect_readonly(mm) ==
    LET old == mm.space[mm.cr3].pages
        mapped == {old[p].frame : p \in UserPages(mm)}
    IN  [mm EXCEPT !.space[mm.cr3].pages = [p \in Page |-> [old[p] EXCEPT !.rw = FALSE]],
                   !.ref_count = [f \in Frame |-> IF f \in mapped THEN 1 ELSE @[f]]]

-----------------------------------------------------------------------------
(* What running tasks do *)

Free(t) == task[t].state = "free"
Alive(t) == task[t].state = "alive"

\* The task has the CPU: its directory is loaded.
Running(t) == Alive(t) /\ ~idle.on_cpu /\ ~m.halted

On(t) == load_cr3(m, task[t].cr3)

\* Mutant: the last page is left out.
UserPageSeq_but_last(mm) == Front(SetToSortSeq(UserPages(mm), <))

UserPageSeq(mm) == SetToSortSeq(UserPages(mm), <)

\* sys_fork copies every page of the parent, or fails and takes everything back.
sys_fork(t, limit) ==
    LET npages == count_user_pages(On(t))
        child  == Min({c \in Slot : Free(c)})
        own    == task[t].mem_limit
        lim    == IF limit = 0 \/ (own > 0 /\ limit > own) THEN own ELSE limit
        pd     == paging_create_task_pd(On(t))
        copied == AddPages(load_cr3(pd, pd.ret), UserPageSeq(On(t)))
    IN  /\ Running(t) /\ \E c \in Slot : Free(c)
        /\ UNCHANGED <<idle, kernel_frames>>
        /\ IF (lim > 0 /\ npages > lim) \/ pd.ret = NONE
           THEN m' = [On(t) EXCEPT !.ret = NONE] /\ UNCHANGED task
           ELSE IF copied.ret = NONE
           THEN m' = teardown_current_pd(copied, pd.ret, task[t].cr3) /\ UNCHANGED task
           ELSE /\ m' = load_cr3(copied, task[t].cr3)
                /\ task' = [task EXCEPT ![child] =
                        [state |-> "alive", cr3 |-> pd.ret, map |-> FALSE, mem_limit |-> lim,
                         pages_charged |-> npages]]

\* The new image is complete before the old one goes; otherwise it is taken back.
NewImage(mm, old, new, prog) ==
    LET loaded == elf_load(load_cr3(mm, new), prog)
        stack  == AddPage(loaded, USER_STACK)
    IN  IF loaded.halted THEN loaded
        ELSE IF loaded.ret = NONE \/ stack.ret = NONE
        THEN [teardown_current_pd(IF loaded.ret = NONE THEN loaded ELSE stack, new, old) EXCEPT !.ret = NONE]
        ELSE load_cr3(WriteStack(load_cr3(teardown_current_pd(load_cr3(stack, old), old, KERNEL), new)), new)

sys_exec(t, prog) ==
    LET pd  == paging_create_task_pd(On(t))
        new == NewImage(pd, task[t].cr3, pd.ret, prog)
    IN  /\ Running(t)
        /\ UNCHANGED <<idle, kernel_frames>>
        /\ IF pd.ret = NONE THEN m' = pd /\ UNCHANGED task
           ELSE /\ m' = new
                /\ task' = IF new.ret = NONE THEN task
                           ELSE [task EXCEPT ![t].cr3 = pd.ret, ![t].map = FALSE,
                                             ![t].pages_charged = count_user_pages(new)]

\* task_exit, as far as it concerns memory.
Exited(t) ==
    /\ m' = teardown_current_pd(On(t), task[t].cr3, KERNEL)
    /\ task' = [task EXCEPT ![t].state = "exited", ![t].pages_charged = 0]

task_exit(t) == Running(t) /\ Exited(t) /\ UNCHANGED <<idle, kernel_frames>>

\* sys_wait, or the watchdog, frees the slot of an exited task.
free_task_slot(t) ==
    /\ task[t].state = "exited" /\ ~m.halted
    /\ task' = [task EXCEPT ![t] = FreeTask]
    /\ UNCHANGED <<m, idle, kernel_frames>>

\* vm_fault_cow on a page that is present and read-only: the last user of the frame
\* writes to it, any other to a copy.
vm_fault_cow(mm, p) ==
    LET old == Pte(mm, p).frame
        got == alloc_page_frame(mm)
    IN  IF mm.ref_count[old] = 1
        THEN [mm EXCEPT !.space[mm.cr3].pages[p].rw = TRUE, !.ret = KERNEL + 1]
        ELSE IF got.ret = NONE THEN got
        ELSE [free_page_frame(got, old) EXCEPT !.space[mm.cr3].pages[p] = [frame |-> got.ret, rw |-> TRUE]]

\* A write that page_fault_handler resolves, and one that kills the task.
WriteFault(t, p) ==
    /\ Running(t) /\ page_present(On(t), p) /\ ~Pte(On(t), p).rw
    /\ LET after == vm_fault_cow(On(t), p)
       IN  IF task[t].map /\ after.ret # NONE
           THEN m' = after /\ UNCHANGED task
           ELSE Exited(t)
    /\ UNCHANGED <<idle, kernel_frames>>

\* The heap grows or the page cache takes a frame for good.
KernelTakesFrame ==
    LET got == alloc_page_frame(m)
    IN  /\ Cardinality(kernel_frames) < MAX_KERNEL_FRAMES
        /\ ~idle.on_cpu /\ ~m.halted /\ got.ret # NONE
        /\ m' = got /\ kernel_frames' = kernel_frames \cup {got.ret}
        /\ UNCHANGED <<task, idle>>

-----------------------------------------------------------------------------
(* spawn_user_process in the idle loop *)

NoSpawn == [pc |-> "none", pd |-> NONE, on_cpu |-> FALSE]
SHELL == 1

Spawning(pc) == idle.pc = pc /\ idle.on_cpu /\ ~m.halted

\* A failure leaves what was built where it is.
SpawnFails(mm) ==
    /\ m' = load_cr3(mm, KERNEL)
    /\ idle' = NoSpawn
    /\ UNCHANGED <<task, kernel_frames>>

SpawnStart ==
    /\ idle.pc = "none" /\ ~m.halted
    /\ LET pd == paging_create_task_pd(load_cr3(m, KERNEL))
       IN  IF pd.ret = NONE THEN SpawnFails(pd)
           ELSE /\ m' = load_cr3(pd, pd.ret)
                /\ idle' = [pc |-> "load", pd |-> pd.ret, on_cpu |-> TRUE]
                /\ UNCHANGED <<task, kernel_frames>>

Continue(pc, mm) ==
    /\ m' = mm
    /\ idle' = [idle EXCEPT !.pc = pc]
    /\ UNCHANGED kernel_frames

SpawnLoad ==
    LET loaded == elf_load(m, Programs[SHELL])
    IN  /\ Spawning("load")
        /\ IF loaded.ret = NONE THEN SpawnFails(loaded)
           ELSE Continue("stack", loaded) /\ UNCHANGED task

SpawnStack ==
    LET stack == AddPage(m, USER_STACK)
    IN  /\ Spawning("stack")
        /\ IF stack.ret = NONE THEN SpawnFails(stack)
           ELSE Continue("create", WriteStack(stack)) /\ UNCHANGED task

SpawnCreate ==
    /\ Spawning("create")
    /\ IF \A c \in Slot : ~Free(c) THEN SpawnFails(m)
       ELSE /\ Continue("count", m)
            /\ task' = [task EXCEPT ![Min({c \in Slot : Free(c)})] =
                            [FreeTask EXCEPT !.state = "new"]]

New == CHOOSE t \in Slot : task[t].state = "new"

\* vm_map_create may find no memory; the pages stay writable then.
SpawnCount ==
    /\ Spawning("count")
    /\ \E map \in BOOLEAN :
         /\ Continue("done", IF map THEN vm_protect_readonly(m) ELSE m)
         /\ task' = [task EXCEPT ![New].map = map, ![New].pages_charged = count_user_pages(m)]

SpawnDone ==
    /\ Spawning("done")
    /\ m' = load_cr3(m, KERNEL)
    /\ task' = [task EXCEPT ![New].cr3 = idle.pd, ![New].state = "alive"]
    /\ idle' = NoSpawn
    /\ UNCHANGED kernel_frames

\* A tick gives the CPU to a task that has become ready ...
Preempt ==
    /\ idle.on_cpu /\ ~m.halted /\ \E t \in Slot : Alive(t)
    /\ idle' = [idle EXCEPT !.on_cpu = FALSE]
    /\ UNCHANGED <<m, task, kernel_frames>>

\* ... and switch_to_task comes back to the idle task with the idle task's cr3.
Resume ==
    /\ idle.pc # "none" /\ ~idle.on_cpu /\ ~m.halted
    /\ idle' = [idle EXCEPT !.on_cpu = TRUE]
    /\ m' = load_cr3(m, KERNEL)
    /\ UNCHANGED <<task, kernel_frames>>

\* exception_trap in kernel mode halts for ever.
Halted == m.halted /\ UNCHANGED vars

-----------------------------------------------------------------------------

Init ==
    /\ m = [freeq |-> [f \in Frame |-> 1], ref_count |-> [f \in Frame |-> 0],
            space |-> [d \in {KERNEL} |-> EmptySpace], cr3 |-> KERNEL, ret |-> NONE,
            halted |-> FALSE]
    /\ task = [t \in Slot |-> FreeTask]
    /\ idle = NoSpawn
    /\ kernel_frames = {}

TaskStep(t) ==
    \/ \E limit \in MEM_LIMITS : sys_fork(t, limit)
    \/ \E n \in DOMAIN Programs : sys_exec(t, Programs[n])
    \/ task_exit(t)
    \/ free_task_slot(t)
    \/ \E p \in Page : WriteFault(t, p)

Next ==
    \/ \E t \in Slot : TaskStep(t)
    \/ KernelTakesFrame
    \/ SpawnStart \/ SpawnLoad \/ SpawnStack \/ SpawnCreate \/ SpawnCount \/ SpawnDone
    \/ Preempt \/ Resume \/ Halted

Spec == Init /\ [][Next]_vars

-----------------------------------------------------------------------------
(* Properties *)

Mapped(f) == {<<d, p>> \in (DOMAIN m.space) \X Page : m.space[d].pages[p].frame = f}
AsTable(f) == {<<d, i>> \in (DOMAIN m.space) \X Table : m.space[d].tables[i] = f}

\* The number of places that a frame is in.
Uses(f) ==
    m.freeq[f] + Cardinality(Mapped(f)) + Cardinality(AsTable(f))
        + Cardinality({f} \cap DOMAIN m.space) + Cardinality({f} \cap kernel_frames)

\* No frame is in two places: on the free list twice or while it is in use, mapped by
\* two tasks, or a page of one and a table of another.
NoFrameTwice == \A f \in Frame : Uses(f) <= 1

\* The reference count of a mapped frame is one, so that exit frees it and a write
\* fault never copies it; a free frame has none.
RefCountsMapped ==
    \A f \in Frame :
        /\ Mapped(f) # {} => m.ref_count[f] = 1
        /\ m.freeq[f] > 0 => m.ref_count[f] = 0

Lost == {f \in Frame : Uses(f) = 0}

\* Directory, tables and pages of an image.
FramesFor(pages) == 1 + Cardinality(pages) + Cardinality({TableOf(p) : p \in pages})

Image(n) == {USER_STACK} \cup UNION {Range(s) : s \in Range(Programs[n].segments)}

PagesOf(mm, d) == {p \in Page : mm.space[d].pages[p].frame # NONE}
FramesOf(mm, d) == {d} \cup {f \in Frame : \E p \in Page : mm.space[d].pages[p].frame = f}
                       \cup {f \in Frame : \E i \in Table : mm.space[d].tables[i] = f}

Plenty == \A n \in DOMAIN Programs : Cardinality(FreeFrames(m)) >= FramesFor(Image(n))

\* As long as there are frames for one more image, no system call loses a frame or
\* halts the kernel, and the child of a fork has every page of its parent.  (With
\* fewer, map_page may fail unnoticed.)
EnoughFramesSuffice ==
    [][Plenty /\ ~idle.on_cpu /\ ~idle'.on_cpu =>
         /\ Lost' = Lost
         /\ ~m'.halted
         /\ \A c \in Slot : Free(c) /\ Alive(c)' => PagesOf(m', task'[c].cr3) = UserPages(m')]_vars

\* exit gives back everything: exactly the task's frames become free.
ExitFreesAll ==
    [][\A t \in Slot : Alive(t) /\ ~Alive(t)' =>
         FreeFrames(m') = FreeFrames(m) \cup FramesOf(m, task[t].cr3)]_vars

\* exec gives the caller the whole new program with its stack or leaves it the old one,
\* and nothing that another task does changes what is mapped.
ImageAllOrNothing ==
    [][\A t \in Slot : Alive(t) /\ Alive(t)' /\ ~m'.halted =>
         \/ FramesOf(m', task'[t].cr3) = FramesOf(m, task[t].cr3)
         \/ \E n \in DOMAIN Programs : PagesOf(m', task'[t].cr3) = Image(n)]_vars

\* "cr3 still points to task_pd" when spawn counts and protects the user pages of the
\* new address space (process.c:638).
CountsNewSpace == Spawning("count") => m.cr3 = idle.pd

=============================================================================
