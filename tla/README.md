# Specifications of PokuOS-Kernel

TLA+ modules that model the scheduler, processes, memory, files, the console, the shell
and the editor of PokuOS, TLC configurations that check them on small instances, and
TLAPS proofs of the central invariants for every instance. Paths below are relative to
`src/src` of the repository unless they begin with `README.md`.

## The system

PokuOS is a 32-bit kernel for one CPU. What runs, and which module models it:

| Part | Source | Modules |
|---|---|---|
| ready queues, task table | `kernel/task.c` | `Sched`, `Kernel` |
| dispatcher, timer | `kernel/sched.c` | `Sched`, `Kernel` |
| process calls | `kernel/process.c`, `kernel/syscall.c` | `Kernel` (tasks), `Memory` (address spaces), `Files` (descriptors) |
| watchdog, idle loop | `kernel/watchdog.c`, `kernel/kernel.c` | `Kernel`; its spawn again in `Memory` |
| heap | `kernel/heap.c` | `Heap` |
| frames, paging, VM, ELF loader | `kernel/paging.c`, `vm/vm.c`, `kernel/elf.c` | `Memory` |
| exceptions | `kernel/trap.c`, `kernel/idt.c` | `Kernel`, `Memory` |
| VFS, memfs, ramfs | `fs/vfs.c`, `mount.c`, `memfs.c`, `ramfs.c` | `Files` |
| tarfs, page cache, disk | `fs/tarfs.c`, `tar.c`, `page_cache.c`, `driver/ata.c` | `TarFs` |
| keyboard, screen | `driver/keyboard.c`, `driver/vga.c` | `Keyboard`, `Vga` |
| shell | `user/shell.c` | `Shell`, `Terminal` |
| editor | `user/povi/` | `Povi` |

System calls (`int 0x80`) and the timer enter through interrupt gates, so a handler runs
with interrupts off until it switches tasks or returns. The exception is the idle loop,
ordinary kernel code running with interrupts on, which calls `watchdog_check` and through
it `spawn_user_process`. The concurrency of the kernel is therefore: user programs that
make calls in any order, a timer that strikes between any two of their instructions and
between any two steps of the idle loop, `sys_wait`, which gives up the CPU in the middle
of a call, and the keyboard interrupt, which fills the ring that user programs poll.

## Modules

### `Sched` and `Kernel`: tasks and time

`Sched` has the list operations and picking of `task.c` and the dispatcher and charges of
`sched.c` as operators from kernel states to kernel states. `Kernel` is the state machine
over them.

| Variable | Code |
|---|---|
| `k.task[t]` | `tasks[]` and `idle_task` (number 0) |
| `k.rq[q]` | the list `rq_head[q]` .. `rq_tail[q]` as a sequence |
| `k.cur`, `k.slice` | `current_task` and its `timeslice` |
| `tick` | `tick_count`, modulo `TICK_WRAP` |
| `wd` | the one entry of `wd_table`, with `life` for `wd_tick - spawn_tick` |
| `idle.pc`, `idle.new` | where the idle loop is, and the task it is spawning |

`pit_handler` is the handler whole: kill, quota, MLFQ charge, periodic work, `schedule`.
`Fork`, `Exec`, `Exit`, `Wait`, `Kill`, `Yield`, `SetTier`, `TierRequest` are the calls;
`WaitResume` is the next turn of the loop in `sys_wait`. `OutOfMemory` is a call that
fails for want of a frame (`vm_handle_pressure` raises the tier). `Boot`,
`WatchdogCheck`, `SpawnFails` .. `SpawnStamp` and `IdleSchedule` are the idle loop step by
step, and `OtherInterrupt` ends its `hlt`. The kernel is compiled without optimisation, so
`watchdog_check` reads `e->task` from memory each time: `SpawnRecord` (`watchdog.c:142`),
`SpawnTest` (`:143`, with the else branch), `SpawnLoad` and `SpawnMark` (the load and the
store of `:145`) and `SpawnStamp` (`:146`) are steps of their own, and a tick that frees the
new shell may come between any two. Through a pointer that has become NULL the store goes
to the first page, which is mapped and holds no task.

Abstractions. A list is a sequence, which is exact as long as no task is linked twice; no
run looks beyond that point. A pid is the slot that holds it. `timeslice` is kept for the
running task only, since `switch_to_task` reloads it. A call that fails a check returns
without changing task state and is not a step. A user fault kills the task as `exit`
does. Counters are capped where the code stops telling values apart. A list operation of
the idle loop is one step, although interrupts are on.

### `Heap`: boundary tags

`heap.mem` is the memory word by word: a word is a header, a footer or a caller's data.
`kmalloc`, `kmalloc_grows`, `kmalloc_fails` and `kfree` write the tags as the code does,
and the caller fills every word it was given (`Scribble`), so a tag in the wrong place is
lost or seen as damage. `BlockStore` is what the heap promises: a set of disjoint blocks,
each with room for what was asked. Calls are one step; no interrupt handler allocates,
but a task may allocate while the idle loop is inside `kmalloc`, which is not modelled.

### `Memory`: frames and address spaces

`m` has the free list as a count for each frame (so that freeing twice shows),
`ref_count`, the user half of each page directory (page tables and pages), the loaded
`cr3` and whether the kernel halted on a fault of its own. `sys_fork`, `sys_exec`,
`task_exit`, `free_task_slot` and `WriteFault` are one step each, frame by frame inside,
with every point where frames run out. `SpawnStart`, `SpawnLoad`, `SpawnStack`,
`SpawnCreate`, `SpawnCount` and `SpawnDone` are `spawn_user_process` in the idle loop;
`Preempt` and `Resume` may come between any two of them. `KernelTakesFrame` is the heap
or the page cache taking a frame for good. A program is its list of segments, and a
segment the pages it covers; contents of pages are left out.

### `TarFs` and `Files`: from the disk to the caller

A disk is a function from sectors to headers or bytes, and a byte of a file knows its
file and offset, so that a read of the wrong place is seen. `TarFs` has the walk over the
archive, the page cache and `tarfs_read` with readahead. `Files` composes it with the
dentry tree, mounts, `root_path`, memfs and ramfs and the descriptors of two tasks:
`sys_open` (with create and truncate), `sys_read`, `sys_write`, `sys_close`, `sys_ls`,
the reads of exec and spawn (`ReadProgram`), of boot (`BootRead`) and `task_exit`. A
sector the drive fails to read gives `JUNK`, since no status is looked at; frames and
cache slots may run out in the middle of a read. Bytes that nobody wrote are `STALE` (a
frame) or `RAW` (the heap). A lookup over a freed dentry is undefined in C: the model
stops there (`wild`). `FileStore` is what the writable files promise.

### `Keyboard`, `Vga`, `Shell`, `Terminal`: the console

`Keyboard` runs `keyboard_handler` once for each byte of the controller: prefixes,
releases, repeats, both shifts, locks, keypad, and the ring that `getchar` empties;
`KeyFifo` is what the ring promises. The history variable `event` says which character was
handed to `push_to_buffer` or returned by `getchar` last, and flips a bit each time, so
that a push or a read with no effect on the ring is still a step of the queue. `Vga` is the screen with wrap, scroll and backspace.
`Shell` has the algorithms on the command line as operators: history rows, `split`,
completion. `Terminal` composes the three with a person (`Press`, `Repeat`, `Release`)
and with programs that write to the same screen and read the same ring. One step of the
shell is one turn of its reading loop with the echo and, after Enter, the command.
Characters are ASCII codes; every message is one mark and a line break.

### `Povi`: the editor

One action for each kind of key in each mode, with the refresh that follows. `:w` may
fail to open, or fail in any write and leave a prefix; the arena, which only grows, may
run out at any step that allocates (`ArenaFull`). `TextDoc` is what an editor promises.

`MC*` modules hold the constants of the runs and the views. `QueueProofs`, `SchedProofs`,
`RunProofs`, `KernelProofs`, `DisciplineProofs`, `LifecycleProofs` and `KeyboardProofs`
hold the proofs.

## Runs

| Run | Properties | What it shows |
|---|---|---|
| `lifecycle` | `ParentAlive`, `WaiterHasLiveChild`, `WatchdogTaskIsOurs`, `IdleOnlyWhenNothingElse`, `NoResurrection` | fork, exit, wait and kill in any order leave no dangling parent, lost wake-up or dead task that runs; respawning the shell, interrupted anywhere, leaves no stale pointer |
| `mlfq` | `TypeOK`, `QueuesHoldTheReady`, `NoInversionAcrossTick` | every way to change a level or a tier leaves the task on the right list, and inversion lasts one tick |
| `starvation` | `ReadyEventuallyRuns` | one busy SYSTEM task does not starve USER tasks |
| `service` | `QuotaOverrunBounded`, `NoDispatchOverQuota`, `WaitReturns`, `ShellRestartedWhenIdle` | quotas are overrun by two ticks at most; `wait` returns; the shell comes back if the CPU keeps going idle |
| `terminal` | `TypeOK`, `ShiftFollowsHands`, `LocksFollowHands`, `ScreenShowsLine`, `RowsTerminated`, `HistoryKeepsLines`, `ShiftCountsKeys`, `RingIsFifo` | no modifier sticks, no character is lost before the ring is full, each `getchar` returns the oldest, no index leaves its array, the screen shows the line and the history the lines entered |
| `povi` | `CursorInBounds`, `CursorOnScreen`, `CleanMeansSaved`, `EditsAreLocal` | the cursor stays in the text and on the screen, a key changes one character, `:q` loses nothing |
| `heap` | `TagsAgree`, `FreeListExact`, `DataKept`, `AllFreedIsOneBlock`, `TagsImplementBlocks` | tags, list and data agree after any sequence of calls; the heap implements `BlockStore` |
| `memory` | `NoFrameTwice`, `RefCountsMapped`, `EnoughFramesSuffice`, `ExitFreesAll`, `ImageAllOrNothing` | whatever fails where, no frame has two owners, exit frees all, an image is whole |
| `files` | `PositionInBuffer`, `CachedOnceAndWhole`, `ReadReturnsFile`, `ShortOnlyWhenFull`, `HomeIsFileStore` | reads return the bytes of the archive, junk only from a sector that failed, short only for want of cache or memory; memfs implements `FileStore` |

Three runs show where a comment or a document and the code disagree; TLC finds each
violated:

| Run | The text | The code |
|---|---|---|
| `linked_twice` (`NoTaskLinkedTwice`) | `sched.c:117`, `sched.c:152`: no second enqueue, the task was taken off its list | with a task out of quota on the same list and another on a lower one, it was only rotated, and is queued again |
| `spawn_preempted` (`CountsNewSpace`) | `process.c:638`: cr3 still points to the new directory | after a tick the kernel directory is loaded, and the pages counted and protected are not those of the new task |
| `mnt_readonly` (`MntIsReadOnly`) | `README.md:57`: `/mnt` is read-only | creating a file there fails, and leaves a freed dentry in the directory (`vfs.c:322`) |

### Observed without a run

The models also show these; they follow from one or two lines and need no run:

* Exited orphans keep their slots: the comment at `task.c:522` says the idle loop reaps
  them, but `task_reap_orphans` has no caller.
* `sys_yield` costs one tick of the slice and the caller goes on (`task.c:464`);
  `README.md:95` says that it gives up the CPU.
* The shell is restarted by the idle loop only (`kernel.c:217`), so not while another
  program computes; `README.md:18` promises automatic restart.
* A tick during the respawn can make the watchdog spawn again over its only pointer, and
  the slot of the dead shell is never reclaimed, as `task.h:64` says it is.
* Backspace shortens `len` and leaves `cmd` (`shell.c:309`): Enter can run a longer line
  than the one shown. `HistoryKeepsLines` is stated for what holds, a prefix.
* Tab reads a name of more than `CAND_LEN - 1` characters as two names or more
  (`shell.c:124`), and offers the rest of it as a command.
* A tick that frees the new shell between `watchdog.c:142` and `:143` makes the spawn
  count as failed: `spawn_due` is set at once, and the back-off is skipped.
* `:w` without changes that fails in a write leaves the file cut short and the editor
  without the mark of a change, so `:q` leaves (`file_io.cpp:52`).
* fork copies every page at once (`process.c:321`); `README.md:10` and `README.md:90`
  say copy on write. The copying branch of `vm_fault_cow` is never taken
  (`RefCountsMapped`).
* A failed spawn loses the directory and its frames (`process.c:599` to `632`).
* open with `O_TRUNC` on a full descriptor table truncates, then fails (`syscall.c:283`).
* `wait(-1)` blocks on the first child by slot although another has exited.
* A kill delivered on a tick that is due for periodic work skips that work once.

### Bounds

Scheduler: the code has 16 slots, ageing every 300 ticks, quota periods of 1000 and
watchdog ticks every 50. The runs use 2 to 4 slots, so that two tasks compete on one list
while a third is on another, and periods of 1 to 6 ticks, so that all periodic events
meet within a slice in every order. `TICK_WRAP` is the length after which the tick count
repeats. `service` has a limit of one tick in a period of five and two slots. The bound of
two ticks is tight: with one, TLC finds a violation. With three USER tasks and quotas the
dispatcher can link a task twice (`linked_twice`), after which the model says nothing, so
the quota properties are shown for two tasks only. `starvation` has the shell as its one
SYSTEM task: two that never block pass the CPU to each other and do starve USER tasks.

Heap: pages of 8 words, 1 to 3 of them, requests of 1, 3 and 9 words, five live blocks:
enough for a split and none, merges on each side and both, growth onto a free block and
onto a used one, and failure. Sizes near 2^32 are not reached.

Memory: 11 frames and two slots; the shell takes 6 frames (directory, two tables, two
pages, stack) and the other program 5, so two shells do not fit, a shell and the other
program leave no frame, and calls run out of frames at every point.
Page tables have two entries, so that a program needs one or two of them. Limits are none
and 3 pages.

Files: sectors of 2 bytes, pages of 4, a file of 9 (three pages, the last partial, the
last sector padded), a cache of 3 slots (one too few for everything), readahead of 2, one
free descriptor (`FD_MAX` 4), memfs files up to 2 bytes that grow from capacity 1, two
files created, one faulty sector.

Console: a ring of 3, a screen of 4 by 2, so that every line wraps and scrolls, lines of 3
characters, a history of 3 rows, and several sittings, each with the few keys its question
needs: modifiers, typing ahead, keypad, editing, recall from a full history, completion
(one name is longer than `CAND_LEN - 1`), each command, background jobs. Deadlock is not checked where the system may stop: after
power-off, when the lines of a sitting are used up, and when the editor has quit.

Editor: texts of up to 3 characters and line breaks, a screen of 2 rows, three initial
files and none, command lines of up to 2 characters.

Views. `heap` leaves out words that belong to nobody; `memory` which frame is where, as
long as none is used twice; `files` the last answer and the order of cache slots;
`terminal` the empty cells of the ring and `event`. None of these decides what happens next, or
whether a property holds in the state itself; action properties are evaluated on every
step.

### Fairness

* The timer strikes again and again while interrupts are on (`SF_tick(TimerStrikes)`):
  the PIT is periodic, and a tick that finds interrupts off stays pending.
* A task that has the CPU inside `sys_wait` goes on (`WF_vars(WaitResume)`).
* The idle loop goes on if it gets the CPU again and again (`SF_vars(IdleStep)`): it
  resumes where it was preempted, so progress adds up.
* `service` (`RestartSpec`) also assumes that a spawn tried for ever succeeds in the end
  (`SF_vars(SpawnCreate)`): files and memory do not stay unavailable.
* Nothing is assumed of user programs: they may compute for ever.

## Proofs

Six theorems. The first four hold for every number of slots, every period and every set
of calls; their assumptions are `SchedConstants` and `KernelConstants`: positive periods
and counts, and sets of calls, quotas and tiers within the ranges that the code accepts.

* `TypeCorrect` (`KernelProofs`): `Spec => []TypeOK`. It is inductive together with
  `NewSlotKnown`: the idle loop knows the slot it is filling until
  `spawn_user_process` has returned.
* `QueueDiscipline` (`DisciplineProofs`): if no task has a CPU quota, `Spec =>
  [](NoTaskLinkedTwice /\ QueuesHoldTheReady /\ CurrentIsRunnable)`. The hypothesis is
  needed: `linked_twice` is the counterexample with quotas.
* `ParentsLive` (`LifecycleProofs`): without quotas, `Spec => []ParentAlive`.
* `DeadStayDead` (`LifecycleProofs`): without quotas, `Spec => NoResurrection`.
* `ShiftIsCounted` (`KeyboardProofs`): `KeyboardSpec => []ShiftCountsKeys`, for a keyboard
  that sends a break code only after a make code (`Sendable`).
* `RingCorrect` (`KeyboardProofs`): `KeyboardSpec => RingIsFifo`, a refinement: the ring
  of every size above 1 implements `KeyFifo`. The mapping reads the characters from
  `tail` to `head` around the ring. `event` ties the two: a push appends the character
  handed over unless `BUFFER_SIZE - 1` wait, and a read takes and returns the oldest.

The three parts of `QueueDiscipline` need each other. A dequeue removes the right task
only if its recorded queue is the list it is on, and an enqueue keeps the lists disjoint
only if the task was on none. The running task may still be linked, since picking from a
list of several rotates it to the tail; `schedule` therefore dequeues it first, and that
works only because its recorded queue is right although its tier or level may have
changed. The inductive invariant is `TypeOK /\ NewSlotKnown /\ QueueInv`. `QueueInv` says
that, apart from the running task and the slot being spawned, a task is on a list exactly
when it is READY, that it is the list of its tier, level and `cur_queue` (`Disc`), and
that the running task is alive (`Runnable`). `Disc` takes the set of exempt tasks as a
parameter, because inside a handler that set changes with each call; the lemmas of
`SchedProofs`, `RunProofs` and `DisciplineProofs` give its value before and after each
operator, and one step per action puts them together.

The two theorems of `LifecycleProofs` build on that. The invariant is `LifeInv`, the one
above with `ParentAlive`. The dispatcher takes only tasks off lists, which `QueueInv` says
are READY, so `schedule` changes no parent and revives no dead task; `task_exit` disowns
all children in the handler that kills the parent; and only slots of dead tasks are freed.

Only model-checked: the liveness properties (fairness is beyond the prover), the wait and
watchdog invariants, everything with quotas, and the modules `Heap`, `Memory`, `TarFs`,
`Files`, `Terminal` and `Povi`, whose operators fold over sequences of pages, blocks or
characters, so that their proofs need induction over data.

## Not modelled

* Locks (`kernel/locks.c`): no call and no driver takes one; the only users are the two
  threads of the boot self-test. They stay blocked and only take two slots.
* The free list of frames and the free list of the heap taken apart with interrupts on:
  the idle loop inside `spawn_user_process` may be preempted in the middle of a list
  operation. Each such operation is one step here.
* The kernel half of page directories: a kernel page table added by heap growth beyond
  4 MiB is missing in directories made before.
* Capabilities: they decide which calls return an error, and a run enumerates the calls.
* The write of `bdev_selftest` (`kernel.c:63`) to sector 8190 before anything is mounted: a
  disk of the model is what it leaves.
* Deferred writes, `task_reap_orphans`, `vm_release_pressure`, `vm_object_*`,
  `tar_find_entry`, `vfs_readdir`, `vfs_mount_root` and `init_start`: no callers.
* Port I/O (ATA commands, serial), the boot sector, register dumps, the demo programs and
  the string library. `PROJECT.json` lists each part with the reason.
