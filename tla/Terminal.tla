------------------------------ MODULE Terminal ------------------------------
(***************************************************************************)
(* A person at the console: key presses become bytes on the wire, each     *)
(* byte interrupts the CPU (Keyboard), the shell polls getchar, edits the  *)
(* line, echoes it (Shell, Vga) and runs it, and other programs write to   *)
(* the same screen and read the same ring.  One step of the shell is one   *)
(* turn of the reading loop of main, with the echo and, after Enter, the   *)
(* command.                                                                *)
(***************************************************************************)
EXTENDS Keyboard, Shell

CONSTANTS
    Setups,        \* who sits there, a set of records: the keys in use, how many are
                   \* held at a time, the characters typed ahead, the commands entered,
                   \* the builtin commands, the lines entered before
    MAX_KIDS       \* bound on the background programs of the shell

VARIABLES
    setup,         \* the element of Setups of this behaviour
    held,          \* keys held down
    pressed,       \* presses of the lock keys so far, modulo 2: <<caps, num>>
    wire,          \* bytes the controller has still to deliver
    pc,            \* "edit", "fg" and "wait" in sys_wait, "dead", "off"
    cmd, len, hist_pos,
    history, hist_count,
    screen,
    jobs, zombies, \* background programs that run, and that have exited
    orphans,       \* programs whose shell has exited before them
    lines,         \* commands entered since the shell started
    entered,       \* what the rows of history were entered as
    clean          \* nobody else has written to the screen since the prompt

human == <<setup, held, pressed, wire>>
shell == <<pc, cmd, len, hist_pos, history, hist_count, screen, jobs, zombies,
           orphans, lines, entered, clean>>
vars  == <<keyboard, human, shell>>

-----------------------------------------------------------------------------
(* The keyboard as hardware: scan code set 1 *)

Extended(k) == k >= 256           \* key 256 + c sends c after the prefix 0xE0

\* While a shift key is held an extended key is wrapped in a fake release and
\* a fake press of it.
FakeUp == IF held \cap ShiftKeys = {} THEN << >> ELSE <<224, 42 + 128>>
FakeDown == IF held \cap ShiftKeys = {} THEN << >> ELSE <<224, 42>>

Make(k) == IF Extended(k) THEN FakeUp \o <<224, k - 256>> ELSE <<k>>
Break(k) == IF Extended(k) THEN <<224, k - 256 + 128>> \o FakeDown ELSE <<k + 128>>

Toggled(k) == <<IF k = CapsKey THEN 1 - pressed[1] ELSE pressed[1],
                IF k = NumLockKey THEN 1 - pressed[2] ELSE pressed[2]>>

Press(k) ==
    /\ wire = << >> /\ k \notin held
    /\ Cardinality(held) < setup.held /\ Waiting <= setup.ahead
    /\ held' = held \cup {k} /\ wire' = Make(k) /\ pressed' = Toggled(k)
    /\ UNCHANGED <<setup, keyboard, shell>>

\* A key that stays down sends its make code again.
Repeat(k) ==
    /\ wire = << >> /\ k \in held /\ Waiting <= setup.ahead
    /\ wire' = Make(k)
    /\ UNCHANGED <<setup, held, pressed, keyboard, shell>>

Release(k) ==
    /\ wire = << >> /\ k \in held
    /\ held' = held \ {k} /\ wire' = Break(k)
    /\ UNCHANGED <<setup, pressed, keyboard, shell>>

Interrupt ==
    /\ wire # << >>
    /\ keyboard_handler(Head(wire)) /\ wire' = Tail(wire)
    /\ UNCHANGED <<setup, held, pressed, shell>>

-----------------------------------------------------------------------------
(* The line editor of main *)

\* The prompt and an empty line, on screen s.
PromptOn(s) ==
    /\ screen' = vga_write(s, PROMPT)
    /\ pc' = "edit" /\ cmd' = << >> /\ len' = 0 /\ clean' = TRUE

\* The shell reads character c, and is inside the reading loop.
Reads(c) == pc = "edit" /\ CharRead = c /\ c # 0 /\ getchar

\* The edit leaves text in cmd with n characters in the line, and shows out.
Edits(text, n, out) ==
    /\ cmd' = text /\ len' = n /\ screen' = vga_write(screen, out)
    /\ UNCHANGED <<human, pc, history, hist_count, jobs, zombies, orphans, lines, entered, clean>>

Backspaces(n) == [i \in 1 .. n |-> BS]

\* Mutant: a recall does not wipe the line it replaces.
Recall_no_wipe(c) ==
    LET pos == IF c = KEY_UP THEN hist_pos - 1 ELSE hist_pos + 1
        row == RowText(history[pos])
    IN  /\ c \in {KEY_UP, KEY_DOWN} /\ Reads(c)
        /\ IF pos < 0 \/ pos >= hist_count
           THEN hist_pos' = hist_pos /\ Edits(cmd, len, << >>)
           ELSE hist_pos' = pos /\ Edits(row, Len(row), row)

Recall(c) ==
    LET pos == IF c = KEY_UP THEN hist_pos - 1 ELSE hist_pos + 1
        row == RowText(history[pos])
    IN  /\ c \in {KEY_UP, KEY_DOWN} /\ Reads(c)
        /\ IF pos < 0 \/ pos >= hist_count
           THEN hist_pos' = hist_pos /\ Edits(cmd, len, << >>)
           ELSE hist_pos' = pos /\ Edits(row, Len(row), Backspaces(len) \o row)

\* The character stays in cmd: only len moves back.
Backspace ==
    /\ Reads(BS) /\ hist_pos' = hist_pos
    /\ IF len > 0 THEN Edits(cmd, len - 1, <<BS>>) ELSE Edits(cmd, len, << >>)

Complete ==
    LET line  == Line(cmd, len)
        cands == Candidates(line, setup.builtin_cmds)
        more  == Completion(line, cands)
    IN  /\ Reads(TAB) /\ hist_pos' = hist_pos
        /\ IF cands = << >> THEN Edits(cmd, len, << >>)
           ELSE IF IsListed(line, cands) THEN Edits(cmd, len, Listing(line, cands))
           ELSE Edits(line \o more, len + Len(more), more)

Ignored == {KEY_HOME, KEY_END, KEY_PGUP, KEY_PGDN, KEY_INS, KEY_DEL}

\* Mutant: the line may fill the buffer and leave no room for the NUL.
Insert_off_by_one(c) ==
    /\ c \notin {NL, KEY_UP, KEY_DOWN, BS, TAB} /\ Reads(c) /\ hist_pos' = hist_pos
    /\ IF c \notin Ignored /\ len < CMD_MAX
       THEN Edits(Append(Line(cmd, len), c), len + 1, <<c>>)
       ELSE Edits(cmd, len, << >>)

Insert(c) ==
    /\ c \notin {NL, KEY_UP, KEY_DOWN, BS, TAB} /\ Reads(c) /\ hist_pos' = hist_pos
    /\ IF c \notin Ignored /\ len < CMD_MAX - 1
       THEN Edits(Append(Line(cmd, len), c), len + 1, <<c>>)
       ELSE Edits(cmd, len, << >>)

-----------------------------------------------------------------------------
(* Enter, and the commands *)

\* A message of the shell or of a program, whatever it says.
SayLine == <<42, NL>>

LastOf(s, n) == SubSeq(s, Max({1, Len(s) - n + 1}), Len(s))

\* The line goes into the history, unless it is empty.
Remember ==
    LET rows == ShiftRows(history, hist_count)
    IN  IF len = 0 THEN UNCHANGED <<history, hist_count, entered>>
        ELSE /\ history' = [rows[1] EXCEPT ![rows[2]] = CopyRow(@, cmd, len)]
             /\ hist_count' = rows[2] + 1
             /\ entered' = LastOf(Append(entered, Line(cmd, len)), HIST_MAX)

\* The words of the command that Enter runs, none for an empty line.
Argv == IF len = 0 THEN << >> ELSE split(cmd, 4)

\* The kind of command that the words name.
CommandOf(argv) ==
    LET w == Words(argv)
    IN  IF w = << >> THEN "none"
        ELSE IF w[1] \in DOMAIN setup.builtin THEN setup.builtin[w[1]]
        ELSE "program"

Submits(kind) ==
    /\ Reads(NL) /\ kind = CommandOf(Argv)
    /\ lines < setup.lines /\ lines' = lines + 1
    /\ Remember
    /\ hist_pos' = hist_count'
    /\ UNCHANGED human

\* Screen after the line break that Enter shows.
AfterEnter == vga_write(screen, <<NL>>)

\* Nothing to do, or help, tier and mlfq, which print one line.
RunNothing ==
    /\ Submits("none") /\ PromptOn(AfterEnter) /\ UNCHANGED <<jobs, zombies, orphans>>

RunPrint ==
    /\ \E kind \in {"help", "tier", "mlfq"} : Submits(kind)
    /\ PromptOn(vga_write(AfterEnter, SayLine)) /\ UNCHANGED <<jobs, zombies, orphans>>

\* A directory as the shell prints it: an error, "(empty)", or its names.
Shown(dir) ==
    {SayLine} \cup (IF dir.names = << >> THEN {}
                    ELSE {FlattenSeq([k \in 1 .. Len(dir.names) |-> Append(dir.names[k], NL)])})

\* One named directory, or the two of Dirs under a heading each.
RunLs ==
    /\ Submits("ls")
    /\ IF Len(Words(Argv)) > 1
       THEN \E i \in 1 .. Len(Dirs) : \E out \in Shown(Dirs[i]) :
                PromptOn(vga_write(AfterEnter, out))
       ELSE \E home \in Shown(Dirs[2]), mnt \in Shown(Dirs[1]) :
                PromptOn(vga_write(AfterEnter, SayLine \o home \o SayLine \o mnt))
    /\ UNCHANGED <<jobs, zombies, orphans>>

RunClear == Submits("clear") /\ PromptOn(vga_clear) /\ UNCHANGED <<jobs, zombies, orphans>>

\* sys_reboot and sys_poweroff do not return.
RunStop ==
    /\ \E kind \in {"reboot", "poweroff"} : Submits(kind)
    /\ pc' = "off" /\ screen' = vga_write(AfterEnter, SayLine)
    /\ UNCHANGED <<cmd, len, jobs, zombies, orphans, clean>>

\* The children lose their parent, and go on.
RunExit ==
    /\ Submits("exit") /\ pc' = "dead" /\ screen' = vga_write(AfterEnter, SayLine)
    /\ orphans' = orphans + jobs /\ jobs' = 0 /\ zombies' = 0
    /\ UNCHANGED <<cmd, len, clean>>

\* sys_wait(-1) looks at the first child of the task table, which has exited or
\* runs; a child that has exited may stand behind one that runs.
RunWait ==
    /\ Submits("wait")
    /\ \/ /\ zombies > 0 /\ zombies' = zombies - 1
          /\ PromptOn(vga_write(AfterEnter, SayLine)) /\ UNCHANGED <<jobs, orphans>>
       \/ /\ zombies + jobs = 0
          /\ PromptOn(vga_write(AfterEnter, SayLine)) /\ UNCHANGED <<jobs, zombies, orphans>>
       \/ /\ jobs > 0 /\ pc' = "wait" /\ screen' = AfterEnter
          /\ UNCHANGED <<cmd, len, jobs, zombies, orphans, clean>>

\* fork fails, or the child execs the program while the shell goes on or waits.
RunProgram ==
    /\ Submits("program")
    /\ \/ PromptOn(vga_write(AfterEnter, SayLine)) /\ UNCHANGED <<jobs, zombies, orphans>>
       \/ /\ Background(Argv) /\ jobs + zombies < MAX_KIDS
          /\ PromptOn(vga_write(AfterEnter, SayLine))
          /\ jobs' = jobs + 1 /\ UNCHANGED <<zombies, orphans>>
       \/ /\ ~Background(Argv)
          /\ pc' = "fg" /\ screen' = AfterEnter
          /\ UNCHANGED <<cmd, len, jobs, zombies, orphans, clean>>

-----------------------------------------------------------------------------
(* The other programs *)

\* A foreground or background program writes: output of its own or the error
\* of an exec that failed, with and without the suffix .elf.
ProgramWrites ==
    /\ pc = "fg" \/ jobs + orphans > 0
    /\ screen' = vga_write(screen, SayLine) /\ clean' = FALSE
    /\ UNCHANGED <<keyboard, human, pc, cmd, len, hist_pos, history, hist_count, jobs, zombies,
                   orphans, lines, entered>>

\* A program reads a character the shell might have read.
ProgramReads ==
    /\ pc = "fg" \/ jobs + orphans > 0
    /\ CharRead # 0 /\ getchar /\ UNCHANGED <<human, shell>>

\* The foreground program exits: sys_wait(pid) returns and the shell goes on.
ForegroundExits ==
    /\ pc = "fg" /\ PromptOn(vga_write(screen, SayLine))
    /\ UNCHANGED <<keyboard, human, hist_pos, history, hist_count, jobs, zombies, orphans,
                   lines, entered>>

\* A background program exits: it is kept for wait, or ends the wait if it is
\* the child that sys_wait(-1) looks at.
JobExits ==
    /\ jobs > 0 /\ jobs' = jobs - 1
    /\ \/ /\ pc = "wait" /\ zombies' = zombies
          /\ PromptOn(vga_write(screen, SayLine))
       \/ /\ pc = "wait" => jobs > 1
          /\ zombies' = zombies + 1 /\ UNCHANGED <<screen, pc, cmd, len, clean>>
    /\ UNCHANGED <<keyboard, human, hist_pos, history, hist_count, orphans, lines, entered>>

OrphanExits ==
    /\ orphans > 0 /\ orphans' = orphans - 1
    /\ UNCHANGED <<keyboard, human, pc, cmd, len, hist_pos, history, hist_count, screen, jobs,
                   zombies, lines, entered, clean>>

\* The kernel starts a shell again: its statics are new, the screen is not.
Restart ==
    /\ pc = "dead"
    /\ PromptOn(vga_write(screen, SayLine))
    /\ history' = [i \in 0 .. HIST_MAX - 1 |-> BlankRow]
    /\ hist_count' = 0 /\ hist_pos' = 0 /\ entered' = << >>
    /\ UNCHANGED <<keyboard, human, jobs, zombies, orphans, lines>>

-----------------------------------------------------------------------------
Init ==
    /\ KeyboardInit
    /\ setup \in Setups /\ held = {} /\ pressed = <<0, 0>> /\ wire = << >>
    /\ pc = "edit" /\ cmd = << >> /\ len = 0 /\ clean = TRUE
    /\ screen = vga_write(vga_clear, SayLine \o PROMPT)
    /\ entered = setup.entered
    /\ history = [i \in 0 .. HIST_MAX - 1 |->
                    IF i < Len(entered) THEN CopyRow(BlankRow, entered[i + 1], Len(entered[i + 1]))
                    ELSE BlankRow]
    /\ hist_count = Len(entered) /\ hist_pos = Len(entered)
    /\ jobs = 0 /\ zombies = 0 /\ orphans = 0 /\ lines = 0

Next ==
    \/ \E k \in setup.keys : Press(k) \/ Repeat(k) \/ Release(k)
    \/ Interrupt
    \/ \E c \in {KEY_UP, KEY_DOWN} : Recall(c)
    \/ Backspace \/ Complete
    \/ \E c \in Char : Insert(c)
    \/ RunNothing \/ RunPrint \/ RunLs \/ RunClear \/ RunStop \/ RunExit \/ RunWait \/ RunProgram
    \/ ProgramWrites \/ ProgramReads \/ ForegroundExits \/ JobExits \/ OrphanExits \/ Restart

Spec == Init /\ [][Next]_vars

-----------------------------------------------------------------------------
(* Properties *)

\* No index runs out of its array: the ring, the screen, the row that is edited
\* (recall and completion, which copy into it, included) and the history.
TypeOK ==
    /\ head \in 0 .. BUFFER_SIZE - 1 /\ tail \in 0 .. BUFFER_SIZE - 1
    /\ key_buffer \in [0 .. BUFFER_SIZE - 1 -> 0 .. 127]
    /\ screen.x \in 0 .. VGA_WIDTH - 1 /\ screen.y \in 0 .. VGA_HEIGHT - 1
    /\ Len(cmd) \in len .. CMD_MAX - 1
    /\ hist_count \in 0 .. HIST_MAX /\ hist_pos \in 0 .. hist_count
    /\ pc \in {"edit", "fg", "wait", "dead", "off"}

\* No shift is stuck or lost once the wire is quiet, whatever is held, repeated
\* and released in whatever order, extended keys included (the fake shifts).
ShiftFollowsHands ==
    wire = << >> => (shift_state = 1 <=> held \cap ShiftKeys # {})

\* A lock key toggles once for each press, however long it is held.
LocksFollowHands == wire = << >> => <<caps_lock, num_lock>> = pressed

\* What stands before the cursor is the prompt and the line being edited, across
\* line wrap, scrolling, recall and completion, unless another program wrote.
ScreenShowsLine ==
    LET want == PROMPT \o Line(cmd, len)
        from == Cursor(screen) - Len(want)
    IN  (pc = "edit" /\ clean) =>
            from >= 0 /\ \A i \in 1 .. Len(want) : screen.cell[from + i - 1] = want[i]

\* Every row of the history ends in a NUL inside the row, so that a recall
\* writes at most CMD_MAX bytes to cmd.
RowsTerminated == \A i \in 0 .. HIST_MAX - 1 : history[i][CMD_MAX - 1] = 0

\* The history holds the last lines entered, oldest first: each row begins with
\* the line that was on the screen when Enter was pressed.
HistoryKeepsLines ==
    /\ Len(entered) = hist_count
    /\ \A i \in 1 .. hist_count : HasPrefix(RowText(history[i - 1]), entered[i])

=============================================================================
