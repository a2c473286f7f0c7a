-------------------------------- MODULE Povi --------------------------------
(***************************************************************************)
(* The editor povi (user/povi): the buffer of lines, the cursor, the three *)
(* modes, and the file it loads and saves.  One step handles one key event *)
(* of the loop of main, with the refresh that follows it.  The arena of    *)
(* runtime.cpp only grows: a step that allocates may end the program.      *)
(***************************************************************************)
EXTENDS Integers, Sequences, SequencesExt

CONSTANTS
    Letters,       \* characters that are typed
    UI_ROWS,       \* 24 in the code
    Files,         \* contents the file may have at the start, as sequences
    MAX_TEXT,      \* bound: characters and line breaks in the buffer
    MAX_CMD        \* bound: characters of a command line

ASSUME PoviAssumption == UI_ROWS \in Nat \ {0}

VARIABLES
    lines,                     \* the buffer: a sequence of lines, never empty
    cursor_row, cursor_col,    \* counted from 0
    top_row,                   \* first row on the screen
    mode, pending_g, cmd_line, modified,
    named,                     \* the editor has a file name
    file,                      \* what the file holds, NoFile if there is none
    running,
    broken                     \* history: a save without changes failed in a write

buffer == <<lines, cursor_row, cursor_col>>
vars   == <<buffer, top_row, mode, pending_g, cmd_line, modified, named, file, running, broken>>

NL == "NL"
NoFile == <<"no file">>

-----------------------------------------------------------------------------
(* buffer.cpp *)

num_lines == Len(lines)
LineAt(row) == lines[row + 1]
line_length(row) == Len(LineAt(row))

\* The line at row is split at col.
SplitLine(row, col) ==
    SubSeq(lines, 1, row)
        \o <<SubSeq(LineAt(row), 1, col), SubSeq(LineAt(row), col + 1, line_length(row))>>
        \o SubSeq(lines, row + 2, num_lines)

InsertedAt(row, col, c) ==
    IF c = NL THEN SplitLine(row, col)
    ELSE [lines EXCEPT ![row + 1] = InsertAt(@, col + 1, c)]

\* Mutant: at the end of a line the next line is lost.
DeletedAt_drops(row, col) ==
    IF col < line_length(row) THEN [lines EXCEPT ![row + 1] = RemoveAt(@, col + 1)]
    ELSE IF row + 1 < num_lines THEN RemoveAt(lines, row + 2)
    ELSE lines

\* At the end of a line the next one is joined to it.
DeletedAt(row, col) ==
    IF col < line_length(row) THEN [lines EXCEPT ![row + 1] = RemoveAt(@, col + 1)]
    ELSE IF row + 1 < num_lines
         THEN RemoveAt([lines EXCEPT ![row + 1] = @ \o LineAt(row + 1)], row + 2)
    ELSE lines

-----------------------------------------------------------------------------
(* editor.cpp: what a key does to the cursor and the buffer *)

MovesTo(row, col) == cursor_row' = row /\ cursor_col' = col /\ lines' = lines

move_left ==
    CASE cursor_col > 0 -> MovesTo(cursor_row, cursor_col - 1)
      [] cursor_col = 0 /\ cursor_row > 0 -> MovesTo(cursor_row - 1, line_length(cursor_row - 1))
      [] OTHER -> UNCHANGED buffer

move_right ==
    CASE cursor_col < line_length(cursor_row) -> MovesTo(cursor_row, cursor_col + 1)
      [] cursor_col >= line_length(cursor_row) /\ cursor_row + 1 < num_lines ->
            MovesTo(cursor_row + 1, 0)
      [] OTHER -> UNCHANGED buffer

AtMost(col, row) == IF col > line_length(row) THEN line_length(row) ELSE col

\* Mutant: the column is kept on a shorter line.
move_up_keeps_column ==
    IF cursor_row > 0 THEN MovesTo(cursor_row - 1, cursor_col) ELSE UNCHANGED buffer

move_up ==
    IF cursor_row > 0 THEN MovesTo(cursor_row - 1, AtMost(cursor_col, cursor_row - 1))
    ELSE UNCHANGED buffer

move_down ==
    IF cursor_row + 1 < num_lines
    THEN MovesTo(cursor_row + 1, AtMost(cursor_col, cursor_row + 1))
    ELSE UNCHANGED buffer

insert_char(c) ==
    /\ lines' = InsertedAt(cursor_row, cursor_col, c)
    /\ IF c = NL THEN cursor_row' = cursor_row + 1 /\ cursor_col' = 0
       ELSE cursor_row' = cursor_row /\ cursor_col' = cursor_col + 1

backspace ==
    CASE cursor_col > 0 ->
            /\ lines' = DeletedAt(cursor_row, cursor_col - 1)
            /\ cursor_row' = cursor_row /\ cursor_col' = cursor_col - 1
      [] cursor_col = 0 /\ cursor_row > 0 ->
            /\ lines' = DeletedAt(cursor_row - 1, line_length(cursor_row - 1))
            /\ cursor_row' = cursor_row - 1
            /\ cursor_col' = line_length(cursor_row - 1)
      [] OTHER -> UNCHANGED buffer

delete_char ==
    /\ lines' = DeletedAt(cursor_row, cursor_col)
    /\ cursor_row' = cursor_row
    /\ cursor_col' = IF cursor_col > Len(lines'[cursor_row + 1]) THEN Len(lines'[cursor_row + 1])
                     ELSE cursor_col

\* Mutant: the screen follows the cursor upwards only.
scroll_to_cursor_up(top, row) == IF row < top THEN row ELSE top

scroll_to_cursor(top, row) ==
    LET t == IF row < top THEN row ELSE top
    IN  IF row >= t + UI_ROWS THEN row - (UI_ROWS - 1) ELSE t

-----------------------------------------------------------------------------
(* file_io.cpp *)

\* The lines of a file: clear_lines leaves one empty line, and those of the
\* file are added after it; an unterminated last line counts.
LinesOf(data) ==
    LET breaks == SetToSortSeq({i \in 1 .. Len(data) : data[i] = NL}, <)
        from(k) == IF k = 1 THEN 1 ELSE breaks[k - 1] + 1
        whole == [k \in 1 .. Len(breaks) |-> SubSeq(data, from(k), breaks[k] - 1)]
        rest == SubSeq(data, from(Len(breaks) + 1), Len(data))
    IN  << << >> >> \o whole \o (IF data = << >> \/ rest # << >> THEN <<rest>> ELSE << >>)

\* Each line is written, then a line break.
Serialise(ls) ==
    FlattenSeq([k \in 1 .. Len(ls) |-> Append(ls[k], NL)])

\* What save_file may leave in the file: nothing written, or cut short by a
\* write that failed, or all of it.
SavedPrefixes == {SubSeq(Serialise(lines), 1, n) : n \in 0 .. Len(Serialise(lines)) - 1}

-----------------------------------------------------------------------------
(* povi.cpp *)

\* The event is handled and the screen drawn again.
Redraw == top_row' = scroll_to_cursor(top_row, cursor_row')

\* Drawn again with the cursor where it is.
Stays == UNCHANGED buffer /\ Redraw

Idle == UNCHANGED <<named, file, running, broken>>

Size == Len(FlattenSeq(lines)) + num_lines - 1

\* Insert mode.
InsertKey(c) ==
    /\ mode = "INSERT" /\ Size < MAX_TEXT
    /\ insert_char(c) /\ modified' = TRUE /\ Redraw
    /\ UNCHANGED <<mode, pending_g, cmd_line>> /\ Idle

InsertBackspace ==
    /\ mode = "INSERT"
    /\ backspace /\ modified' = TRUE /\ Redraw
    /\ UNCHANGED <<mode, pending_g, cmd_line>> /\ Idle

InsertEsc ==
    /\ mode = "INSERT" /\ mode' = "NORMAL" /\ Stays
    /\ UNCHANGED <<pending_g, cmd_line, modified>> /\ Idle

\* The four arrows, in insert and normal mode; h, j, k, l and Enter are the same
\* in normal mode.
Arrow ==
    /\ mode \in {"INSERT", "NORMAL"}
    /\ move_left \/ move_right \/ move_up \/ move_down
    /\ pending_g' = IF mode = "NORMAL" THEN FALSE ELSE pending_g
    /\ Redraw
    /\ UNCHANGED <<mode, cmd_line, modified>> /\ Idle

\* 0, $, G and the second g.
Jump ==
    /\ mode = "NORMAL"
    /\ \/ MovesTo(cursor_row, 0)
       \/ MovesTo(cursor_row, line_length(cursor_row))
       \/ MovesTo(num_lines - 1, line_length(num_lines - 1))
       \/ pending_g /\ MovesTo(0, 0)
    /\ pending_g' = FALSE /\ Redraw
    /\ UNCHANGED <<mode, cmd_line, modified>> /\ Idle

FirstG ==
    /\ mode = "NORMAL" /\ ~pending_g /\ pending_g' = TRUE
    /\ UNCHANGED <<buffer, top_row, mode, cmd_line, modified>> /\ Idle

\* A key without a meaning in normal mode; not ESC and Backspace, which leave
\* pending_g alone.
OtherKey ==
    /\ mode = "NORMAL" /\ pending_g' = FALSE
    /\ UNCHANGED <<buffer, top_row, mode, cmd_line, modified>> /\ Idle

DeleteKey ==
    /\ mode = "NORMAL"
    /\ delete_char /\ modified' = TRUE /\ pending_g' = FALSE /\ Redraw
    /\ UNCHANGED <<mode, cmd_line>> /\ Idle

EnterMode ==
    /\ mode = "NORMAL" /\ pending_g' = FALSE /\ Stays
    /\ \/ mode' = "INSERT" /\ cmd_line' = cmd_line
       \/ mode' = "COMMAND" /\ cmd_line' = << >>
    /\ UNCHANGED <<modified>> /\ Idle

\* Command mode.
CommandKey(c) ==
    /\ mode = "COMMAND" /\ Len(cmd_line) < MAX_CMD
    /\ cmd_line' = Append(cmd_line, c) /\ Stays
    /\ UNCHANGED <<mode, pending_g, modified>> /\ Idle

CommandBackspace ==
    /\ mode = "COMMAND" /\ Stays
    /\ cmd_line' = IF cmd_line = << >> THEN << >> ELSE Front(cmd_line)
    /\ UNCHANGED <<mode, pending_g, modified>> /\ Idle

LeaveCommand == mode = "COMMAND" /\ mode' = "NORMAL" /\ cmd_line' = << >> /\ Stays

CommandEsc == LeaveCommand /\ UNCHANGED <<pending_g, modified>> /\ Idle

\* Mutant: w takes the changes for saved although a write failed.
RunSave_forgets ==
    LET quits == cmd_line = <<"w", "q">>
    IN  /\ LeaveCommand /\ cmd_line \in {<<"w">>, <<"w", "q">>} /\ named
        /\ \/ /\ file' = Serialise(lines) /\ broken' = FALSE
              /\ modified' = (quits /\ modified) /\ running' = ~quits
           \/ UNCHANGED <<file, broken, modified, running>>
           \/ /\ file' \in SavedPrefixes /\ broken' = (broken \/ ~modified)
              /\ modified' = FALSE /\ UNCHANGED running
        /\ UNCHANGED <<pending_g, named>>

\* w and wq: save_file succeeds, cannot open the file, or fails in a write.
RunSave ==
    LET quits == cmd_line = <<"w", "q">>
    IN  /\ LeaveCommand /\ cmd_line \in {<<"w">>, <<"w", "q">>} /\ named
        /\ \/ /\ file' = Serialise(lines) /\ broken' = FALSE
              /\ modified' = (quits /\ modified) /\ running' = ~quits
           \/ UNCHANGED <<file, broken, modified, running>>
           \/ file' \in SavedPrefixes /\ broken' = (broken \/ ~modified) /\ UNCHANGED <<modified, running>>
        /\ UNCHANGED <<pending_g, named>>

RunQuit ==
    /\ LeaveCommand /\ cmd_line = <<"q">>
    /\ running' = modified
    /\ UNCHANGED <<pending_g, modified, named, file, broken>>

RunForcedQuit ==
    /\ LeaveCommand /\ cmd_line = <<"q", "!">> /\ running' = FALSE
    /\ UNCHANGED <<pending_g, modified, named, file, broken>>

\* No file name, or no such command.
RunNothing ==
    /\ LeaveCommand
    /\ cmd_line \notin {<<"q">>, <<"q", "!">>}
    /\ cmd_line \in {<<"w">>, <<"w", "q">>} => ~named
    /\ UNCHANGED <<pending_g, modified>> /\ Idle

\* povi_alloc: the arena is full, in a step that makes a string grow.
ArenaFull ==
    /\ \/ mode = "INSERT" \/ mode = "COMMAND" \/ (mode = "NORMAL" /\ num_lines > 1)
    /\ running' = FALSE
    /\ UNCHANGED <<buffer, top_row, mode, pending_g, cmd_line, modified, named, file, broken>>

-----------------------------------------------------------------------------
Init ==
    /\ named \in BOOLEAN
    /\ file \in IF named THEN Files \cup {NoFile} ELSE {NoFile}
    /\ lines = IF file # NoFile THEN LinesOf(file) ELSE << << >> >>
    /\ cursor_row = 0 /\ cursor_col = 0 /\ top_row = 0
    /\ mode = "NORMAL" /\ pending_g = FALSE /\ cmd_line = << >> /\ modified = FALSE
    /\ running = TRUE /\ broken = FALSE

Next ==
    /\ running
    /\ \/ \E c \in Letters \cup {NL} : InsertKey(c)
       \/ InsertBackspace \/ InsertEsc
       \/ Arrow \/ Jump \/ FirstG \/ OtherKey \/ DeleteKey \/ EnterMode
       \/ \E c \in {"w", "q", "!"} : CommandKey(c)
       \/ CommandBackspace \/ CommandEsc
       \/ RunSave \/ RunQuit \/ RunForcedQuit \/ RunNothing
       \/ ArenaFull

Spec == Init /\ [][Next]_vars

-----------------------------------------------------------------------------
(* Properties *)

\* The cursor is on a line of the buffer and not past its end: what the Buffer
\* and Vector operations, which index without a check, rely on.
CursorInBounds ==
    cursor_row < num_lines /\ cursor_col <= line_length(cursor_row)

\* The row of the cursor is one of those that UI::refresh draws.
CursorOnScreen == cursor_row \in top_row .. top_row + UI_ROWS - 1

\* An editor that shows no change can be left with q: the file holds the buffer, as
\* it was loaded or as it was saved.  A save of changes that fails in a write keeps
\* the mark, so q refuses; only a save without changes that fails is excluded
\* (save_file has truncated the file, and the mark was not set).
CleanMeansSaved ==
    (named /\ ~modified /\ ~broken) =>
        \/ file = Serialise(lines)
        \/ lines = IF file = NoFile THEN << << >> >> ELSE LinesOf(file)

\* The buffer as one text, and the place of the cursor in it.
TextOf(ls) == Front(Serialise(ls))

PointOf(ls, row, col) == Len(Serialise(SubSeq(ls, 1, row))) + col

Doc == INSTANCE TextDoc WITH
    Char <- Letters \cup {NL},
    text <- TextOf(lines), point <- PointOf(lines, cursor_row, cursor_col)

\* Split and joined lines add up to a text in which every key inserts or deletes
\* one character at the cursor, or moves the cursor and changes nothing.
EditsAreLocal == Doc!Spec

=============================================================================
