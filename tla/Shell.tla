------------------------------- MODULE Shell --------------------------------
(***************************************************************************)
(* The algorithms of user/shell.c that work on the command line: the       *)
(* editor's buffer, the history, the split into words and the completion   *)
(* of the Tab key.  The buffer cmd is the text before its first NUL; the   *)
(* line being edited is the first len characters of it, and the two differ *)
(* after a Backspace.  A word is a sequence of characters.                 *)
(***************************************************************************)
EXTENDS Vga

CONSTANTS
    CMD_MAX, HIST_MAX,         \* 64 and 16 in the code
    CAND_MAX, CAND_LEN,        \* 24 and 48 in the code
    Dirs                       \* what sys_ls lists: << [path, names], ... >>

ASSUME ShellAssumption ==
    /\ CMD_MAX \in Nat \ {0, 1} /\ HIST_MAX \in Nat \ {0}
    /\ CAND_MAX \in Nat \ {0} /\ CAND_LEN \in Nat \ {0, 1}

TAB == 9
SLASH == 47
AMPERSAND == 38
PROMPT == <<62, SPACE>>

-----------------------------------------------------------------------------
(* The line and the history *)

Line(cmd, len) == SubSeq(cmd, 1, len)

\* cmd[i], counted from 0, of the C array.
CmdAt(cmd, i) == IF i < Len(cmd) THEN cmd[i + 1] ELSE 0

BlankRow == [j \in 0 .. CMD_MAX - 1 |-> 0]

\* The characters of a row of history before its NUL.
RowText(row) ==
    LET end == Min({j \in 0 .. CMD_MAX - 1 : row[j] = 0} \cup {CMD_MAX})
    IN  [j \in 1 .. end |-> row[j - 1]]

\* Mutant: the last row of a full history is reused, and no row is moved.
ShiftRows_in_place(history, count) ==
    IF count < HIST_MAX THEN <<history, count>> ELSE <<history, HIST_MAX - 1>>

\* The rows and their number after the oldest of a full history is dropped.
ShiftRows(history, count) ==
    IF count < HIST_MAX THEN <<history, count>>
    ELSE <<[i \in 0 .. HIST_MAX - 1 |->
                IF i < HIST_MAX - 1 THEN history[i + 1] ELSE history[i]], HIST_MAX - 1>>

CopyRow(row, cmd, len) ==
    [j \in 0 .. CMD_MAX - 1 |-> IF j <= len THEN CmdAt(cmd, j) ELSE row[j]]

-----------------------------------------------------------------------------
(* split *)

Blank(c) == c \in {SPACE, TAB}

\* Where the words of a text begin.
WordStarts(text) ==
    {i \in 1 .. Len(text) : ~Blank(text[i]) /\ (i = 1 \/ Blank(text[i - 1]))}

\* The word at i ends at the next blank, unless split stopped at it.
WordAt(text, i, last) ==
    LET ends == {j \in i .. Len(text) : Blank(text[j])}
    IN  SubSeq(text, i, IF last \/ ends = {} THEN Len(text) ELSE Min(ends) - 1)

split(text, max) ==
    LET starts == SetToSortSeq(WordStarts(text), <)
        n      == Min({Len(starts), max})
    IN  [k \in 1 .. n |-> WordAt(text, starts[k], k = max)]

\* The words before the first that begins with '&', and whether there is one.
Background(argv) == \E i \in 1 .. Len(argv) : argv[i][1] = AMPERSAND

Words(argv) ==
    SubSeq(argv, 1, Min({i - 1 : i \in {k \in 1 .. Len(argv) : argv[k][1] = AMPERSAND}}
                        \cup {Len(argv)}))

-----------------------------------------------------------------------------
(* tab_complete *)

HasPrefix(word, base) == Len(word) >= Len(base) /\ SubSeq(word, 1, Len(base)) = base

\* How a name is read back from the text of sys_ls: what does not fit in tmp is taken
\* for the next name.
Pieces(name) ==
    LET room == CAND_LEN - 1
    IN  [i \in 1 .. Max({1, (Len(name) + room - 1) \div room}) |->
            SubSeq(name, (i - 1) * room + 1, Min({i * room, Len(name)}))]

\* Names that begin with base are added to cands while there is room.
collect(names, base, cands) ==
    LET read == FlattenSeq([k \in 1 .. Len(names) |-> Pieces(names[k])])
        fit  == SelectSeq(read, LAMBDA w : HasPrefix(w, base))
    IN  cands \o SubSeq(fit, 1, Min({Len(fit), CAND_MAX - Len(cands)}))

Truncate(word) == SubSeq(word, 1, Min({Len(word), CAND_LEN - 1}))

\* Completion of a later word: only below a directory of Dirs that it names.
PathCands(pre) ==
    LET under(i) == HasPrefix(pre, Append(Dirs[i].path, SLASH))
        hits     == {i \in 1 .. Len(Dirs) : under(i)}
        dir      == Dirs[Min(hits)]
        base     == SubSeq(pre, Len(dir.path) + 2, Len(pre))
        found    == collect(dir.names, base, << >>)
    IN  IF hits = {} THEN << >>
        ELSE [k \in 1 .. Len(found) |-> Truncate(Append(dir.path, SLASH) \o found[k])]

\* The start of the last word of the line, and the candidates for it.
LastWord(line) ==
    LET blanks == {i \in 1 .. Len(line) : line[i] = SPACE}
    IN  SubSeq(line, IF blanks = {} THEN 1 ELSE Max(blanks) + 1, Len(line))

Candidates(line, builtin_cmds) ==
    LET pre == LastWord(line)
    IN  IF Len(pre) >= CAND_LEN THEN << >>
        ELSE IF Len(pre) = Len(line)
             THEN collect(Dirs[1].names, pre,
                          SelectSeq(builtin_cmds, LAMBDA w : HasPrefix(w, pre)))
        ELSE IF pre # << >> /\ pre[1] = SLASH THEN PathCands(pre)
        ELSE << >>

\* How many characters all candidates share.
CommonLength(cands) ==
    Max({n \in 0 .. Len(cands[1]) :
            \A k \in 1 .. Len(cands) : HasPrefix(cands[k], SubSeq(cands[1], 1, n))})

\* Mutant: the completion is not cut at the end of the buffer.
Completion_uncut(line, cands) ==
    SubSeq(cands[1], Len(LastWord(line)) + 1, CommonLength(cands))

\* The characters that Tab adds to the line: the rest of the only candidate or
\* of what all candidates share, cut at the end of the buffer.
Completion(line, cands) ==
    LET from == Len(LastWord(line))
    IN  SubSeq(cands[1], from + 1,
               Min({CommonLength(cands), from + CMD_MAX - 1 - Len(line)}))

\* Several candidates that share nothing more are listed instead.
IsListed(line, cands) == Len(cands) > 1 /\ CommonLength(cands) = Len(LastWord(line))

Listing(line, cands) ==
    <<NL>> \o FlattenSeq([k \in 1 .. Len(cands) |-> Append(cands[k], SPACE)])
           \o <<NL>> \o PROMPT \o line

=============================================================================
