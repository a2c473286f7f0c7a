----------------------------- MODULE MCTerminal -----------------------------
(***************************************************************************)
(* Instances of module Terminal for the model checker: several sittings at *)
(* the keyboard, each with the few keys that its question needs.  The key  *)
(* 256 + 72 is the grey arrow up.                                          *)
(***************************************************************************)
EXTENDS Terminal

A == 97
B == 98

SmallDirs == << [path |-> << >>, names |-> << <<A, B>>, <<B, A, B, B>> >>],
                [path |-> <<A>>, names |-> << >>] >>

Sitting(keys, down, ahead, n, builtin, old) ==
    [keys |-> keys, held |-> down, ahead |-> ahead, lines |-> n, builtin |-> builtin,
     builtin_cmds |-> SetToSeq(DOMAIN builtin), entered |-> old]

Empty == [w \in {} |-> "none"]
One(kind) == [w \in {<<A>>} |-> kind]

\* Both shifts, CapsLock, a letter and a grey arrow, typed ahead of the shell.
Modes == Sitting({42, 54, 58, 30, 328}, 2, 1, 0, Empty, << >>)
\* Two letters, typed until the ring is full.
Ahead == Sitting({30, 48}, 1, 4, 0, Empty, << >>)
\* NumLock, a keypad key and a shift.
Numbers == Sitting({42, 69, 72}, 2, 0, 0, Empty, << >>)
\* A letter, Backspace, Enter and the arrow up: editing.
Editing == Sitting({30, 14, 28, 328}, 1, 0, 2, One("help"), << >>)
\* A letter, Enter and both arrows: recall from a history that overflows.
Recalling == Sitting({30, 28, 328, 336}, 1, 0, 2, One("help"), << <<B>>, <<A, B>> >>)
\* Completion of commands, and of paths.
Completing == Sitting({30, 53, 57, 15}, 1, 0, 0, One("ls"), << >>)
\* Each command once.
Commands == {Sitting({30, 28}, 1, 0, 2, One(kind), << >>) :
                kind \in {"ls", "clear", "reboot", "exit", "wait"}}
\* The lines "b &" and "a" are recalled: programs in the background of a shell
\* that waits or exits.
Jobs == {Sitting({28, 328}, 1, 0, 3, One(kind), << <<B, SPACE, AMPERSAND>>, <<A>> >>) :
            kind \in {"wait", "exit"}}

AllSetups == {Modes, Ahead, Numbers, Editing, Recalling, Completing} \cup Commands \cup Jobs

\* The cells of the ring that hold no character, and the history variable event,
\* which no action reads, do not tell states apart.
View == <<Contents, head, modes, prev_scancode, human, shell>>

=============================================================================
