-------------------------------- MODULE Vga ---------------------------------
(***************************************************************************)
(* The text screen of driver/vga.c.  A screen is its cells in reading      *)
(* order and the cursor; the operators return the screen after the call.   *)
(***************************************************************************)
EXTENDS Integers, Sequences, SequencesExt

CONSTANTS VGA_WIDTH, VGA_HEIGHT      \* 80 and 25 in the code

ASSUME VgaSizeAssumption ==
    VGA_WIDTH \in Nat \ {0} /\ VGA_HEIGHT \in Nat \ {0}

SPACE == 32
NL == 10
CR == 13
BS == 8

Cell == 0 .. VGA_WIDTH * VGA_HEIGHT - 1

vga_clear == [cell |-> [i \in Cell |-> SPACE], x |-> 0, y |-> 0]

vga_scroll(s) ==
    [s EXCEPT !.cell = [i \in Cell |-> IF i + VGA_WIDTH \in Cell THEN s.cell[i + VGA_WIDTH]
                                       ELSE SPACE]]

NewLine(s) ==
    IF s.y + 1 < VGA_HEIGHT THEN [s EXCEPT !.x = 0, !.y = @ + 1]
    ELSE [vga_scroll(s) EXCEPT !.x = 0]

Cursor(s) == s.y * VGA_WIDTH + s.x

StepBack(s) ==
    IF s.x > 0 THEN [s EXCEPT !.x = @ - 1]
    ELSE IF s.y > 0 THEN [s EXCEPT !.x = VGA_WIDTH - 1, !.y = @ - 1]
    ELSE s

Erase(s) == [s EXCEPT !.cell[Cursor(s)] = SPACE]

vga_putchar(s, c) ==
    CASE c = NL -> NewLine(s)
      [] c = CR -> [s EXCEPT !.x = 0]
      [] c = BS -> Erase(StepBack(s))
      [] OTHER -> LET t == [s EXCEPT !.cell[Cursor(s)] = c]
                  IN  IF s.x + 1 < VGA_WIDTH THEN [t EXCEPT !.x = @ + 1] ELSE NewLine(t)

vga_write(s, str) ==
    LET w[n \in 0 .. Len(str)] == IF n = 0 THEN s ELSE vga_putchar(w[n - 1], str[n])
    IN  w[Len(str)]

=============================================================================
