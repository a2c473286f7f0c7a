------------------------------ MODULE TextDoc -------------------------------
(***************************************************************************)
(* What a text editor promises: a text, and a point between two of its     *)
(* characters.  Typing inserts at the point, deleting removes the          *)
(* character on one side of it, and every other key only moves the point.  *)
(***************************************************************************)
EXTENDS Naturals, Sequences

CONSTANT Char

VARIABLES text, point

Before == SubSeq(text, 1, point)
After  == SubSeq(text, point + 1, Len(text))

Init == text \in Seq(Char) /\ point = 0

Insert ==
    /\ \E c \in Char : text' = Append(Before, c) \o After
    /\ point' = point + 1

DeleteBefore ==
    /\ point > 0
    /\ text' = SubSeq(text, 1, point - 1) \o After
    /\ point' = point - 1

DeleteAfter ==
    /\ point < Len(text)
    /\ text' = Before \o Tail(After)
    /\ point' = point

Move == text' = text /\ point' \in 0 .. Len(text)

Next == Insert \/ DeleteBefore \/ DeleteAfter \/ Move

Spec == Init /\ [][Next]_<<text, point>>

=============================================================================
