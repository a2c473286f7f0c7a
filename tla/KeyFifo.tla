------------------------------ MODULE KeyFifo -------------------------------
(***************************************************************************)
(* What the keyboard driver promises to the tasks that read it: characters *)
(* come out in the order they went in, each once; a character that arrives *)
(* while CAPACITY characters wait is lost, and no other is.  event says    *)
(* what was handed over last, a character pushed or what a read returned;  *)
(* its turn flips each time, so that no push and no read is a stutter.     *)
(***************************************************************************)
EXTENDS Integers, Sequences

CONSTANTS CAPACITY, Char

VARIABLES fifo, event

Handed(op, c) == [op |-> op, char |-> c, turn |-> 1 - event.turn]

Init == fifo = << >> /\ event = [op |-> "none", char |-> 0, turn |-> 0]

\* Character c arrives.
Push(c) ==
    /\ event' = Handed("push", c)
    /\ fifo' = IF Len(fifo) < CAPACITY THEN Append(fifo, c) ELSE fifo

\* A read takes the oldest character, or finds none.
Read ==
    \/ fifo # << >> /\ event' = Handed("read", Head(fifo)) /\ fifo' = Tail(fifo)
    \/ fifo = << >> /\ event' = Handed("read", 0) /\ fifo' = fifo

Next == Read \/ \E c \in Char : Push(c)

Spec == Init /\ [][Next]_<<fifo, event>>

=============================================================================
