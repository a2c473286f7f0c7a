----------------------------- MODULE BlockStore -----------------------------
(***************************************************************************)
(* What the kernel heap promises: every live allocation is an interval of  *)
(* its own, at least as long as was asked for.                             *)
(***************************************************************************)
EXTENDS Naturals

CONSTANTS Requests, Overhead      \* sizes asked for, words used for the tags

VARIABLES taken                   \* live blocks, as records [at, size, asked]

Apart(b, c) == b.at + b.size <= c.at \/ c.at + c.size <= b.at

Init == taken = {}

Take ==
    \E b \in taken' \ taken :
        /\ taken' = taken \cup {b}
        /\ b.asked \in Requests /\ b.size >= b.asked + Overhead
        /\ \A c \in taken : Apart(b, c)

Release == \E b \in taken : taken' = taken \ {b}

Next == Take \/ Release

Spec == Init /\ [][Next]_taken

=============================================================================
