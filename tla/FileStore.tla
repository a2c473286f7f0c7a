------------------------------ MODULE FileStore ------------------------------
(***************************************************************************)
(* What a store of growing files promises: a file is a sequence of bytes;  *)
(* a write puts its bytes where the descriptor stands and keeps the rest;  *)
(* a read returns what is there.  Only the bytes between the end of a file *)
(* and a position beyond it are left open: no call has written them.       *)
(***************************************************************************)
EXTENDS Integers, Sequences

VARIABLES
    store,    \* the contents of every file
    call      \* the last call: its operation, file, position, length and bytes

\* A new file is empty.
Create ==
    \E f \in DOMAIN store' \ DOMAIN store :
        /\ DOMAIN store' = DOMAIN store \cup {f}
        /\ store'[f] = <<>>
        /\ \A g \in DOMAIN store : store'[g] = store[g]

Truncate(f) == store' = [store EXCEPT ![f] = <<>>]

WriteAt(f, at, bytes) ==
    LET old == store[f]
        new == store'[f]
        end == at + Len(bytes)
    IN  /\ DOMAIN store' = DOMAIN store
        /\ \A g \in DOMAIN store \ {f} : store'[g] = store[g]
        /\ Len(new) = IF end > Len(old) THEN end ELSE Len(old)
        /\ \A i \in DOMAIN new :
              IF i \in at + 1 .. end THEN new[i] = bytes[i - at]
              ELSE i <= Len(old) => new[i] = old[i]

ReadAt(f, at, len, bytes) ==
    /\ bytes = SubSeq(store[f], at + 1, IF at + len < Len(store[f]) THEN at + len ELSE Len(store[f]))
    /\ UNCHANGED store

Next ==
    \/ call'.op = "open" /\ (Create \/ (\E f \in DOMAIN store : Truncate(f)) \/ UNCHANGED store)
    \/ \E f \in DOMAIN store :
          /\ call'.ino = f
          /\ \/ call'.op = "write" /\ WriteAt(f, call'.at, call'.bytes)
             \/ call'.op = "read" /\ ReadAt(f, call'.at, call'.len, call'.bytes)
    \/ (call'.op = "none" \/ call'.ino \notin DOMAIN store) /\ UNCHANGED store

Spec == store = [f \in {} |-> <<>>] /\ [][Next]_<<store, call>>
=============================================================================
