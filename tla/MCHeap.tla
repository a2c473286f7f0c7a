------------------------------- MODULE MCHeap -------------------------------
(***************************************************************************)
(* An instance of module Heap for the model checker.  A word that is       *)
(* neither a tag of a block nor a caller's keeps what was last written to  *)
(* it; states that differ only in such words count as one.                 *)
(***************************************************************************)
EXTENDS Heap

Tags == UNION {{b, block_after(heap, b) - 1} : b \in Starts(heap)}

View ==
    <<heap.free_list, heap.heap_brk, live, [i \in Tags |-> heap.mem[i]],
      {i \in UNION {a.ptr .. a.ptr + a.size - 1 : a \in live} : heap.mem[i] # DATA}>>
=============================================================================
