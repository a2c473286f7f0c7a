-------------------------------- MODULE Heap --------------------------------
(***************************************************************************)
(* The kernel heap of kernel/heap.c: blocks with a header and a footer,    *)
(* one list of free blocks in order of address, first fit, splitting,      *)
(* coalescing on both sides, and growth by pages.  Addresses and sizes     *)
(* count words of four bytes from HEAP_VIRT_START.  A word of memory is a  *)
(* header, a footer (a size), or the data of whoever owns the block.  The  *)
(* operators return the heap after the call; a heap is the record          *)
(* [mem, free_list, heap_brk].                                             *)
(***************************************************************************)
EXTENDS Integers, Sequences, SequencesExt

CONSTANTS
    PAGE_SIZE,             \* 1024 words in the code
    HEAP_INIT_PAGES,       \* 64 in the code
    MAX_PAGES,             \* no growth once heap_brk is here, 0xFE000000 in the code
    Requests,              \* sizes that callers ask for
    DATA,                  \* a word with a caller's data
    MAX_LIVE               \* bound: allocations alive at a time

ASSUME HeapAssumption ==
    /\ PAGE_SIZE \in Nat \ (0 .. 3) /\ HEAP_INIT_PAGES \in Nat \ {0}
    /\ MAX_PAGES \in Nat /\ MAX_PAGES >= HEAP_INIT_PAGES

VARIABLES
    heap,
    live                   \* what callers hold: records [ptr, size]

vars == <<heap, live>>

MIN_BLOCK_SIZE == 4
TAGS == 2                  \* header and footer

Header(size, free, prev_free) == [size |-> size, free |-> free, prev_free |-> prev_free]

-----------------------------------------------------------------------------
(* Tags *)

block_size(h, b)  == h.mem[b].size
block_after(h, b) == b + block_size(h, b)
block_in_heap(h, b) == b >= 0 /\ b + 1 <= h.heap_brk

\* The footer of the block at b is written from its header.
WriteFooter(h, b) == [h EXCEPT !.mem[b + block_size(h, b) - 1] = block_size(h, b)]

\* The flag PREV_FREE of the block at b, if there is one, becomes v.
SetPrevFree(h, b, v) == IF block_in_heap(h, b) THEN [h EXCEPT !.mem[b].prev_free = v] ELSE h

insert_free(h, b) ==
    LET n == Cardinality({i \in 1 .. Len(h.free_list) : h.free_list[i] < b})
    IN  [h EXCEPT !.free_list = InsertAt(@, n + 1, b)]

remove_free(h, b) == [h EXCEPT !.free_list = SelectSeq(@, LAMBDA c : c # b)]

\* Header, footer and list entry of a free block.
MakeFree(h, b, size, prev_free) ==
    insert_free(WriteFooter([h EXCEPT !.mem[b] = Header(size, TRUE, prev_free)], b), b)

-----------------------------------------------------------------------------
(* Growth *)

\* Mutant: the new pages are a block of their own after a free block.
grow_heap_no_merge(h, pages) ==
    LET new == [h EXCEPT !.heap_brk = @ + pages * PAGE_SIZE]
    IN  MakeFree(new, h.heap_brk, pages * PAGE_SIZE, FALSE)

\* grow_heap when all its pages could be mapped: they join the last block if
\* it is free.
grow_heap(h, pages) ==
    LET prev_size == h.mem[h.heap_brk - 1]
        prev      == h.heap_brk - prev_size
        new       == [h EXCEPT !.heap_brk = @ + pages * PAGE_SIZE]
    IN  IF block_in_heap(h, prev) /\ h.mem[prev].free
        THEN MakeFree(remove_free(new, prev), prev, prev_size + pages * PAGE_SIZE,
                      h.mem[prev].prev_free)
        ELSE MakeFree(new, h.heap_brk, pages * PAGE_SIZE, FALSE)

PagesFor(total) == (total + PAGE_SIZE - 1) \div PAGE_SIZE

-----------------------------------------------------------------------------
(* kmalloc and kfree *)

\* Mutant: room for the header only.
TotalSize_no_footer(size) == IF size + 1 < MIN_BLOCK_SIZE THEN MIN_BLOCK_SIZE ELSE size + 1

TotalSize(size) == IF size + TAGS < MIN_BLOCK_SIZE THEN MIN_BLOCK_SIZE ELSE size + TAGS

\* Positions in the free list of the blocks that are large enough.
Fits(h, total) == {i \in 1 .. Len(h.free_list) : block_size(h, h.free_list[i]) >= total}

\* Mutant: the rest of a split block does not tell the next block that it is free.
Split_silent(h, b, total) ==
    LET rest == block_size(h, b) - total
        cut  == [h EXCEPT !.mem[b].size = total]
    IN  IF rest >= MIN_BLOCK_SIZE
        THEN SetPrevFree(MakeFree(cut, b + total, rest, FALSE), b + total + rest, FALSE)
        ELSE h

\* What is left of the block at b becomes a free block if it can hold one.
Split(h, b, total) ==
    LET rest == block_size(h, b) - total
        cut  == [h EXCEPT !.mem[b].size = total]
    IN  IF rest >= MIN_BLOCK_SIZE
        THEN SetPrevFree(MakeFree(cut, b + total, rest, FALSE), b + total + rest, TRUE)
        ELSE h

\* The block at b is taken from the list, split, and marked used.
Carve(h, b, total) ==
    LET h1 == Split(remove_free(h, b), b, total)
        h2 == WriteFooter([h1 EXCEPT !.mem[b].free = FALSE], b)
    IN  SetPrevFree(h2, block_after(h2, b), FALSE)

\* The owner writes to all the words it asked for.
Scribble(h, ptr, size) ==
    [h EXCEPT !.mem = [i \in DOMAIN @ |-> IF i \in ptr .. ptr + size - 1 THEN DATA ELSE @[i]]]

\* Mutant: a block is not joined to a free block before it.
JoinPrev_never(h, b) == <<h, b>>

\* kfree joins the block at b to a free block before it; the joined block.
JoinPrev(h, b) ==
    LET prev_size == h.mem[b - 1]
        prev      == b - prev_size
    IN  IF h.mem[b].prev_free /\ block_in_heap(h, prev)
        THEN <<[remove_free(h, prev) EXCEPT !.mem[prev] =
                    Header(prev_size + block_size(h, b), TRUE, h.mem[prev].prev_free)], prev>>
        ELSE <<h, b>>

\* Mutant: ... to the block after it, free or not.
JoinNext_always(h, b) ==
    LET next == block_after(h, b)
    IN  IF block_in_heap(h, next)
        THEN [remove_free(h, next) EXCEPT !.mem[b] =
                    Header(block_size(h, b) + block_size(h, next), TRUE, h.mem[b].prev_free)]
        ELSE h

\* ... and to a free block after it.
JoinNext(h, b) ==
    LET next == block_after(h, b)
    IN  IF block_in_heap(h, next) /\ h.mem[next].free
        THEN [remove_free(h, next) EXCEPT !.mem[b] =
                    Header(block_size(h, b) + block_size(h, next), TRUE, h.mem[b].prev_free)]
        ELSE h

Freed(h, ptr) ==
    LET joined == JoinPrev(h, ptr - 1)
        b  == joined[2]
        h1 == JoinNext(joined[1], b)
        h2 == SetPrevFree(h1, block_after(h1, b), TRUE)
    IN  MakeFree(h2, b, block_size(h2, b), h2.mem[b].prev_free)

-----------------------------------------------------------------------------
(* The calls *)

Allocate(h, size) ==
    LET total == TotalSize(size)
        b     == h.free_list[Min(Fits(h, total))]
    IN  /\ heap' = Scribble(Carve(h, b, total), b + 1, size)
        /\ live' = live \cup {[ptr |-> b + 1, size |-> size]}

\* A free block is large enough.
kmalloc(size) ==
    /\ Cardinality(live) < MAX_LIVE
    /\ Fits(heap, TotalSize(size)) # {}
    /\ Allocate(heap, size)

\* None is: the heap grows, then the search is repeated.
kmalloc_grows(size) ==
    LET pages == PagesFor(TotalSize(size))
    IN  /\ Cardinality(live) < MAX_LIVE
        /\ Fits(heap, TotalSize(size)) = {}
        /\ heap.heap_brk < MAX_PAGES * PAGE_SIZE
        /\ Allocate(grow_heap(heap, pages), size)

\* kmalloc returns NULL when the address space or the frames are used up: the
\* heap is as before, whatever pages were already mapped above it.
kmalloc_fails(size) ==
    /\ Fits(heap, TotalSize(size)) = {}
    /\ UNCHANGED vars

kfree(a) ==
    /\ heap' = Freed(heap, a.ptr)
    /\ live' = live \ {a}

Words == 0 .. (MAX_PAGES + PagesFor(TotalSize(Max(Requests)))) * PAGE_SIZE - 1

heap_init ==
    MakeFree([mem |-> [i \in Words |-> DATA], free_list |-> << >>,
              heap_brk |-> HEAP_INIT_PAGES * PAGE_SIZE],
             0, HEAP_INIT_PAGES * PAGE_SIZE, FALSE)

Init == heap = heap_init /\ live = {}

Next ==
    \/ \E size \in Requests : kmalloc(size) \/ kmalloc_grows(size) \/ kmalloc_fails(size)
    \/ \E a \in live : kfree(a)

Spec == Init /\ [][Next]_vars

-----------------------------------------------------------------------------
(* Properties *)

\* Where blocks begin: the walk over the headers from the bottom of the heap.
Starts(h) ==
    LET from[b \in Nat] == IF block_in_heap(h, b) THEN {b} \cup from[block_after(h, b)] ELSE {}
    IN  from[0]

IsFree(b) == heap.mem[b].free

\* The tags describe the heap: blocks follow each other up to the end, each with
\* its size in the footer, and PREV_FREE says of each whether the block before
\* it is free, so that kfree never joins a block that is in use.
TagsAgree ==
    \A b \in Starts(heap) :
        LET next == block_after(heap, b)
        IN  /\ next <= heap.heap_brk
            /\ heap.mem[next - 1] = block_size(heap, b)
            /\ block_in_heap(heap, next) => (heap.mem[next].prev_free <=> IsFree(b))

\* A block is free or held by a caller; the list holds exactly the free ones, in
\* order of address, and kfree leaves no two of them side by side.
FreeListExact ==
    /\ {b \in Starts(heap) : ~IsFree(b)} = {a.ptr - 1 : a \in live}
    /\ ToSet(heap.free_list) = {b \in Starts(heap) : IsFree(b)}
    /\ \A i \in 1 .. Len(heap.free_list) - 1 :
            block_after(heap, heap.free_list[i]) < heap.free_list[i + 1]

\* No caller's data is touched: all the words it holds are as it left them.
DataKept ==
    \A a \in live : \A i \in a.ptr .. a.ptr + a.size - 1 : heap.mem[i] = DATA

\* "COALESCE OK": when everything is freed the heap is one free block again.
AllFreedIsOneBlock ==
    live = {} => heap.free_list = <<0>> /\ block_size(heap, 0) = heap.heap_brk

Blocks == INSTANCE BlockStore WITH
    Overhead <- TAGS,
    taken <- {[at |-> a.ptr - 1, size |-> block_size(heap, a.ptr - 1), asked |-> a.size] : a \in live}

\* Measured by their headers, the blocks that callers hold are a set to which
\* kmalloc adds one that overlaps no other and has room for what was asked, from
\* which kfree removes one, and which nothing else resizes.
TagsImplementBlocks == Blocks!Spec

=============================================================================
