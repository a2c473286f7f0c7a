-------------------------------- MODULE TarFs --------------------------------
(***************************************************************************)
(* The archive on the first ATA disk: sector reads (driver/ata.c), the     *)
(* walk over the archive (fs/tar.c), the page cache (fs/page_cache.c) and  *)
(* the reads of tarfs (fs/tarfs.c).  A disk is a function from sector      *)
(* numbers to sectors: a header [magic, name, type, size] or, with magic   *)
(* FALSE, the bytes of a file.  A cached page is the sequence of its bytes.*)
(***************************************************************************)
EXTENDS Integers, Sequences, SequencesExt

CONSTANTS
    SECTOR,            \* bytes of a sector and of a tar block, 512 in the code
    PAGE_SIZE,         \* bytes of a page, a multiple of SECTOR, 4096
    PAGE_CACHE_SIZE,   \* slots of the page cache, 64
    TARFS_READAHEAD,   \* 4
    JUNK,              \* a byte of a transfer the drive reported as failed
    STALE              \* a byte of a page frame that no transfer wrote

ASSUME TarAssumption == SECTOR \in Nat \ {0} /\ PAGE_SIZE % SECTOR = 0 /\ PAGE_SIZE > 0

Least(a, b) == IF a < b THEN a ELSE b
Monus(a, b) == IF a > b THEN a - b ELSE 0

-----------------------------------------------------------------------------
(* ata.c and bdev.c *)

\* The bytes of count sectors from lba on.  ata_wait_drq also returns when the
\* drive reports an error, and nothing looks at the status after it: a sector
\* in bad yields junk and the call still succeeds.
ata_read_sectors(disk, lba, count, bad) ==
    [i \in 1 .. count * SECTOR |->
        LET sector == lba + (i - 1) \div SECTOR IN
        IF sector \in bad THEN JUNK ELSE disk[sector].bytes[((i - 1) % SECTOR) + 1]]

-----------------------------------------------------------------------------
(* tar.c *)

\* Blocks taken by the data of a file.
BlocksOf(size) == (size + ((SECTOR - (size % SECTOR)) % SECTOR)) \div SECTOR

\* A header that is missing, or that the drive failed to read, ends the walk.
IsEntry(disk, blk, bad) == blk \in DOMAIN disk /\ blk \notin bad /\ disk[blk].magic

tar_next_entry(disk, blk) ==
    [name |-> disk[blk].name, type |-> disk[blk].type, size |-> disk[blk].size,
     offset |-> (blk + 1) * SECTOR, next |-> blk + 1 + BlocksOf(disk[blk].size)]

\* The regular files a walk over the archive meets, in order.
tar_files(disk, bad) ==
    LET walk[blk \in Nat] ==
            IF ~IsEntry(disk, blk, bad) THEN <<>>
            ELSE LET e == tar_next_entry(disk, blk) IN
                 (IF e.type = "0" THEN <<e>> ELSE <<>>) \o walk[e.next]
    IN  walk[0]

-----------------------------------------------------------------------------
(* page_cache.c.  A slot, once valid, stays so: the cache is the sequence of
   its valid slots.  A record p holds the cache, the page frames the kernel
   can still give this call, and the page last read, empty on failure. *)

\* Only the sectors that hold bytes of the file are read into the frame.
tarfs_readpage(disk, f, pgoff, bad) ==
    LET start == pgoff * PAGE_SIZE
        nsec  == (Least(PAGE_SIZE, f.size - start) + SECTOR - 1) \div SECTOR
        read  == ata_read_sectors(disk, (f.offset + start) \div SECTOR, nsec, bad)
    IN  [i \in 1 .. PAGE_SIZE |-> IF i <= Len(read) THEN read[i] ELSE STALE]

\* Mutant: the cache looks at the page number only.
page_cache_find_any_ino(cache, ino, pgoff) == SelectInSeq(cache, LAMBDA s : s.pgoff = pgoff)

\* Mutant: only the newest slot is looked at.
page_cache_find_newest(cache, ino, pgoff) ==
    IF cache # <<>> /\ Last(cache).ino = ino /\ Last(cache).pgoff = pgoff THEN Len(cache) ELSE 0

page_cache_find(cache, ino, pgoff) ==
    SelectInSeq(cache, LAMBDA s : s.ino = ino /\ s.pgoff = pgoff)

page_cache_full(cache) == Len(cache) = PAGE_CACHE_SIZE

readpage(disk, p, ino, f, pgoff, bad) ==
    LET hit  == page_cache_find(p.cache, ino, pgoff)
        page == tarfs_readpage(disk, f, pgoff, bad)
    IN  CASE hit # 0 -> [p EXCEPT !.page = p.cache[hit].page]
          [] hit = 0 /\ (page_cache_full(p.cache) \/ p.frames = 0 \/ pgoff * PAGE_SIZE >= f.size) ->
                [p EXCEPT !.page = <<>>]
          [] OTHER ->
                [cache |-> Append(p.cache, [ino |-> ino, pgoff |-> pgoff, page |-> page]),
                 frames |-> p.frames - 1, page |-> page]

-----------------------------------------------------------------------------
(* tarfs.c *)

\* Mutant: the end of the read is rounded down to a page.
PageEnd_rounded_down(to) == to \div PAGE_SIZE

\* The page after the last one that holds a byte before to.
PageEnd(to) == (to + PAGE_SIZE - 1) \div PAGE_SIZE

\* The pages read ahead of pgoff; a failure is ignored.
ReadAhead(disk, p, ino, f, pgoff, end, bad) ==
    FoldLeft(LAMBDA q, i : readpage(disk, q, ino, f, pgoff + i, bad), p,
             [i \in 1 .. Least(TARFS_READAHEAD, end - 1 - pgoff) |-> i])

\* One turn of the loop: r holds p, the bytes so far, last_pgoff, and whether a
\* page could not be read, which ends the loop.
ReadOnePage(disk, r, ino, f, pos, len, pgoff, end, bad) ==
    LET p    == readpage(disk, r.p, ino, f, pgoff, bad)
        from == IF pgoff = pos \div PAGE_SIZE THEN pos % PAGE_SIZE ELSE 0
        n    == Least(PAGE_SIZE - from, len - Len(r.bytes))
        q    == IF pgoff = r.last_pgoff + 1 /\ pgoff + 1 < end
                THEN ReadAhead(disk, p, ino, f, pgoff, end, bad) ELSE p
    IN  IF r.stop \/ p.page = <<>> THEN [r EXCEPT !.stop = TRUE]
        ELSE [p |-> q, bytes |-> r.bytes \o SubSeq(p.page, from + 1, from + n),
              last_pgoff |-> pgoff, stop |-> FALSE]

\* What a read of len bytes at pos returns, and the cache after it.
tarfs_read(disk, cache, frames, ino, f, pos, last_pgoff, len, bad) ==
    LET got   == Least(len, Monus(f.size, pos))
        first == pos \div PAGE_SIZE
        end   == PageEnd(pos + got)
        none  == [p |-> [cache |-> cache, frames |-> frames, page |-> <<>>],
                  bytes |-> <<>>, last_pgoff |-> last_pgoff, stop |-> FALSE]
    IN  IF got = 0 THEN none
        ELSE FoldLeft(LAMBDA r, pgoff : ReadOnePage(disk, r, ino, f, pos, got, pgoff, end, bad),
                      none, [i \in 1 .. end - first |-> first + i - 1])
=============================================================================
