------------------------------- MODULE MCFiles -------------------------------
(* Instances of Files for TLC. *)
EXTENDS Files

\* A tar archive: each file a header and its blocks; byte i of file n is
\* <<fs, n, i>>, the last block is padded with zeros.
Blocks(fs, f) ==
    <<[magic |-> TRUE, name |-> f.name, type |-> f.type, size |-> f.size]>>
    \o [b \in 1 .. (f.size + SECTOR - 1) \div SECTOR |->
          [magic |-> FALSE, bytes |-> [k \in 1 .. SECTOR |->
              LET i == (b - 1) * SECTOR + k IN IF i <= f.size THEN <<fs, f.name, i>> ELSE <<fs, "", 0>>]]]

Archive(fs, files) ==
    LET seq == FoldLeft(LAMBDA s, f : s \o Blocks(fs, f), <<>>, files) \o <<[magic |-> FALSE]>>
    IN  [b \in 0 .. Len(seq) - 1 |-> seq[b + 1]]

Reg(name, size) == [name |-> name, type |-> "0", size |-> size]
SomeDisk == Archive("tar", <<Reg("sh", 2), [name |-> "d", type |-> "5", size |-> 0], Reg("big", 9)>>)
SomeInitrd == Archive("ram", <<Reg("motd", 3)>>)

Abs(names) == [abs |-> TRUE, names |-> names]
SomePaths == {Abs(<<"mnt", "sh">>), Abs(<<"mnt", "big">>), Abs(<<"mnt", "new">>), Abs(<<"home", "x">>), Abs(<<"x">>)}
SomeListed == {Abs(<<"mnt">>), Abs(<<"home">>)}
SomeBoot == <<[path |-> [abs |-> FALSE, names |-> <<"motd">>], len |-> 3],
              [path |-> Abs(<<"mnt", "sh">>), len |-> 1]>>

Roots == [t \in Task |-> IF t = 1 THEN <<>> ELSE <<"home">>]
Tasks == 1 .. 2

\* The bytes programs write are interchangeable.
ByteSymmetry == Permutations(Bytes)

\* The answer is left out, and so is the order of the slots.
View == <<inode, mounts, Range(cache), fd, boot, wild>>
==============================================================================
