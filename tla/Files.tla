-------------------------------- MODULE Files --------------------------------
(***************************************************************************)
(* Files as user programs see them: the descriptors of the tasks and the   *)
(* calls on them (kernel/syscall.c), path lookup and creation (fs/vfs.c,   *)
(* fs/mount.c), the initrd as root (fs/ramfs.c), the archive of the disk   *)
(* under /mnt (TarFs) and the writable files under /home (fs/memfs.c).     *)
(* A call is one step: int 0x80 enters with interrupts off.                *)
(***************************************************************************)
EXTENDS TarFs, FiniteSets, FiniteSetsExt

CONSTANTS
    Task,
    RootPath,      \* root_path of each task as names, empty if it has none
    Disk, Initrd,  \* sectors of the first ATA disk, of the initrd
    Paths,         \* paths programs open: [abs, names]
    Listed,        \* directories programs list
    BootReads,     \* what kernel_main reads before the shell: [path, len]
    PATH_NAMES,    \* names that fit a resolved path, 128 bytes in the code
    FD_MAX,        \* 8
    MEMFS_MIN,     \* first capacity of a memfs file, 64
    RAW,           \* a byte of a heap block that nothing has written
    Bytes,         \* bytes programs write
    Lens,          \* lengths programs read
    EXEC_LEN,      \* bytes exec and spawn read of a program
    Faulty,        \* sectors the drive may fail to read
    MAX_WRITE,     \* bound: bytes of one write
    MAX_SIZE,      \* bound: bytes of a memfs file
    MAX_CREATED,   \* bound: files created
    MAX_FREED      \* bound: freed dentries still linked

ASSUME FilesAssumption == MEMFS_MIN \in Nat \ {0} /\ \A p \in Paths : p.names # <<>>

VARIABLES
    inode,     \* inode[i]: the inode with number i
    mounts,    \* mount points: [path, ino]
    cache,     \* the page cache
    fd,        \* fd[t][n]: the file of descriptor n of task t
    boot,      \* reads of kernel_main still to do
    wild,      \* the kernel has walked over a dentry that was freed
    answer     \* the last call and what it returned

vars == <<inode, mounts, cache, fd, boot, wild, answer>>

Fd == 3 .. FD_MAX - 1
NoFile == [name |-> "", ino |-> 0, pos |-> 0, last_pgoff |-> 0]
NONE == 0
FREED == -1

\* A dentry that was freed while its directory still links it.
FreedDentry == [name |-> "", ino |-> FREED]

NoAnswer == [op |-> "none", ino |-> 0, at |-> 0, len |-> 0, bytes |-> <<>>, name |-> "", starved |-> FALSE]

IsDir(i) == inode[i].type = "dir"
IsMem(i) == inode[i].fs = "mem" /\ ~IsDir(i)
Freed == Cardinality({i \in DOMAIN inode : IsDir(i) /\ FreedDentry \in Range(inode[i].children)})
MemFiles == {i \in DOMAIN inode : IsMem(i)}

-----------------------------------------------------------------------------
(* Lookup: an inode number, NONE, or FREED when the walk meets a freed dentry *)

\* vfs_generic_lookup, for directories; a file has no lookup operation.
vfs_lookup_component(dir, name) ==
    LET children == inode[dir].children
        k == SelectInSeq(children, LAMBDA d : d.name = name \/ d.ino = FREED)
    IN  IF ~IsDir(dir) \/ k = 0 THEN NONE ELSE children[k].ino

vfs_lookup_from(base, names) ==
    FoldLeft(LAMBDA at, name : IF at \in {NONE, FREED} THEN at ELSE vfs_lookup_component(at, name),
             base, names)

\* The longest mount point that is a prefix of the path, and the names after it;
\* the root of the tree is mounted at the empty path.
vfs_find_mount(path) ==
    LET fits == {m \in mounts : m.path = <<>> \/ (path.abs /\ IsPrefix(m.path, path.names))}
        best == CHOOSE m \in fits : \A o \in fits : Len(m.path) >= Len(o.path)
    IN  [base |-> best.ino, rest |-> SubSeq(path.names, Len(best.path) + 1, Len(path.names))]

\* The path below the root of the task, unless it does not fit the buffer.
resolve_path(root, path) ==
    IF root = <<>> \/ Len(root) + Len(path.names) > PATH_NAMES THEN path
    ELSE [abs |-> TRUE, names |-> root \o path.names]

is_path_allowed(root, path) == root = <<>> \/ (path.abs /\ IsPrefix(root, path.names))

vfs_lookup(root, path) ==
    LET m == vfs_find_mount(path) IN
    IF is_path_allowed(root, path) THEN vfs_lookup_from(m.base, m.rest) ELSE NONE

-----------------------------------------------------------------------------
(* memfs.c *)

\* Mutant: the buffer is given back.
Truncated_frees(f) == [f EXCEPT !.size = 0, !.data = <<>>]

\* O_TRUNC: the size is reset, the buffer kept.
Truncated(f) == [f EXCEPT !.size = 0]

\* The capacity is doubled until need fits.
memfs_capacity(cap, need) ==
    LET grow[c \in Nat] == IF c < need THEN grow[2 * c] ELSE c IN
    grow[IF cap = 0 THEN MEMFS_MIN ELSE cap]

\* Mutant: the old contents are not copied.
Grown_empty(f, need) ==
    IF need <= Len(f.data) THEN f.data
    ELSE [i \in 1 .. memfs_capacity(Len(f.data), need) |-> RAW]

\* The buffer with room for need bytes: the first size bytes are copied.
Grown(f, need) ==
    IF need <= Len(f.data) THEN f.data
    ELSE [i \in 1 .. memfs_capacity(Len(f.data), need) |-> IF i <= f.size THEN f.data[i] ELSE RAW]

memfs_write(f, pos, bytes) ==
    LET end  == pos + Len(bytes)
        data == Grown(f, end)
    IN  [f EXCEPT !.size = IF end > @ THEN end ELSE @,
                  !.data = [i \in DOMAIN data |-> IF i \in pos + 1 .. end THEN bytes[i - pos] ELSE data[i]]]

memfs_read(f, pos, len) == SubSeq(f.data, pos + 1, pos + Least(len, Monus(f.size, pos)))

-----------------------------------------------------------------------------
(* Open and create *)

\* The walk over a freed dentry: what the kernel does from here on is undefined.
GoesWild == wild' = TRUE /\ answer' = NoAnswer /\ UNCHANGED <<inode, mounts, cache, fd, boot>>

Fails == answer' = [NoAnswer EXCEPT !.op = "open"] /\ UNCHANGED <<mounts, cache, fd, boot, wild>>

\* The file structure that vfs_open makes for inode i: at the start of the file.
vfs_open(name, i) == [NoFile EXCEPT !.name = name, !.ino = i]

\* The first free descriptor takes the file; with none free it is closed again.
Installs(t, name, i) ==
    LET free == {n \in Fd : fd[t][n] = NoFile} IN
    /\ fd' = IF free = {} THEN fd
             ELSE [fd EXCEPT ![t][Min(free)] = vfs_open(name, i)]
    /\ answer' = [NoAnswer EXCEPT !.op = "open"]
    /\ UNCHANGED <<mounts, cache, boot, wild>>

\* Dentry d becomes the first child of a directory.
vfs_new_dentry(dir, d) == [inode EXCEPT ![dir].children = <<d>> \o @]

\* vfs_create: the new dentry is linked before the directory is asked to create
\* the file.  Only memfs can; elsewhere, or with no memory for the inode, the
\* dentry is freed and stays linked.  With no memory for the file structure the
\* file exists all the same.  A relative path of one name takes the name itself
\* for the directory.
vfs_create(t, path) ==
    LET m    == vfs_find_mount(path)
        dirs == IF ~path.abs /\ Len(m.rest) = 1 THEN m.rest ELSE Front(m.rest)
        dir  == vfs_lookup_from(m.base, dirs)
        name == Last(m.rest)
        i    == Len(inode) + 1
        Created == Append(vfs_new_dentry(dir, [name |-> name, ino |-> i]),
                          [type |-> "file", fs |-> "mem", size |-> 0, data |-> <<>>])
    IN  \/ Fails /\ UNCHANGED inode
        \/ /\ m.rest # <<>> /\ dir \notin {NONE, FREED} /\ IsDir(dir)
           /\ vfs_lookup_component(dir, name) = NONE
           /\ \/ Freed < MAX_FREED /\ Fails /\ inode' = vfs_new_dentry(dir, FreedDentry)
              \/ /\ inode[dir].fs = "mem" /\ Cardinality(MemFiles) < MAX_CREATED
                 /\ inode' = Created
                 /\ Fails \/ Installs(t, name, i)
        \/ m.rest # <<>> /\ dir = FREED /\ GoesWild
        \/ m.rest # <<>> /\ dir \notin {NONE, FREED} /\ vfs_lookup_component(dir, name) = FREED /\ GoesWild

\* With no memory for the file structure vfs_open fails as if the file were
\* missing, and O_CREAT goes on to create it.
sys_open(t, p, creat, trunc) ==
    LET path == resolve_path(RootPath[t], p)
        i    == vfs_lookup(RootPath[t], path)
    IN  /\ ~wild /\ boot = <<>>
        /\ \/ i = FREED /\ GoesWild
           \/ i # FREED /\ creat /\ vfs_create(t, path)
           \/ i # FREED /\ ~creat /\ Fails /\ UNCHANGED inode
           \/ /\ i \notin {NONE, FREED}
              /\ inode' = IF trunc /\ IsMem(i) THEN [inode EXCEPT ![i] = Truncated(@)] ELSE inode
              /\ Installs(t, Last(path.names), i)

-----------------------------------------------------------------------------
(* Reads and writes *)

\* What vfs_read gives for a file at its position: the bytes, the cache after
\* it, last_pgoff, and whether page frames ran out.  A directory has no read.
vfs_read(file, len, c) ==
    LET f    == inode[file.ino]
        tar  == tarfs_read(Disk, cache, c.frames, file.ino, f, file.pos, file.last_pgoff, len, c.bad)
        Same(bytes) == [bytes |-> bytes, cache |-> cache, last_pgoff |-> file.last_pgoff, starved |-> FALSE]
    IN  CASE IsDir(file.ino) -> Same(<<>>)
          [] IsMem(file.ino) -> Same(memfs_read(f, file.pos, len))
          [] f.type = "file" /\ f.fs = "ram" ->
                Same([k \in 1 .. Least(len, Monus(f.size, file.pos)) |->
                        LET at == f.offset + file.pos + k - 1 IN
                        Initrd[at \div SECTOR].bytes[(at % SECTOR) + 1]])
          [] f.type = "file" /\ f.fs = "tar" ->
                [bytes |-> tar.bytes, cache |-> tar.p.cache, last_pgoff |-> tar.last_pgoff,
                 starved |-> tar.p.frames = 0]

\* What a read may meet: few page frames, and sectors that fail.  Only tarfs
\* uses either.
Circumstances(i) ==
    IF inode[i].fs = "tar" THEN [frames : {0, 1, PAGE_CACHE_SIZE}, bad : SUBSET Faulty]
    ELSE {[frames |-> 0, bad |-> {}]}

Reads(file, len, r) ==
    /\ cache' = r.cache
    /\ answer' = [op |-> "read", ino |-> file.ino, at |-> file.pos, len |-> len, bytes |-> r.bytes,
                  name |-> file.name, starved |-> r.starved]

sys_read(t, n, len) ==
    LET file == fd[t][n] IN
    /\ ~wild /\ file # NoFile
    /\ \E c \in Circumstances(file.ino) :
          LET r == vfs_read(file, len, c) IN
          /\ Reads(file, len, r)
          /\ fd' = [fd EXCEPT ![t][n].pos = @ + Len(r.bytes), ![t][n].last_pgoff = r.last_pgoff]
    /\ UNCHANGED <<inode, mounts, boot, wild>>

\* The kernel reads a file for itself: opened, which fails without the file or
\* memory for the structure, read once from its start, closed.
KernelReads(root, path, len) ==
    LET i    == vfs_lookup(root, path)
        file == vfs_open(Last(path.names), i)
    IN  /\ \/ answer' = NoAnswer /\ UNCHANGED cache
           \/ i # NONE /\ \E c \in Circumstances(i) : Reads(file, len, vfs_read(file, len, c))
        /\ UNCHANGED <<inode, mounts, fd, wild>>

\* exec of a task, or a spawn of the watchdog, which has no root path.
ReadProgram(root, p) ==
    LET path == resolve_path(root, p) IN
    /\ ~wild /\ boot = <<>>
    /\ \/ vfs_lookup(root, path) = FREED /\ GoesWild
       \/ vfs_lookup(root, path) # FREED /\ KernelReads(root, path, EXEC_LEN) /\ UNCHANGED boot

\* kernel_main: the next of its reads; a file that cannot be opened is passed over.
BootRead ==
    /\ boot # <<>>
    /\ boot' = Tail(boot)
    /\ KernelReads(<<>>, Head(boot).path, Head(boot).len)

\* Only memfs writes.  With no memory to grow the file it is left as it was.
sys_write(t, n, bytes) ==
    LET file == fd[t][n]
        f    == inode[file.ino]
        end  == file.pos + Len(bytes)
    IN  /\ ~wild /\ file # NoFile /\ end <= MAX_SIZE
        /\ \/ /\ IsMem(file.ino)
              /\ inode' = [inode EXCEPT ![file.ino] = memfs_write(f, file.pos, bytes)]
              /\ fd' = [fd EXCEPT ![t][n].pos = end]
              /\ answer' = [NoAnswer EXCEPT !.op = "write", !.ino = file.ino, !.at = file.pos,
                                            !.len = Len(bytes), !.bytes = bytes]
           \/ /\ IsMem(file.ino) => end > Len(f.data)
              /\ answer' = NoAnswer /\ UNCHANGED <<inode, fd>>
        /\ UNCHANGED <<mounts, cache, boot, wild>>

sys_close(t, n) ==
    /\ ~wild /\ fd[t][n] # NoFile
    /\ fd' = [fd EXCEPT ![t][n] = NoFile]
    /\ answer' = NoAnswer
    /\ UNCHANGED <<inode, mounts, cache, boot, wild>>

\* task_exit closes every descriptor; the slot starts again with none.
task_exit(t) ==
    /\ ~wild /\ fd[t] # [n \in Fd |-> NoFile]
    /\ fd' = [fd EXCEPT ![t] = [n \in Fd |-> NoFile]]
    /\ answer' = NoAnswer
    /\ UNCHANGED <<inode, mounts, cache, boot, wild>>

\* The names of a directory, as many as the buffer has room for.
sys_ls(t, p, room) ==
    LET i     == vfs_lookup(RootPath[t], resolve_path(RootPath[t], p))
        shown == SubSeq(inode[i].children, 1, Least(room, Len(inode[i].children)))
    IN  /\ ~wild /\ boot = <<>>
        /\ CASE i = FREED -> GoesWild
             [] i = NONE -> Fails /\ UNCHANGED inode
             [] i \notin {NONE, FREED} /\ ~IsDir(i) -> Fails /\ UNCHANGED inode
             [] i \notin {NONE, FREED} /\ IsDir(i) ->
                   IF FreedDentry \in Range(shown) THEN GoesWild
                   ELSE /\ answer' = [NoAnswer EXCEPT !.op = "ls", !.ino = i, !.bytes = [k \in DOMAIN shown |-> shown[k].name]]
                        /\ UNCHANGED <<inode, mounts, cache, fd, boot, wild>>

-----------------------------------------------------------------------------
(* Mounting: the files of an archive, newest dentry first *)

FillSuper(fs, disk, bad, first) ==
    LET files == tar_files(disk, bad)
        n     == Len(files)
    IN  <<[type |-> "dir", fs |-> fs,
           children |-> [k \in 1 .. n |-> [name |-> files[n + 1 - k].name, ino |-> first + n + 1 - k]]]>>
        \o [k \in 1 .. n |-> [type |-> "file", fs |-> fs, offset |-> files[k].offset, size |-> files[k].size]]

\* kernel_main: the initrd as root, the first disk under /mnt if there is one,
\* memfs under /home.
Init ==
    \E found \in BOOLEAN, bad \in SUBSET Faulty :
        LET ram == FillSuper("ram", Initrd, {}, 1)
            tar == IF found THEN FillSuper("tar", Disk, bad, Len(ram) + 1) ELSE <<>>
            mem == <<[type |-> "dir", fs |-> "mem", children |-> <<>>]>>
        IN  /\ inode = ram \o tar \o mem
            /\ mounts = {[path |-> <<>>, ino |-> 1], [path |-> <<"home">>, ino |-> Len(ram \o tar) + 1]}
                        \cup (IF found THEN {[path |-> <<"mnt">>, ino |-> Len(ram) + 1]} ELSE {})
            /\ cache = <<>>
            /\ fd = [t \in Task |-> [n \in Fd |-> NoFile]]
            /\ boot = BootReads
            /\ wild = FALSE
            /\ answer = NoAnswer

\* Once wild, the model no longer follows the kernel.
Wild == wild /\ UNCHANGED vars

Writes == UNION {[1 .. n -> Bytes] : n \in 0 .. MAX_WRITE}
Rooms == {1, MAX_CREATED}

Next ==
    \/ BootRead
    \/ \E root \in {<<>>} \cup Range(RootPath), p \in Paths : ReadProgram(root, p)
    \/ \E t \in Task, p \in Paths, creat, trunc \in BOOLEAN : sys_open(t, p, creat, trunc)
    \/ \E t \in Task, p \in Listed, room \in Rooms : sys_ls(t, p, room)
    \/ \E t \in Task, n \in Fd :
          \/ \E bytes \in Writes : sys_write(t, n, bytes)
          \/ \E len \in Lens : sys_read(t, n, len)
          \/ sys_close(t, n)
    \/ \E t \in Task : task_exit(t)
    \/ Wild

Spec == Init /\ [][Next]_vars

-----------------------------------------------------------------------------
(* Properties *)

\* memfs_read and memfs_write copy at data + pos without looking at the
\* capacity first: whatever other descriptors truncated meanwhile, the position
\* of a descriptor lies within the buffer of its file.
PositionInBuffer ==
    \A t \in Task, n \in Fd : LET f == fd[t][n] IN
        f # NoFile /\ IsMem(f.ino) => f.pos <= Len(inode[f.ino].data)

\* A page of a file is cached in one slot only, readahead included, and no slot
\* serves a byte that no transfer wrote: within the file the page has none.
CachedOnceAndWhole ==
    \A j \in DOMAIN cache :
        /\ \A k \in DOMAIN cache : cache[j].ino = cache[k].ino /\ cache[j].pgoff = cache[k].pgoff => j = k
        /\ \A b \in 1 .. PAGE_SIZE :
              cache[j].pgoff * PAGE_SIZE + b <= inode[cache[j].ino].size => cache[j].page[b] # STALE

\* From the archive to the caller: what a read of a file below / or /mnt returns
\* are the bytes that file has in the archive, from the position of the
\* descriptor on, whatever was cached, read ahead or read by others before.  Only
\* a byte of a sector that the drive fails to read may be junk instead: the
\* fault, cached for ever, reaches no other byte and no other file.
ReadReturnsFile ==
    [][answer'.op = "read" /\ answer'.ino \notin MemFiles /\ ~IsDir(answer'.ino) =>
        \A k \in DOMAIN answer'.bytes :
            \/ answer'.bytes[k] = <<inode[answer'.ino].fs, answer'.name, answer'.at + k>>
            \/ /\ answer'.bytes[k] = JUNK /\ inode[answer'.ino].fs = "tar"
               /\ (inode[answer'.ino].offset + answer'.at + k - 1) \div SECTOR \in Faulty]_vars

\* A read of /mnt returns fewer bytes than asked for before the end of the file
\* only when the page cache is full or there was no page frame.
ShortOnlyWhenFull ==
    [][answer'.op = "read" /\ answer'.ino \notin MemFiles /\ ~IsDir(answer'.ino)
       /\ Len(answer'.bytes) < Least(answer'.len, Monus(inode[answer'.ino].size, answer'.at))
       => Len(cache') = PAGE_CACHE_SIZE \/ answer'.starved]_vars

Store == INSTANCE FileStore WITH
    store <- [i \in MemFiles |-> SubSeq(inode[i].data, 1, inode[i].size)], call <- answer

\* memfs implements a store of files: growing a buffer keeps its contents, a
\* write touches its own bytes only, a read returns what was written.
HomeIsFileStore == Store!Spec

\* README.md: "/mnt" is "TARFS 只读", read-only: the directory never changes.
MntIsReadOnly ==
    [][\A i \in DOMAIN inode : inode[i].fs = "tar" => inode'[i] = inode[i]]_vars

=============================================================================
