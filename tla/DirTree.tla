------------------------------ MODULE DirTree ------------------------------
(***************************************************************************)
(* The directory tree of the mounted partition: path search, sys_mkdir     *)
(* with its rollback ladder, sys_rmdir through dir_remove, file creation   *)
(* by sys_open(O_CREAT), sys_chdir and sys_getcwd (fs/fs.c, fs/dir.c).     *)
(*                                                                         *)
(* State is what the disk and the in-memory bitmaps hold: the inode and    *)
(* block bitmaps, every inode's on-disk record (the first direct block and *)
(* i_size, counted in directory entries), the entries of every data block, *)
(* and each process's cwd_inode_no.  inode_release clears bitmap bits      *)
(* only, so a freed inode keeps its record and a freed block its entries   *)
(* until they are allocated again; that is how a stale inode number is     *)
(* read by the kernel.                                                     *)
(*                                                                         *)
(* Each call is one step.  A call that reaches the disk holds the IDE      *)
(* channel lock across every ide_read/ide_write and does not yield between *)
(* them with interrupts off, so two directory calls never interleave.  A   *)
(* refused call (-1 without a change) is a stuttering step and left out.   *)
(***************************************************************************)
EXTENDS Integers, Sequences, FiniteSets, SequencesExt

CONSTANTS
    Procs,      \* processes, each with its own cwd_inode_no
    Names,      \* file names used in paths
    NInodes,    \* inodes of the partition; inode 0 is the root directory
    NBlocks,    \* data blocks; block 0 holds the root directory
    Paths       \* absolute paths the calls are given, as sequences of names

DOT == "."
DOTDOT == ".."
FT_DIRECTORY == "dir"
FT_REGULAR == "reg"
FT_UNKNOWN == "unknown"

Inodes == 0 .. NInodes - 1
Blocks == 0 .. NBlocks - 1
NoBlock == -1          \* i_sectors[0] = 0: no block allocated

ASSUME /\ NInodes \in 2 .. 6 /\ NBlocks \in 2 .. NInodes
       /\ Paths \subseteq Seq(Names \cup {DOT, DOTDOT})

VARIABLES
    inode_bitmap,   \* allocated inode numbers (the in-memory inode bitmap)
    block_bitmap,   \* allocated data blocks (the in-memory block bitmap)
    inode_table,    \* on-disk record of every inode: [i_sectors0, i_size]
    disk_block,     \* entries held by every data block
    cwd_inode_no,   \* per process
    panicked        \* "none", or the ASSERT that stopped the kernel

vars == <<inode_bitmap, block_bitmap, inode_table, disk_block,
          cwd_inode_no, panicked>>

Entry(name, ino, type) == [filename |-> name, i_no |-> ino, f_type |-> type]
EntryT == [filename : Names \cup {DOT, DOTDOT}, i_no : Inodes,
           f_type : {FT_DIRECTORY, FT_REGULAR}]
RecordT == [i_sectors0 : Blocks \cup {NoBlock}, i_size : 0 .. NInodes + 2]

\* partition_format: the root directory in block 0 with "." and "..".
Init ==
    /\ inode_bitmap = {0}
    /\ block_bitmap = {0}
    /\ inode_table = [i \in Inodes |->
                        IF i = 0 THEN [i_sectors0 |-> 0, i_size |-> 2]
                                 ELSE [i_sectors0 |-> NoBlock, i_size |-> 0]]
    /\ disk_block = [b \in Blocks |->
                        IF b = 0 THEN {Entry(DOT, 0, FT_DIRECTORY),
                                       Entry(DOTDOT, 0, FT_DIRECTORY)}
                                 ELSE {}]
    /\ cwd_inode_no = [p \in Procs |-> 0]
    /\ panicked = "none"

-----------------------------------------------------------------------------
(* Allocation and directory blocks                                         *)

LowestFree(used, all) == IF all \ used = {} THEN -1
                         ELSE CHOOSE x \in all \ used :
                                \A y \in all \ used : x =< y

\* inode_bitmap_alloc / block_bitmap_alloc: bitmap_scan for the lowest
\* clear bit, -1 when there is none.
inode_bitmap_alloc == LowestFree(inode_bitmap, Inodes)
block_bitmap_alloc == LowestFree(block_bitmap, Blocks)

\* The entries of a directory: its only block, i_sectors[0].  (Within the
\* bounds no directory fills the 21 entries of its first block, so the
\* other direct blocks and the indirect table stay 0.)
DirBlock(it, db, d) == IF it[d].i_sectors0 = NoBlock THEN {}
                       ELSE db[it[d].i_sectors0]

\* search_dir_entry: the entry named name, scanning the slots in order;
\* the set holds every match, of which the code returns the first.
search_dir_entry(d, name) ==
    {e \in DirBlock(inode_table, disk_block, d) : e.filename = name}

\* search_file from root_dir, one path component per level.  A missing
\* name stops with -1, the directory reached kept as parent; a regular
\* file ends the search even if the path goes on; a directory is opened
\* and searched next.  depth counts the components of searched_path.
RECURSIVE SearchFrom(_, _, _)
SearchFrom(d, rest, depth) ==
    LET found == search_dir_entry(d, Head(rest))
        e == CHOOSE x \in found : TRUE
    IN  IF found = {}
        THEN [ino |-> -1, ftype |-> FT_UNKNOWN, parent |-> d, depth |-> depth + 1]
        ELSE IF e.f_type = FT_REGULAR
        THEN [ino |-> e.i_no, ftype |-> FT_REGULAR, parent |-> d,
              depth |-> depth + 1]
        ELSE IF Tail(rest) = <<>>
        THEN [ino |-> e.i_no, ftype |-> FT_DIRECTORY, parent |-> d,
              depth |-> depth + 1]
        ELSE SearchFrom(e.i_no, Tail(rest), depth + 1)

\* "/", "/." and "/.." are answered without a search.
search_file(path) ==
    IF path \in {<<>>, <<DOT>>, <<DOTDOT>>}
    THEN [ino |-> 0, ftype |-> FT_DIRECTORY, parent |-> 0, depth |-> 0]
    ELSE SearchFrom(0, path, 0)

\* sync_dir_entry of entry e into directory d, given the bitmap, blocks
\* and records as the caller has left them.  An allocated first block
\* takes e in a free slot; with i_sectors[0] = 0 a block is allocated for
\* e alone (case 2.1.a), and with none free the call returns false.  On
\* success i_size grows by one entry.
sync_dir_entry(d, e, bb, db, it) ==
    LET blk == it[d].i_sectors0
        nb == LowestFree(bb, Blocks)
    IN  IF blk # NoBlock
        THEN [ok |-> TRUE, bb |-> bb, db |-> [db EXCEPT ![blk] = @ \cup {e}],
              it |-> [it EXCEPT ![d].i_size = @ + 1]]
        ELSE IF nb = -1
        THEN [ok |-> FALSE, bb |-> bb, db |-> db, it |-> it]
        ELSE [ok |-> TRUE, bb |-> bb \cup {nb}, db |-> [db EXCEPT ![nb] = {e}],
              it |-> [it EXCEPT ![d] = [i_sectors0 |-> nb, i_size |-> @.i_size + 1]]]

-----------------------------------------------------------------------------
(* sys_mkdir                                                               *)

\* The path must not exist and every directory above it must (the depths
\* of pathname and searched_path agree).  An inode and a block are
\* allocated (failure of either rolls back to no change), "." and ".."
\* are written to the block, and the entry is synced into the parent.
\* Should that fail, rollback step 3 clears both bits; the block written
\* stays on disk.  On success the parent's record, the new record and
\* both bitmaps are synced.
Mkdir(path) ==
    LET r == search_file(path)
        ino == inode_bitmap_alloc
        blk == block_bitmap_alloc
        dots == [disk_block EXCEPT ![blk] = {Entry(DOT, ino, FT_DIRECTORY),
                                             Entry(DOTDOT, r.parent, FT_DIRECTORY)}]
        s == sync_dir_entry(r.parent, Entry(Last(path), ino, FT_DIRECTORY),
                            block_bitmap \cup {blk}, dots, inode_table)
    IN  /\ r.ino = -1 /\ r.depth = Len(path)
        /\ ino # -1 /\ blk # -1
        /\ IF s.ok
           THEN /\ inode_bitmap' = inode_bitmap \cup {ino}
                /\ block_bitmap' = s.bb
                /\ disk_block' = s.db
                /\ inode_table' = [s.it EXCEPT ![ino] = [i_sectors0 |-> blk, i_size |-> 2]]
           ELSE /\ disk_block' = dots
                /\ UNCHANGED <<inode_bitmap, block_bitmap, inode_table>>
        /\ UNCHANGED <<cwd_inode_no, panicked>>

-----------------------------------------------------------------------------
(* sys_rmdir                                                               *)

\* Faulty variant of delete_dir_entry (checked to break
\* DirLinksConsistent): the entry is cleared but i_size is not reduced.
delete_dir_entry_keeps_size(d, ino) ==
    LET blk == inode_table[d].i_sectors0
        named == {e \in DirBlock(inode_table, disk_block, d) :
                    e.filename \notin {DOT, DOTDOT}}
        found == {e \in named : e.i_no = ino}
    IN  IF found = {}
        THEN [bb |-> block_bitmap, db |-> disk_block, it |-> inode_table, panic |-> "none"]
        ELSE [bb |-> block_bitmap, db |-> [disk_block EXCEPT ![blk] = @ \ found],
              it |-> inode_table, panic |-> "none"]

\* delete_dir_entry of the entry (not "." or "..") whose i_no is ino in
\* directory d.  No match: nothing changes (false).  Two matches fail
\* ASSERT(dir_entry_found == NULL).  If the entry is the only one of a
\* block that is not the directory's first (no "." in it), the block is
\* freed and i_sectors[0] cleared; otherwise the slot is zeroed.  Then
\* ASSERT(i_size >= dir_entry_size) and i_size shrinks by one entry.
delete_dir_entry(d, ino) ==
    LET blk == inode_table[d].i_sectors0
        all == DirBlock(inode_table, disk_block, d)
        named == {e \in all : e.filename \notin {DOT, DOTDOT}}
        found == {e \in named : e.i_no = ino}
        recycle == Cardinality(named) = 1 /\ \A e \in all : e.filename # DOT
        size == inode_table[d].i_size
    IN  IF found = {}
        THEN [bb |-> block_bitmap, db |-> disk_block, it |-> inode_table, panic |-> "none"]
        ELSE IF Cardinality(found) > 1
        THEN [bb |-> block_bitmap, db |-> disk_block, it |-> inode_table,
              panic |-> "delete_dup"]
        ELSE [bb |-> IF recycle THEN block_bitmap \ {blk} ELSE block_bitmap,
              db |-> IF recycle THEN disk_block
                     ELSE [disk_block EXCEPT ![blk] = @ \ found],
              it |-> [inode_table EXCEPT ![d] =
                        [i_sectors0 |-> IF recycle THEN NoBlock ELSE blk,
                         i_size |-> IF size >= 1 THEN size - 1 ELSE size]],
              panic |-> IF size >= 1 THEN "none" ELSE "dir_size"]

\* Faulty variant of dir_remove (checked to break AllocationMatchesTree):
\* inode_release clears the inode bit but not the bit of the block.
dir_remove_keeps_block(parent, child) ==
    LET d == delete_dir_entry(parent, child)
    IN  /\ inode_bitmap' = inode_bitmap \ {child}
        /\ block_bitmap' = d.bb
        /\ disk_block' = d.db
        /\ inode_table' = d.it
        /\ panicked' = d.panic

\* dir_remove: delete_dir_entry in the parent (its result ignored), then
\* inode_release of the child: the bits of its block and of its inode are
\* cleared, its record and its block's entries are left on disk.
dir_remove(parent, child) ==
    LET d == delete_dir_entry(parent, child)
    IN  /\ inode_bitmap' = inode_bitmap \ {child}
        /\ block_bitmap' = d.bb \ {d.it[child].i_sectors0}
        /\ disk_block' = d.db
        /\ inode_table' = d.it
        /\ panicked' = d.panic

\* search_file, then ASSERT(inode_no != 0): "/", "/." and "/.." and any
\* path ending at the root stop the kernel.  Not found, a regular file or
\* a directory whose i_size is not two entries: -1.  Otherwise
\* dir_remove, whose result is always 0.
Rmdir(path) ==
    LET r == search_file(path)
    IN  /\ \/ /\ r.ino = 0
              /\ panicked' = "rmdir_root"
              /\ UNCHANGED <<inode_bitmap, block_bitmap, inode_table, disk_block>>
           \/ /\ r.ino \notin {-1, 0} /\ r.ftype = FT_DIRECTORY
              /\ inode_table[r.ino].i_size = 2
              /\ dir_remove(r.parent, r.ino)
        /\ UNCHANGED cwd_inode_no

-----------------------------------------------------------------------------
(* sys_open(O_CREAT), sys_chdir, sys_getcwd                                *)

\* sys_open with O_CREAT and file_create.  Refused: a path ending in '/'
\* (the root), a directory, a missing directory above the name, or a name
\* that exists; then a failed inode_bitmap_alloc or sync_dir_entry rolls
\* back to no change.  The new record has no block and i_size 0; the parent
\* record and the inode bitmap are synced.  The open-file slot and fd the
\* call also installs are FileTable's and ProcFds' state.
Create(path) ==
    LET r == search_file(path)
        ino == inode_bitmap_alloc
        s == sync_dir_entry(r.parent, Entry(Last(path), ino, FT_REGULAR),
                            block_bitmap, disk_block, inode_table)
    IN  /\ path # <<>>
        /\ r.ftype # FT_DIRECTORY /\ r.depth = Len(path) /\ r.ino = -1
        /\ ino # -1 /\ s.ok
        /\ inode_bitmap' = inode_bitmap \cup {ino}
        /\ block_bitmap' = s.bb
        /\ disk_block' = s.db
        /\ inode_table' = [s.it EXCEPT ![ino] = [i_sectors0 |-> NoBlock, i_size |-> 0]]
        /\ UNCHANGED <<cwd_inode_no, panicked>>

\* Faulty variant of sys_chdir (checked to break TypeOK): the result of
\* search_file is not tested for -1 before it becomes the cwd.
Chdir_no_found_check(p, path) ==
    LET r == search_file(path)
    IN  /\ r.ftype # FT_REGULAR
        /\ cwd_inode_no' = [cwd_inode_no EXCEPT ![p] = r.ino]
        /\ UNCHANGED <<inode_bitmap, block_bitmap, inode_table, disk_block, panicked>>

\* sys_chdir: a path found that is not a regular file becomes the cwd.
Chdir(p, path) ==
    LET r == search_file(path)
    IN  /\ r.ino # -1 /\ r.ftype # FT_REGULAR
        /\ cwd_inode_no' = [cwd_inode_no EXCEPT ![p] = r.ino]
        /\ UNCHANGED <<inode_bitmap, block_bitmap, inode_table, disk_block, panicked>>

\* Faulty variant of get_parent_dir_inode_nr (checked to break
\* CwdNamesItself): it reads slot 0, the directory's own ".", not slot 1.
get_parent_dir_inode_nr_slot0(c) ==
    LET blk == inode_table[c].i_sectors0
        dd == {e \in disk_block[blk] : e.filename = DOT}
    IN  IF blk = NoBlock \/ dd = {} THEN -1 ELSE (CHOOSE e \in dd : TRUE).i_no

\* get_parent_dir_inode_nr: the ".." entry, slot 1 of the child's first
\* block.  ASSERT(block_lba >= data_start_lba) fails when i_sectors[0] is 0,
\* and ASSERT(f_type == FT_DIRECTORY) when slot 1 holds no "..": -1 here.
get_parent_dir_inode_nr(c) ==
    LET blk == inode_table[c].i_sectors0
        dd == {e \in disk_block[blk] : e.filename = DOTDOT}
    IN  IF blk = NoBlock \/ dd = {} THEN -1 ELSE (CHOOSE e \in dd : TRUE).i_no

\* get_child_dir_name: the names of the slots of the parent whose i_no is
\* the child's (the code takes the first); empty means -1.
get_child_dir_name(p, c) ==
    {e.filename : e \in {x \in DirBlock(inode_table, disk_block, p) : x.i_no = c}}

\* The walk of sys_getcwd from cwd up to the root, one level per step of
\* the loop, building the path from the last component back.  Its outcome
\* is a path, "null" when a name is not found, "panic" when an ASSERT of
\* get_parent_dir_inode_nr fails, or "loop" when the walk revisits a
\* level (the loop never ends, overrunning full_path_reverse).
RECURSIVE GetcwdFrom(_, _, _)
GetcwdFrom(c, acc, fuel) ==
    LET parent == get_parent_dir_inode_nr(c)
        names == get_child_dir_name(parent, c)
    IN  IF c = 0 THEN [kind |-> "path", path |-> acc]
        ELSE IF fuel = 0 THEN [kind |-> "loop", path |-> acc]
        ELSE IF parent = -1 THEN [kind |-> "panic", path |-> acc]
        ELSE IF names = {} THEN [kind |-> "null", path |-> acc]
        ELSE GetcwdFrom(parent, <<CHOOSE n \in names : TRUE>> \o acc, fuel - 1)

GetcwdOf(p) == GetcwdFrom(cwd_inode_no[p], <<>>, NInodes)

\* sys_getcwd changes no state unless its walk stops the kernel.
Getcwd(p) ==
    /\ GetcwdOf(p).kind \in {"panic", "loop"}
    /\ panicked' = "getcwd_" \o GetcwdOf(p).kind
    /\ UNCHANGED <<inode_bitmap, block_bitmap, inode_table, disk_block, cwd_inode_no>>

\* After a kernel panic nothing runs.
Next ==
    /\ panicked = "none"
    /\ \/ \E path \in Paths : Mkdir(path) \/ Rmdir(path) \/ Create(path)
       \/ \E p \in Procs, path \in Paths : Chdir(p, path)
       \/ \E p \in Procs : Getcwd(p)

Spec == Init /\ [][Next]_vars

-----------------------------------------------------------------------------
(* Properties                                                              *)

TypeOK ==
    /\ inode_bitmap \subseteq Inodes /\ block_bitmap \subseteq Blocks
    /\ inode_table \in [Inodes -> RecordT]
    /\ disk_block \in [Blocks -> SUBSET EntryT]
    /\ cwd_inode_no \in [Procs -> Inodes]

\* Entries of directory d other than "." and "..".
SubEntries(d) == {e \in DirBlock(inode_table, disk_block, d) :
                    e.filename \notin {DOT, DOTDOT}}

\* Directories reached from the root through directory entries.
RECURSIVE ReachFrom(_, _)
ReachFrom(S, k) ==
    IF k = 0 THEN S
    ELSE ReachFrom(S \cup {e.i_no : e \in {x \in UNION {SubEntries(d) : d \in S} :
                                            x.f_type = FT_DIRECTORY}}, k - 1)
TreeDirs == ReachFrom({0}, NInodes)
TreeEntries == UNION {SubEntries(d) : d \in TreeDirs}

\* mkdir, create and rmdir allocate and free exactly what the tree uses:
\* the inode bitmap holds the root and the inodes named by entries of the
\* tree, the block bitmap the blocks of its directories.  A rollback that
\* keeps a bit, or a release that misses one, leaks it for good.
AllocationMatchesTree ==
    /\ inode_bitmap = {0} \cup {e.i_no : e \in TreeEntries}
    /\ block_bitmap = {inode_table[d].i_sectors0 : d \in TreeDirs}

\* Every inode is named by one entry; a directory named in P holds "."
\* for itself and ".." for P; and i_size, on which rmdir's emptiness test
\* relies, counts the entries its block holds.
DirLinksConsistent ==
    /\ \A e1, e2 \in TreeEntries : e1.i_no = e2.i_no => e1 = e2
    /\ \A d \in TreeDirs : \A e \in SubEntries(d) : e.f_type = FT_DIRECTORY =>
         {x \in DirBlock(inode_table, disk_block, e.i_no) : x.filename \in {DOT, DOTDOT}}
           = {Entry(DOT, e.i_no, FT_DIRECTORY), Entry(DOTDOT, d, FT_DIRECTORY)}
    /\ \A d \in TreeDirs : inode_table[d].i_size = 2 + Cardinality(SubEntries(d))

\* What sys_getcwd returns, when it returns a path, is a path that
\* search_file resolves to the process's cwd_inode_no: a chdir followed
\* by a getcwd names the directory chdir entered.
CwdNamesItself ==
    \A p \in Procs :
        LET o == GetcwdOf(p)
        IN  \/ o.kind \in {"null", "panic"}
            \/ o.kind = "path" /\ search_file(o.path).ino = cwd_inode_no[p]

\* rmdir removes the directory's entry from its parent before its inode
\* is released: no entry of the tree names a freed inode.
NoDanglingEntry == \A e \in TreeEntries : e.i_no \in inode_bitmap

\* sys_getcwd never stops the kernel, whatever the calls before it.
GetcwdNeverFaults == panicked \notin {"getcwd_panic", "getcwd_loop"}

====
