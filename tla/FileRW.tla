------------------------------- MODULE FileRW -------------------------------
(***************************************************************************)
(* One open regular file of src/fs/file.c and src/fs/fs.c: file_write,     *)
(* file_read and sys_Iseek on one file-table entry, with the file's inode  *)
(* (i_size, i_sectors[0..12]), the indirect table on disk, the in-memory   *)
(* block bitmap and the data blocks.                                       *)
(*                                                                         *)
(* Data is abstracted to positions: file_write appends, so the byte it     *)
(* writes at file position p is given the value p + 1 (0 is a zeroed       *)
(* byte).  A read that returns the right bytes returns consecutive values. *)
(* The geometry is scaled: BLOCK_SIZE bytes per block, NDirect direct      *)
(* blocks (12), NIndirect entries in the indirect table (512 / 4), so the  *)
(* code's literals 140 and 139 are MaxBlocks and MaxBlocks - 1.  uint32_t  *)
(* arithmetic on fd_pos is modulo PosWord.  Bit b of the block bitmap is   *)
(* the block whose LBA is data_start_lba + b; LBA 0 in i_sectors means "no *)
(* block", and bit 0 belongs to the root directory from format time.       *)
(*                                                                         *)
(* Beside the file, one directory of the same partition (dir.c            *)
(* sync_dir_entry and delete_dir_entry): its inode's i_sectors and i_size  *)
(* and its blocks on the same disk, allocated from the same bitmap.  A     *)
(* block holds BLOCK_SIZE directory entries (dir_entry_per_sec, 21), an    *)
(* entry is the inode it names, and a zeroed slot is f_type FT_UNKNOWN.    *)
(***************************************************************************)
EXTENDS Naturals, Integers, Sequences, FiniteSets, SequencesExt

CONSTANTS
    BLOCK_SIZE,    \* bytes per block
    NDirect,       \* direct entries of i_sectors (12)
    NIndirect,     \* entries of the indirect table (512 / 4)
    NBlocks,       \* bits of the block bitmap
    PosWord,       \* 2^32: the range of the uint32_t fd_pos
    WriteCounts,   \* the counts passed to sys_write
    ReadCounts,    \* the counts passed to sys_read
    SeekOffsets,   \* the offsets passed to sys_Iseek
    MallocFails,   \* whether sys_malloc may return NULL
    DirInodes,     \* the inodes the directory's entries may name
    DOT, DOTDOT,   \* the entries "." and ".."
    MbrTable       \* the first NIndirect words of LBA 0 (the MBR)

ASSUME NIndirect <= BLOCK_SIZE

MaxBlocks == NDirect + NIndirect
MaxBytes == MaxBlocks * BLOCK_SIZE
Blk == 0 .. NBlocks - 1
BlockIdx == 0 .. MaxBlocks - 1
Garbage == -1                     \* an uninitialised all_blocks entry
Values == -1 .. MaxBytes
ZeroBlock == [c \in 1 .. BLOCK_SIZE |-> 0]
DirEntries == DirInodes \cup {DOT, DOTDOT}
\* The directory as sys_mkdir leaves it (fs.c 860-881): block 1, the first
\* one block_bitmap_alloc hands out after format, holds "." and "..".
DirFirstBlock == [c \in 1 .. BLOCK_SIZE |-> CASE c = 1 -> DOT [] c = 2 -> DOTDOT [] OTHER -> 0]
SEEK_SET == 1
SEEK_CUR == 2
SEEK_END == 3

\* The (int32_t) cast of a uint32_t.
Int32(x) == IF x >= PosWord \div 2 THEN x - PosWord ELSE x

VARIABLES
    i_size,      \* fd_inode->i_size
    i_sectors,   \* fd_inode->i_sectors[0 .. NDirect]
    bitmap,      \* the set bits of cur_part->block_bitmap
    disk,        \* the content of every block
    fd_pos,      \* file->fd_pos
    ret,         \* the return value of the last system call
    last_read,   \* fd_pos before the last successful read, and its bytes
    panicked,    \* "none", or the ASSERT or loop that stopped the kernel
    dir_sectors, \* the directory inode's i_sectors[0 .. NDirect]
    dir_size     \* its i_size, in entries

dirVars == <<dir_sectors, dir_size>>
vars == <<i_size, i_sectors, bitmap, disk, fd_pos, ret, last_read, panicked,
          dir_sectors, dir_size>>

TypeOK ==
    /\ i_size \in 0 .. MaxBytes
    /\ i_sectors \in [0 .. NDirect -> Blk]
    /\ bitmap \subseteq Blk
    /\ disk \in [Blk -> [1 .. BLOCK_SIZE -> Values \cup DirEntries]]
    /\ fd_pos \in 0 .. PosWord - 1
    /\ ret \in Int
    /\ last_read.from \in 0 .. PosWord - 1
    /\ last_read.data \in Seq(Values)
    /\ panicked \in {"none", "will_use", "no_block", "sector_in_use", "read_index",
                     "delete_loop"}
    /\ dir_sectors \in [0 .. NDirect -> Blk]
    /\ dir_size \in 0 .. MaxBlocks * BLOCK_SIZE

Init ==
    /\ i_size = 0
    /\ i_sectors = [i \in 0 .. NDirect |-> 0]
    /\ bitmap = {0, 1}
    /\ disk = [b \in Blk |-> IF b = 1 THEN DirFirstBlock ELSE ZeroBlock]
    /\ fd_pos = 0
    /\ ret = 0
    /\ last_read = [from |-> 0, data |-> <<>>]
    /\ panicked = "none"
    /\ dir_sectors = [i \in 0 .. NDirect |-> IF i = 0 THEN 1 ELSE 0]
    /\ dir_size = 2

\* ide_read of one block; an LBA that is not a block of the partition
\* reads as garbage.
ReadBlk(dk, lba) == IF lba \in Blk THEN dk[lba] ELSE [c \in 1 .. BLOCK_SIZE |-> Garbage]

\* The indirect table stored in block lba, as all_blocks + 12 sees it.
TableOf(dk, lba) == [j \in 0 .. NIndirect - 1 |-> ReadBlk(dk, lba)[j + 1]]

\* block_bitmap_alloc (file.c 92-102): bitmap_scan returns the lowest free
\* bit, so successive allocations take the free bits in increasing order.
AllocOrder(bm) == SetToSortSeq(Blk \ bm, <)

\* The return of a call that fails, with what it changed before failing.
FailWith(sec, bm, dk) ==
    /\ ret' = -1
    /\ i_sectors' = sec /\ bitmap' = bm /\ disk' = dk
    /\ UNCHANGED <<i_size, fd_pos, last_read, panicked>>

Fail == FailWith(i_sectors, bitmap, disk)

Panic(reason) ==
    /\ panicked' = reason
    /\ UNCHANGED <<i_size, i_sectors, bitmap, disk, fd_pos, ret, last_read>>

(***************************************************************************)
(* file_write (file.c 348-600).                                            *)
(***************************************************************************)
\* An allocation of file_write: the indirect table, or data block idx.
Slot(isTable, idx) == [table |-> isTable, idx |-> idx]

\* The blocks file_write allocates, in the order it allocates them: case 1
\* (will_use <= 12) and case 3 (has_used > 12) the new data blocks; case 2
\* (file.c 447-495) the indirect table first.
Slots(has, will) ==
    LET data == [j \in 1 .. will - has |-> Slot(FALSE, has + j - 1)]
    IN  IF has <= NDirect /\ will > NDirect
          THEN <<Slot(TRUE, NDirect)>> \o data
          ELSE data

\* Where an allocation is kept in i_sectors; -1 for an indirect data block,
\* kept only in all_blocks until the table is written back.
StoredAt(s) ==
    IF s.table THEN NDirect ELSE IF s.idx < NDirect THEN s.idx ELSE -1

\* ASSERT(i_sectors[...] == 0) after each allocation (file.c 437, 462, 480).
SlotFree(sec, s) == StoredAt(s) # -1 => sec[StoredAt(s)] = 0

\* The ASSERTs on blocks that must already exist (file.c 408, 422, 500).
BlocksPresent(sec, has, will) ==
    /\ has > NDirect => sec[NDirect] # 0
    /\ has < will /\ will <= NDirect => sec[has - 1] # 0

\* How many allocations succeed before block_bitmap_alloc returns -1 or an
\* ASSERT fails.
Done(sec, bm, has, will) ==
    LET S == Slots(has, will)
        bad == {j \in 1 .. Len(S) : j > Len(AllocOrder(bm)) \/ ~SlotFree(sec, S[j])}
    IN  IF bad = {} THEN Len(S) ELSE Min(bad) - 1

\* Mutant: the last block in use is not entered in all_blocks, so the
\* first chunk of a write into a partly filled block goes astray.
AllBlocks_no_last_block(sec, dk, has, S, F, k) ==
    [i \in BlockIdx |->
        IF \E j \in 1 .. k : ~S[j].table /\ S[j].idx = i
          THEN F[CHOOSE j \in 1 .. k : ~S[j].table /\ S[j].idx = i]
        ELSE IF i >= NDirect /\ has > NDirect
          THEN TableOf(dk, sec[NDirect])[i - NDirect]
        ELSE Garbage]

\* all_blocks as the write loop uses it: the allocated blocks, the last
\* block in use when it is direct, and the table's entries when the file
\* already uses the indirect table; any other entry is uninitialised.
AllBlocks(sec, dk, has, S, F, k) ==
    [i \in BlockIdx |->
        IF \E j \in 1 .. k : ~S[j].table /\ S[j].idx = i
          THEN F[CHOOSE j \in 1 .. k : ~S[j].table /\ S[j].idx = i]
        ELSE IF i < NDirect
          THEN IF i = has - 1 THEN sec[i] ELSE Garbage
        ELSE IF has > NDirect
          THEN TableOf(dk, sec[NDirect])[i - NDirect]
        ELSE Garbage]

\* Mutant: the indirect table is never written back.
TableWrite_skipped(dk, sec, ab, has, will) == dk

\* ide_write of all_blocks + 12 to the table block (file.c 494, 524) when
\* the write allocated indirect blocks.
TableWrite(dk, sec, ab, has, will) ==
    IF has < will /\ will > NDirect
      THEN [dk EXCEPT ![sec[NDirect]] =
              [c \in 1 .. BLOCK_SIZE |->
                 IF c <= NIndirect THEN ab[NDirect + c - 1] ELSE Garbage]]
      ELSE dk

\* Mutant: the first block is not read back before it is rewritten.
FirstBlockBase_zeroed(dk, ab, idx) == ZeroBlock

\* The content of io_buf before the chunk is copied in: memset to 0, and
\* for the first block the block read back from disk (file.c 563-568).
FirstBlockBase(dk, ab, idx) ==
    IF idx = i_size \div BLOCK_SIZE THEN ReadBlk(dk, ab[idx]) ELSE ZeroBlock

\* The write loop (file.c 548-582): bytes i_size .. i_size + count - 1 go
\* to the blocks all_blocks[i_size / BLOCK_SIZE] onwards; a write to an
\* LBA outside the partition is lost.
WriteData(count, dk, ab) ==
    LET Touched == {p \div BLOCK_SIZE : p \in i_size .. i_size + count - 1}
        NewBlock(idx) ==
            [c \in 1 .. BLOCK_SIZE |->
                LET p == idx * BLOCK_SIZE + c - 1
                IN  IF i_size <= p /\ p < i_size + count
                      THEN p + 1
                      ELSE FirstBlockBase(dk, ab, idx)[c]]
    IN  [b \in Blk |->
            IF \E idx \in Touched : ab[idx] = b
              THEN NewBlock(CHOOSE idx \in Touched : ab[idx] = b)
              ELSE dk[b]]

\* Mutant: fd_pos computed without the uint32_t wrap.
NewFdPos_unwrapped(count) == i_size - 1 + count

\* fd_pos = i_size - 1, then += each chunk (file.c 537, 579).
NewFdPos(count) == (i_size - 1 + count) % PosWord

\* file_write from the computation of has_used on, with the inode's
\* sectors sec and the bitmap bm after the first-block allocation.
WriteAt(count, sec, bm) ==
    LET has == i_size \div BLOCK_SIZE + 1
        will == (i_size + count) \div BLOCK_SIZE + 1
        S == Slots(has, will)
        F == AllocOrder(bm)
        k == Done(sec, bm, has, will)
        allocFails == k < Len(S) /\ k + 1 > Len(F)
        assertFails == k < Len(S) /\ ~allocFails
        bm2 == bm \cup {F[j] : j \in 1 .. k}
        sec2 == [i \in 0 .. NDirect |->
                   IF \E j \in 1 .. k : StoredAt(S[j]) = i
                     THEN F[CHOOSE j \in 1 .. k : StoredAt(S[j]) = i]
                     ELSE sec[i]]
        ab == AllBlocks(sec, disk, has, S, F, k)
        dk2 == TableWrite(disk, sec2, ab, has, will)
    IN  \/ /\ will > MaxBlocks
           /\ Panic("will_use")
        \/ /\ will <= MaxBlocks
           /\ IF ~BlocksPresent(sec, has, will) THEN Panic("no_block") ELSE
              \/ assertFails /\ Panic("sector_in_use")
              \/ allocFails /\ FailWith(sec2, bm2, disk)
              \* sys_malloc of io_buf fails
              \/ k = Len(S) /\ MallocFails /\ FailWith(sec2, bm2, dk2)
              \/ /\ k = Len(S)
                 /\ disk' = WriteData(count, dk2, ab)
                 /\ i_size' = i_size + count
                 /\ fd_pos' = NewFdPos(count)
                 /\ ret' = count
                 /\ i_sectors' = sec2 /\ bitmap' = bm2
                 /\ UNCHANGED <<last_read, panicked>>

\* sys_write on a file opened for writing (fs.c 607-645), file_write: the
\* size check, the sys_malloc of all_blocks and the first-block allocation.
Write(count) ==
    /\ panicked = "none"
    /\ UNCHANGED dirVars
    /\ \/ i_size + count > MaxBytes /\ Fail
       \/ i_size + count <= MaxBytes /\ MallocFails /\ Fail
       \/ /\ i_size + count <= MaxBytes /\ i_sectors[0] = 0
          /\ IF AllocOrder(bitmap) = <<>> THEN Fail ELSE
             LET b == Head(AllocOrder(bitmap))
             IN  WriteAt(count, [i_sectors EXCEPT ![0] = b], bitmap \cup {b})
       \/ i_size + count <= MaxBytes /\ i_sectors[0] # 0 /\ WriteAt(count, i_sectors, bitmap)

(***************************************************************************)
(* file_read (file.c 610-734) and sys_Iseek (fs.c 695-728).                *)
(***************************************************************************)
\* file_read once the size is clipped and both buffers are allocated: the
\* block indices, the ASSERTs, all_blocks built for the three cases and
\* the copy loop.
ReadAt(size) ==
    LET start == fd_pos \div BLOCK_SIZE
        end == ((fd_pos + size) % PosWord) \div BLOCK_SIZE
        ab == [i \in BlockIdx |->
                 IF i < NDirect
                   THEN IF start <= i /\ i <= end THEN i_sectors[i] ELSE Garbage
                 ELSE IF end >= NDirect
                   THEN TableOf(disk, i_sectors[NDirect])[i - NDirect]
                 ELSE Garbage]
        pos(n) == (fd_pos + n - 1) % PosWord
        data == [n \in 1 .. size |->
                   ReadBlk(disk, ab[pos(n) \div BLOCK_SIZE])[(pos(n) % BLOCK_SIZE) + 1]]
        noTable == start # end /\ end >= NDirect /\ i_sectors[NDirect] = 0
    IN  \/ /\ ~(start < MaxBlocks - 1 /\ end < MaxBlocks - 1)
           /\ Panic("read_index")
        \/ /\ start < MaxBlocks - 1 /\ end < MaxBlocks - 1
           /\ IF noTable THEN Panic("no_block") ELSE
              /\ fd_pos' = (fd_pos + size) % PosWord
              /\ ret' = size
              /\ last_read' = [from |-> fd_pos, data |-> data]
              /\ UNCHANGED <<i_size, i_sectors, bitmap, disk, panicked>>

\* sys_read of a regular file (fs.c 653-686), file_read: count is clipped
\* to i_size - fd_pos in uint32_t arithmetic; nothing left returns -1, and
\* so does a failed sys_malloc of io_buf or all_blocks.
Read(count) ==
    /\ panicked = "none"
    /\ UNCHANGED dirVars
    /\ LET over == (fd_pos + count) % PosWord > i_size
           size == IF over THEN (i_size - fd_pos) % PosWord ELSE count
       IN  \/ over /\ size = 0 /\ Fail
           \/ ~(over /\ size = 0) /\ MallocFails /\ Fail
           \/ ~(over /\ size = 0) /\ ReadAt(size)

\* sys_Iseek: the new position, in int32_t, must lie in 0 .. i_size - 1.
Lseek(whence, offset) ==
    /\ panicked = "none"
    /\ UNCHANGED dirVars
    /\ LET file_size == i_size
           new_pos == CASE whence = SEEK_SET -> offset
                        [] whence = SEEK_CUR -> Int32(fd_pos) + offset
                        [] whence = SEEK_END -> file_size + offset
       IN  \/ (new_pos < 0 \/ new_pos > file_size - 1) /\ Fail
           \/ /\ 0 <= new_pos /\ new_pos <= file_size - 1
              /\ fd_pos' = new_pos
              /\ ret' = new_pos
              /\ UNCHANGED <<i_size, i_sectors, bitmap, disk, last_read, panicked>>

(***************************************************************************)
(* The directory's blocks: sync_dir_entry (dir.c 188-328) and             *)
(* delete_dir_entry (dir.c 338-484), the steps of file_create, sys_mkdir, *)
(* sys_unlink and dir_remove that add or remove an entry.  Their callers  *)
(* look the name up first (search_file), so an added inode is not yet     *)
(* listed and a removed one is.                                            *)
(***************************************************************************)
\* The slots of a block that hold no entry (f_type FT_UNKNOWN).
FreeSlots(blk) == {c \in 1 .. BLOCK_SIZE : blk[c] = 0}

\* The entries of a block other than "." and ".." (dir_entry_cnt).
NamedSlots(blk) == {c \in 1 .. BLOCK_SIZE : blk[c] \notin {0, DOT, DOTDOT}}

\* all_blocks_lba of sync_dir_entry: the direct blocks, then the table read
\* from i_sectors[12] once the scan reaches index 12, even when that is 0:
\* the read then returns the words of LBA 0 (dir.c 203-208, 243-248).
SyncAllBlocks(sec, dk) ==
    [i \in BlockIdx |->
        IF i < NDirect THEN sec[i]
        ELSE IF sec[NDirect] # 0 THEN TableOf(dk, sec[NDirect])[i - NDirect]
        ELSE MbrTable[i - NDirect]]

\* all_blocks of delete_dir_entry: the table only when i_sectors[12] is
\* set (dir.c 342-352).
DirAllBlocks(sec, dk) ==
    [i \in BlockIdx |->
        IF i < NDirect THEN sec[i]
        ELSE IF sec[NDirect] # 0 THEN TableOf(dk, sec[NDirect])[i - NDirect]
        ELSE 0]

\* A fresh entry block: io_buf zeroed, the entry copied to its first slot.
NewEntryBlock(e) == [c \in 1 .. BLOCK_SIZE |-> IF c = 1 THEN e ELSE 0]

\* Mutant: the table is written before the new block's address is stored
\* in all_blocks_lba.
IndirectTable_stale(ab, i, b) ==
    [c \in 1 .. BLOCK_SIZE |-> IF c <= NIndirect THEN ab[NDirect + c - 1] ELSE Garbage]

\* ide_write of all_blocks_lba + 12 after all_blocks_lba[i] = b.
IndirectTable(ab, i, b) ==
    [c \in 1 .. BLOCK_SIZE |->
        IF c <= NIndirect THEN [ab EXCEPT ![i] = b][NDirect + c - 1] ELSE Garbage]

DirFail == UNCHANGED <<bitmap, disk, dir_sectors, dir_size>>

FileUnchanged == UNCHANGED <<i_size, i_sectors, fd_pos, ret, last_read>>

\* Case 2 of sync_dir_entry: block i is not allocated (dir.c 250-303).
\* At index 12 the table comes first; if the second allocation fails the
\* table's bit and i_sectors[12] are put back, so nothing has changed.
SyncNewBlock(e, ab, i) ==
    LET F == AllocOrder(bitmap)
    IN  \/ /\ i < NDirect /\ Len(F) >= 1
           /\ bitmap' = bitmap \cup {F[1]}
           /\ dir_sectors' = [dir_sectors EXCEPT ![i] = F[1]]
           /\ disk' = [disk EXCEPT ![F[1]] = NewEntryBlock(e)]
        \/ /\ i = NDirect /\ Len(F) >= 2
           /\ bitmap' = bitmap \cup {F[1], F[2]}
           /\ dir_sectors' = [dir_sectors EXCEPT ![NDirect] = F[1]]
           /\ disk' = [disk EXCEPT ![F[1]] = IndirectTable(ab, i, F[2]),
                                   ![F[2]] = NewEntryBlock(e)]
        \/ /\ i > NDirect /\ Len(F) >= 1
           /\ bitmap' = bitmap \cup {F[1]}
           /\ disk' = [disk EXCEPT ![dir_sectors[NDirect]] = IndirectTable(ab, i, F[1]),
                                   ![F[1]] = NewEntryBlock(e)]
           /\ UNCHANGED dir_sectors

\* The inodes the directory lists.
Listed ==
    LET ab == DirAllBlocks(dir_sectors, disk)
    IN  {ReadBlk(disk, ab[i])[c] : i \in {j \in BlockIdx : ab[j] # 0}, c \in 1 .. BLOCK_SIZE}
          \cap DirInodes

\* The directory never holds more entries than its 140 blocks have slots,
\* so sync_dir_entry's "directory is full" return (dir.c 326-327) is not
\* reached and is left out.
ASSUME Cardinality(DirInodes) + 2 <= MaxBlocks * BLOCK_SIZE

\* sync_dir_entry: the first block, in index order, that is unallocated or
\* has a free slot takes the entry.  A failed allocation returns false.
sync_dir_entry(e) ==
    /\ panicked = "none"
    /\ e \in DirInodes \ Listed
    /\ LET ab == SyncAllBlocks(dir_sectors, disk)
           i == Min({j \in BlockIdx : ab[j] = 0 \/ FreeSlots(ReadBlk(disk, ab[j])) # {}})
       IN  \/ /\ ab[i] = 0
              /\ \/ SyncNewBlock(e, ab, i) /\ dir_size' = dir_size + 1
                 \/ /\ Len(AllocOrder(bitmap)) < (IF i = NDirect THEN 2 ELSE 1)
                    /\ DirFail
           \/ /\ ab[i] # 0
              /\ disk' = [disk EXCEPT ![ab[i]][Min(FreeSlots(disk[ab[i]]))] = e]
              /\ dir_size' = dir_size + 1
              /\ UNCHANGED <<bitmap, dir_sectors>>
    /\ UNCHANGED panicked /\ FileUnchanged

\* Mutant: the emptied block's bit is cleared but i_sectors keeps it.
ReleaseDirBlock_kept(sec, i) == sec

\* i_sectors[block_idx] = 0 for an emptied direct block (dir.c 424).
ReleaseDirBlock(sec, i) == [sec EXCEPT ![i] = 0]

\* delete_dir_entry: the first block holding the entry.  If it is its only
\* entry and the block is not the first (no "."), the block's bit is
\* cleared; a direct block leaves i_sectors, and for an indirect one the
\* count of the table's blocks never advances its index (dir.c 433-439), so
\* the system call never returns with interrupts off.  Otherwise the slot
\* is zeroed and the block written back.  i_size drops by one entry.
delete_dir_entry(e) ==
    /\ panicked = "none"
    /\ e \in Listed
    /\ LET ab == DirAllBlocks(dir_sectors, disk)
           i == Min({j \in BlockIdx : ab[j] # 0 /\ \E c \in 1 .. BLOCK_SIZE : ReadBlk(disk, ab[j])[c] = e})
           blk == ReadBlk(disk, ab[i])
       IN  \/ /\ Cardinality(NamedSlots(blk)) = 1 /\ DOT \notin Range(blk)
              /\ bitmap' = bitmap \ {ab[i]}
              /\ \/ /\ i < NDirect
                    /\ dir_sectors' = ReleaseDirBlock(dir_sectors, i)
                    /\ dir_size' = dir_size - 1
                    /\ UNCHANGED <<disk, panicked>>
                 \/ /\ i >= NDirect
                    /\ panicked' = "delete_loop"
                    /\ UNCHANGED <<disk, dir_sectors, dir_size>>
           \/ /\ ~(Cardinality(NamedSlots(blk)) = 1 /\ DOT \notin Range(blk))
              /\ disk' = [disk EXCEPT ![ab[i]] = [c \in 1 .. BLOCK_SIZE |-> IF blk[c] = e THEN 0 ELSE blk[c]]]
              /\ dir_size' = dir_size - 1
              /\ UNCHANGED <<bitmap, dir_sectors, panicked>>
    /\ FileUnchanged

Next ==
    \/ \E c \in WriteCounts : Write(c)
    \/ \E c \in ReadCounts : Read(c)
    \/ \E w \in {SEEK_SET, SEEK_CUR, SEEK_END}, o \in SeekOffsets : Lseek(w, o)
    \/ \E e \in DirInodes : sync_dir_entry(e) \/ delete_dir_entry(e)

Spec == Init /\ [][Next]_vars

(***************************************************************************)
(* Properties.                                                             *)
(***************************************************************************)
\* Block idx of the file as the inode maps it.
Addr(i) ==
    IF i < NDirect THEN i_sectors[i] ELSE TableOf(disk, i_sectors[NDirect])[i - NDirect]

\* The block indices file_write counts as used: i_size / BLOCK_SIZE + 1
\* blocks once the first block is allocated.
UsedIdx ==
    IF i_sectors[0] = 0 THEN {} ELSE 0 .. (i_size \div BLOCK_SIZE) \cap BlockIdx

UsedTable ==
    IF \E i \in UsedIdx : i >= NDirect THEN {i_sectors[NDirect]} ELSE {}

Referenced == {Addr(i) : i \in UsedIdx} \cup UsedTable

\* Round trip, across any sequence of writes, seeks and reads: every byte
\* file_read returns is the byte file_write stored at that position (the
\* block mapping of file_read agrees with the one file_write built, and the
\* read-modify-write of the first block keeps the bytes already there).
ReadReturnsWritten ==
    \A n \in 1 .. Len(last_read.data) : last_read.data[n] = last_read.from + n

\* Every block the inode maps for the file's used range, and the indirect
\* table when it is used, is a distinct block whose bitmap bit is set and
\* which is not the root directory's block 0: no two file positions share
\* a block, and the allocator can never hand one of them out again.
FileBlocksAllocated ==
    /\ Referenced \subseteq bitmap \ {0}
    /\ Cardinality(Referenced) = Cardinality(UsedIdx) + Cardinality(UsedTable)

\* The directory's block indices that hold a block, those blocks, and its
\* indirect table.
DirMapped == {j \in BlockIdx : DirAllBlocks(dir_sectors, disk)[j] # 0}
DirBlocks == {DirAllBlocks(dir_sectors, disk)[j] : j \in DirMapped}
DirTable == IF dir_sectors[NDirect] # 0 THEN {dir_sectors[NDirect]} ELSE {}

\* The file and the directory allocate from one block bitmap, through
\* block_bitmap_alloc in file_write and sync_dir_entry, and
\* delete_dir_entry gives blocks back: every block the directory maps, and
\* its table, is set in the bitmap, no block is mapped twice, and none is
\* also a block of the file.  (The loop of delete_dir_entry stops the
\* kernel after the bit is cleared.)
DirBlocksAllocated ==
    panicked # "delete_loop" =>
        /\ DirBlocks \cup DirTable \subseteq bitmap
        /\ Cardinality(DirBlocks) = Cardinality(DirMapped)
        /\ DirTable \cap DirBlocks = {}
        /\ (DirBlocks \cup DirTable) \cap Referenced = {}

\* The directory's i_size, which dir_read, dir_is_empty and sys_readdir
\* trust, counts exactly the entries its mapped blocks hold, "." and ".."
\* included, after any sequence of additions, removals, reclaimed blocks,
\* failed allocations and indirect-table updates.
DirSizeMatchesEntries ==
    dir_size = Cardinality({jc \in DirMapped \X (1 .. BLOCK_SIZE) :
                              ReadBlk(disk, DirAllBlocks(dir_sectors, disk)[jc[1]])[jc[2]] # 0})

\* The file as its process sees it: byte p (1-based) is read through the
\* inode's block mapping, the indirect table included, from the disk.
Content == [p \in 1 .. i_size |->
              ReadBlk(disk, Addr((p - 1) \div BLOCK_SIZE))[((p - 1) % BLOCK_SIZE) + 1]]

ABS == INSTANCE AbstractFile WITH content <- Content, Capacity <- MaxBytes

\* Refinement: with the blocks, the bitmap and the indirect table hidden,
\* every step of file_write, file_read and sys_Iseek (failed and partial
\* writes included) is a step of AbstractFile: a write appends exactly its
\* bytes and never disturbs those before, a failure changes no byte, and a
\* read returns the file's bytes from fd_pos on.
AbstractFileSpec == ABS!Spec

====
