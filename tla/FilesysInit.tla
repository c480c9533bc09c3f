---------------------------- MODULE FilesysInit ----------------------------
(***************************************************************************)
(* What init_all does after ide_init: filesys_init (src/fs/fs.c) walks the *)
(* prim_parts[] and logic_parts[] slots of every scanned disk, reads the   *)
(* super block of each partition with a non-zero sector count, formats    *)
(* the partition when the magic is missing (partition_format), and then   *)
(* mounts the partition named "sdb1" (mount_partition), reading its super  *)
(* block and both bitmaps into memory.                                     *)
(*                                                                         *)
(* The module extends PartitionScan: the partitions filesys_init finds are *)
(* the ones partition_scan registered.  Slot i of a disk (prim_parts[i],   *)
(* then logic_parts[i - 4]) holds the partition whose name ends in i + 1. *)
(* A partition's sector count is read from its table entry, which          *)
(* PartitionScan abstracts; it is chosen from SecCnts when filesys_init    *)
(* reads it.  Whether sector start + 1 holds the magic is an input too: a  *)
(* file system found there is taken to be one partition_format wrote for   *)
(* the same partition in an earlier boot, of which only the super block   *)
(* is modelled.                                                            *)
(*                                                                         *)
(* Sizes are scaled: BITS_PER_SECTOR bits (BITS_PER_SECTOR \div 8 bytes)   *)
(* per sector, MAX_FILES_PER_PART inodes of INODE_SIZE bytes.  A bitmap is *)
(* the set of the indices of its set bits.                                 *)
(***************************************************************************)
EXTENDS PartitionScan

CONSTANTS
    BITS_PER_SECTOR,     \* bits in a sector (4096 in fs.h)
    MAX_FILES_PER_PART,  \* inodes per partition (4096 in fs.h)
    INODE_SIZE,          \* sizeof(struct inode) in bytes
    DIR_ENTRY_SIZE,      \* sizeof(struct dir_entry) in bytes
    SecCnts              \* sector counts a partition entry may carry

SECTOR_SIZE == BITS_PER_SECTOR \div 8
MAGIC == "0x19590318"
NoFs == [magic |-> "none"]      \* a super block sector without the magic
NoPart == <<>>                  \* cur_part while it is NULL

\* The slots of a disk's partition arrays: 4 primary, then the logical ones.
NSlots == 4 + MaxLogical
Slots == 0 .. (NSlots - 1)

DIV_ROUND_UP(x, y) == (x + y - 1) \div y

VARIABLES
    fs_disk,    \* filesys_init's channel/device loop: the index in Disks
    part_idx,   \* filesys_init's part_idx (not reset between disks)
    disk_fs,    \* disk_fs[d][i]: what sector start + 1 of slot i holds
    fs_phase,   \* "search", "mounted", or "no_root" (cur_part stays NULL)
    cur_part,   \* <<disk, slot>> of the mounted partition, or NoPart
    mounted     \* cur_part->sb with the in-memory bitmaps mount read

fsVars == <<fs_disk, part_idx, disk_fs, fs_phase, cur_part, mounted>>
allVars == <<vars, fsVars>>

(***************************************************************************)
(* partition_format's arithmetic: boot sector, super block, inode bitmap   *)
(* and inode table are fixed; the block bitmap is sized from the free     *)
(* sectors, its bit count is the free sectors less its own sectors, and   *)
(* its size is then recomputed from that bit count.                        *)
(***************************************************************************)
InodeBitmapSects == DIV_ROUND_UP(MAX_FILES_PER_PART, BITS_PER_SECTOR)
InodeTableSects == DIV_ROUND_UP(INODE_SIZE * MAX_FILES_PER_PART, SECTOR_SIZE)
UsedSects == 1 + 1 + InodeBitmapSects + InodeTableSects

BitLen(sec) ==
    LET free == sec - UsedSects
    IN free - DIV_ROUND_UP(free, BITS_PER_SECTOR)

BlockBitmapSects(sec) == DIV_ROUND_UP(BitLen(sec), BITS_PER_SECTOR)

SuperBlock(start, sec) ==
    LET bb == start + 2
        ib == bb + BlockBitmapSects(sec)
        it == ib + InodeBitmapSects
    IN [magic |-> MAGIC, sec_cnt |-> sec, part_lba_base |-> start,
        block_bitmap_lba |-> bb, block_bitmap_sects |-> BlockBitmapSects(sec),
        inode_bitmap_lba |-> ib, inode_bitmap_sects |-> InodeBitmapSects,
        inode_table_lba |-> it, inode_table_sects |-> InodeTableSects,
        data_start_lba |-> it + InodeTableSects, root_inode_no |-> 0]

\* The bits that lie in the bytes last_byte .. end of its sector.
TailBits(len) ==
    LET lb == len \div 8
    IN (lb * 8) .. ((lb + SECTOR_SIZE - (lb % SECTOR_SIZE)) * 8 - 1)

\* Mutant: the memset of the tail without the loop that clears its bits.
FormatBlockBits_noclear(sec) ==
    LET len == BitLen(sec)
    IN ({0} \cup TailBits(len))
         \cap 0 .. (BlockBitmapSects(sec) * BITS_PER_SECTOR - 1)

\* The block bitmap partition_format writes: bit 0 (the root directory's
\* block), then every bit from byte last_byte to the end of its sector set,
\* then bits 0 .. last_bit of byte last_byte cleared (`bit_idx <=
\* last_bit`).  Only block_bitmap_sects sectors of the buffer are written.
FormatBlockBits(sec) ==
    LET len == BitLen(sec)
        cleared == {(len \div 8) * 8 + j : j \in 0 .. (len % 8)}
    IN (({0} \cup TailBits(len)) \ cleared)
         \cap 0 .. (BlockBitmapSects(sec) * BITS_PER_SECTOR - 1)

\* Everything partition_format writes: super block, block bitmap, inode
\* bitmap with bit 0, the root inode (inode 0) and the root directory's
\* block with "." and ".." at data_start_lba.
Format(start, sec) ==
    LET sb == SuperBlock(start, sec)
    IN [sb |-> sb,
        block_bits |-> FormatBlockBits(sec),
        inode_bits |-> {0},
        root_inode |-> [i_no |-> 0, i_size |-> 2 * DIR_ENTRY_SIZE,
                        i_sectors0 |-> sb.data_start_lba],
        root_dir |-> {[name |-> ".", i_no |-> 0], [name |-> "..", i_no |-> 0]}]

\* A file system an earlier boot formatted: only its super block is known.
Earlier(start, sec) == [sb |-> SuperBlock(start, sec)]

FsInit ==
    /\ Init
    /\ fs_disk = 1
    /\ part_idx = 0
    /\ disk_fs = [d \in DiskSet |-> [i \in Slots |-> NoFs]]
    /\ fs_phase = "search"
    /\ cur_part = NoPart
    /\ mounted = NoFs

\* Only the partition mount_partition reads (slot 0 of the first disk)
\* keeps what was written at its start; of the others only the presence of
\* a file system is kept, which is all that is read of them again.
SomeFs == [sb |-> [magic |-> MAGIC]]
Kept(d, i, f) == IF <<d, i>> = <<Disks[1], 0>> THEN f ELSE SomeFs

\* Mutant: the slot walk stops after prim_parts[].
SlotPart_prim_only(d, i) ==
    {p \in Range(parts) : p.disk = d /\ p.no = i + 1 /\ i < 4}

\* The partition in slot i of disk d, if partition_scan registered one.
SlotPart(d, i) == {p \in Range(parts) : p.disk = d /\ p.no = i + 1}

\* Mutant: part_idx++ inside the `if (part->sec_cnt != 0)` block.
filesys_init_part_stuck ==
    LET d == Disks[fs_disk]
    IN
    /\ status = "done"
    /\ fs_phase = "search"
    /\ fs_disk <= Len(Disks)
    /\ part_idx < NSlots
    /\ \/ /\ SlotPart(d, part_idx) = {}
          /\ UNCHANGED <<disk_fs, part_idx>>
       \/ \E p \in SlotPart(d, part_idx), sec \in SecCnts :
             /\ part_idx' = part_idx + 1
             /\ disk_fs' = [disk_fs EXCEPT ![d][part_idx] = Kept(d, part_idx, Format(p.start, sec))]
    /\ UNCHANGED <<vars, fs_disk, fs_phase, cur_part, mounted>>

\* One pass of filesys_init's `while (part_idx < 12)`: an empty slot
\* (sec_cnt == 0) is skipped; otherwise the super block at start + 1 is
\* read, and a partition without the magic is formatted.
filesys_init_part ==
    LET d == Disks[fs_disk]
    IN
    /\ status = "done"
    /\ fs_phase = "search"
    /\ fs_disk <= Len(Disks)
    /\ part_idx < NSlots
    /\ part_idx' = part_idx + 1
    /\ \/ /\ SlotPart(d, part_idx) = {}
          /\ UNCHANGED disk_fs
       \/ \E p \in SlotPart(d, part_idx), sec \in SecCnts :
             \/ disk_fs' = [disk_fs EXCEPT ![d][part_idx] = Kept(d, part_idx, Earlier(p.start, sec))]
             \/ disk_fs' = [disk_fs EXCEPT ![d][part_idx] = Kept(d, part_idx, Format(p.start, sec))]
    /\ UNCHANGED <<vars, fs_disk, fs_phase, cur_part, mounted>>

\* The inner loop is done: dev_no++, and on to the next channel.  part_idx
\* keeps its value, so the next disk's slots are never visited.
filesys_init_next_disk ==
    /\ status = "done"
    /\ fs_phase = "search"
    /\ fs_disk <= Len(Disks)
    /\ part_idx = NSlots
    /\ fs_disk' = fs_disk + 1
    /\ UNCHANGED <<vars, part_idx, disk_fs, fs_phase, cur_part, mounted>>

\* list_traversal(&partition_list, mount_partition, "sdb1"): the first
\* partition named sdb1 (slot 0 of the first scanned disk) becomes cur_part,
\* its super block and bitmaps are read in.  Without one, cur_part stays
\* NULL and open_root_dir dereferences it.
mount_partition ==
    LET d == Disks[1]
    IN
    /\ status = "done"
    /\ fs_phase = "search"
    /\ fs_disk > Len(Disks)
    /\ IF SlotPart(d, 0) # {}
         THEN /\ cur_part' = <<d, 0>>
              /\ mounted' = disk_fs[d][0]
              /\ fs_phase' = "mounted"
         ELSE /\ fs_phase' = "no_root"
              /\ UNCHANGED <<cur_part, mounted>>
    /\ UNCHANGED <<vars, fs_disk, part_idx, disk_fs>>

FsNext ==
    \/ Next /\ UNCHANGED fsVars
    \/ filesys_init_part
    \/ filesys_init_next_disk
    \/ mount_partition

FsSpec == FsInit /\ [][FsNext]_allVars /\ WF_allVars(FsNext)


(***************************************************************************)
(* Properties.                                                             *)
(***************************************************************************)
\* What a super block sector may hold: no magic, or a file system this
\* code formatted for a partition of a size in SecCnts.
IsFsRecord(f) ==
    \/ f \in {NoFs, SomeFs}
    \/ \E n \in SecCnts : f \in {Earlier(f.sb.part_lba_base, n),
                                 Format(f.sb.part_lba_base, n)}

FsTypeOK ==
    /\ TypeOK
    /\ fs_disk \in 1 .. (Len(Disks) + 1)
    /\ part_idx \in 0 .. NSlots
    /\ \A d \in DiskSet, i \in Slots : IsFsRecord(disk_fs[d][i])
    /\ fs_phase \in {"search", "mounted", "no_root"}
    /\ cur_part \in {NoPart} \cup (DiskSet \X Slots)
    /\ IsFsRecord(mounted)

HasFs(f) == "sb" \in DOMAIN f

\* When filesys_init reaches the mount, every partition partition_scan
\* put on partition_list has a file system at start + 1: the slot walk
\* over prim_parts[] and logic_parts[] visits the slot of every number the
\* scan handed out, primaries 1..4 and logical partitions from 5.
AllPartitionsHaveFs ==
    fs_phase # "search" =>
        \A p \in Range(parts) : HasFs(disk_fs[p.disk][p.no - 1])

\* The file system mounted as sdb1 is laid out as spec 4.4 says: the magic,
\* the partition's base, data_start_lba = base + 2 + block bitmap sectors
\* + 1 + inode table sectors, a block bitmap whose sectors hold a bit for
\* every data block, and the data blocks inside the partition.  When the
\* boot formatted it, the bitmaps read in have, among their valid bits,
\* exactly bit 0 set, and the root inode has size 2 * entry size and its
\* block at data_start_lba, holding "." and ".." for inode 0.
MountedAsSpecified ==
    fs_phase = "mounted" =>
        LET sb == mounted.sb
            part == CHOOSE p \in SlotPart(cur_part[1], cur_part[2]) : TRUE
            len == BitLen(sb.sec_cnt)
        IN /\ sb.magic = MAGIC
           /\ sb.part_lba_base = part.start
           /\ sb.data_start_lba = sb.part_lba_base + 2 + sb.block_bitmap_sects
                                    + 1 + sb.inode_table_sects
           /\ sb.block_bitmap_sects * BITS_PER_SECTOR >= len
           /\ sb.data_start_lba + len <= sb.part_lba_base + sb.sec_cnt
           /\ "block_bits" \in DOMAIN mounted =>
                /\ mounted.block_bits \cap 0 .. (len - 1) = {0}
                /\ mounted.inode_bits = {0}
                /\ mounted.root_inode.i_size = 2 * DIR_ENTRY_SIZE
                /\ mounted.root_inode.i_sectors0 = sb.data_start_lba
                /\ {e.name : e \in mounted.root_dir} = {".", ".."}
                /\ \A e \in mounted.root_dir : e.i_no = sb.root_inode_no

\* Start-up ends: ide_init's scan and filesys_init's walk over the slots
\* terminate, so the boot thread either mounts sdb1, finds none, or stops
\* in partition_scan (ASSERT, logic_parts[] overrun or a cycle of extended
\* boot records).  init_all runs them on the only thread there is.
StartupTerminates ==
    <>(fs_phase # "search" \/ status \in {"panic", "overflow", "cycle"})

=============================================================================
