------------------------------ MODULE MC_FileRW ------------------------------
(***************************************************************************)
(* FileRW instantiated for TLC: 2-byte blocks, 2 direct blocks and a       *)
(* 2-entry indirect table (MaxBlocks = 4, so the 140 and 139 of the code   *)
(* are 4 and 3), and an 8-bit fd_pos: (Word - 1) / BLOCK_SIZE lies beyond  *)
(* MaxBlocks as (2^32 - 1) / 512 lies beyond 140.                          *)
(***************************************************************************)
EXTENDS FileRW

MCPosWord == 2^8

\* Counts that span one block, two blocks and, from mid-block, three.
MCWriteCounts == {0, 1, 3}
MCWriteCountsNonZero == {1, 3}
MCReadCounts == {1, 2}
MCSeekOffsets == {-1, 0}

\* The FS disk's MBR has only a partition table: its boot-code words, the
\* ones a 128-entry table read from LBA 0 first sees, are zero.
MCMbrTable == [j \in 0 .. 1 |-> 0]

\* The directory's inodes are interchangeable names (model values): no
\* step of sync_dir_entry or delete_dir_entry depends on which one it is.
MCDirSymmetry == Permutations(DirInodes)

====
