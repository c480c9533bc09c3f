\* One file under every sequence of writes, reads and seeks, with a block
\* pool of four free blocks (a full file less one, so the pool runs dry),
\* and sys_malloc failures that leak blocks.
CONSTANTS
    BLOCK_SIZE = 2
    NDirect = 2
    NIndirect = 2
    NBlocks = 6
    PosWord <- MCPosWord
    WriteCounts <- MCWriteCounts
    ReadCounts <- MCReadCounts
    SeekOffsets <- MCSeekOffsets
    MallocFails = TRUE
    DirInodes = {d1, d2, d3, d4, d5}
    DOT = DOT
    DOTDOT = DOTDOT
    MbrTable <- MCMbrTable
SYMMETRY MCDirSymmetry
INIT Init
NEXT Next
INVARIANT TypeOK
INVARIANT ReadReturnsWritten
INVARIANT FileBlocksAllocated
INVARIANT DirBlocksAllocated
INVARIANT DirSizeMatchesEntries
PROPERTY AbstractFileSpec
\* A kernel panic (ASSERT) halts the system: those states have no successor.
CHECK_DEADLOCK FALSE
