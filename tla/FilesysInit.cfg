\* One scanned disk (the slave of channel 0), tables of up to four sectors,
\* logic_parts[] scaled to two entries; 16-bit sectors and 16 inodes of
\* one byte, so the metadata takes 11 sectors, and partition sizes that give
\* a block bitmap of one sector with as many sectors as the first estimate
\* (22), one fewer (28), exactly full (29), and of two sectors (30).
CONSTANTS
    d1 = d1
    Disks <- OneDisk
    NSect = 4
    MaxLogical = 2
    MbrTables <- MCMbrTables
    EbrTables <- MCEbrTables
    BITS_PER_SECTOR = 16
    MAX_FILES_PER_PART = 16
    INODE_SIZE = 1
    DIR_ENTRY_SIZE = 24
    SecCnts = {22, 28, 29, 30}

SPECIFICATION FsSpec

INVARIANTS
    FsTypeOK
    PartitionsAsSpecified
    LogicalIndexInBounds
    AllPartitionsHaveFs
    MountedAsSpecified

PROPERTIES
    StartupTerminates

\* ide_init returns when the scan ends (or the kernel halts on ASSERT), and
\* init_all goes on to the shell once the root is mounted.
CHECK_DEADLOCK FALSE
