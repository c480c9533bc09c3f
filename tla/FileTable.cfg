\* Sequential-correctness run of the open-file layer.
CONSTANTS
    p1 = p1  p2 = p2  a = a  b = b  c = c
    Procs <- MCProcs
    Names <- MCNames
    NInodes = 3
    MaxFileOpen = 6
    MaxFilesOpenPerProc = 5
    DirCap = 2
    MaxCopies = 4
    OpenFlags = {0, 1, 4, 5}
    NULL = NULL
    FREE = FREE
SYMMETRY Symmetry
SPECIFICATION Spec
INVARIANTS
    TypeOK
    UniqueNames
    DirMetadataConsistent
    RefCountsMatchSlots
    CacheUnique
    OpenFilesNamed
\* A call that fails returns -1 and changes nothing, so a state where every
\* call fails (e.g. every slot held by a refused writer) has no successor;
\* the kernel goes on running, it is not a hang.
CHECK_DEADLOCK FALSE
