\* Init and two more processes, one file and pipes: a pipe's read end made
\* into stdin by sys_fd_redirect, then read.  A kernel panic stops every
\* process, so a state with no next step is expected there.
CONSTANTS
    p1 = p1  p2 = p2  p3 = p3
    Procs <- MCProcs
    InitPid = p1
    Inodes = {i1}
    NSlots = 5
    NLocal = 5
    Word <- MCWord
    NULL = NULL
    BUF = BUF
    Bufsize = 2
    Counts = {1, 2}
    MaxCalls = 2
SYMMETRY MCSymmetry
SPECIFICATION Spec
INVARIANT RingHoldsWrittenBytes
CHECK_DEADLOCK FALSE
