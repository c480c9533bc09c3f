\* Init and two more processes, one file, two global slots, two local fds
\* each.  A kernel panic stops every process, so a state with no next step
\* is expected there.
CONSTANTS
    p1 = p1  p2 = p2  p3 = p3
    Procs <- MCProcs
    InitPid = p1
    Inodes = {i1}
    NSlots = 5
    NLocal = 5
    Word <- MCWord
    NULL = NULL
    BUF = BUF
    Bufsize = 1
    Counts = {1}
    MaxCalls = 2
SYMMETRY MCSymmetry
SPECIFICATION Spec
INVARIANTS TypeOK ParentsLive InodeHeldWhileSlotRefers
CHECK_DEADLOCK FALSE
