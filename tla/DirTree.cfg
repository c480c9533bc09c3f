\* Two processes, two names, paths of depth up to two; five inodes and
\* four blocks, so mkdir can run out of blocks while inodes are left and
\* files reuse the inodes directories free.  A kernel panic (rmdir of "/",
\* or getcwd on a reused inode) stops the machine: no next step there.
CONSTANTS
    q1 = q1  q2 = q2  n1 = n1  n2 = n2
    Procs <- MCProcs
    Names <- MCNames
    NInodes = 5
    NBlocks = 4
    Paths <- MCPaths
SPECIFICATION Spec
INVARIANTS TypeOK AllocationMatchesTree DirLinksConsistent CwdNamesItself
CHECK_DEADLOCK FALSE
