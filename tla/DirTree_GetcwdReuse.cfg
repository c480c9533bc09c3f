\* As DirTree.cfg: a process may chdir into a directory that is then
\* removed, and its inode reused.
CONSTANTS
    q1 = q1  q2 = q2  n1 = n1  n2 = n2
    Procs <- MCProcs
    Names <- MCNames
    NInodes = 4
    NBlocks = 3
    Paths <- MCPaths
SPECIFICATION Spec
INVARIANTS GetcwdNeverFaults
CHECK_DEADLOCK FALSE
