\* As DirTree.cfg, with "/n1/." among the paths: rmdir("/n1/.") finds
\* n1 through its own "." entry, so its parent is n1 itself.
CONSTANTS
    q1 = q1  q2 = q2  n1 = n1  n2 = n2
    Procs <- MCProcs
    Names <- MCNames
    NInodes = 4
    NBlocks = 3
    Paths <- MCDotPaths
SPECIFICATION Spec
INVARIANTS NoDanglingEntry
CHECK_DEADLOCK FALSE
