---------------------------- MODULE MC_FileTable ----------------------------
(* Instantiates FileTable for TLC: two processes, three names, three       *)
(* inode numbers against a root directory with room for two entries, three *)
(* file-table slots and two local descriptors per process.                *)
EXTENDS FileTable, TLC

CONSTANTS p1, p2, a, b, c

MCProcs == {p1, p2}
MCNames == {a, b, c}

\* Processes and names are only compared for equality.
Symmetry == Permutations(MCProcs) \cup Permutations(MCNames)
=============================================================================
