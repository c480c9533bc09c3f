----------------------------- MODULE MC_DirTree -----------------------------
EXTENDS DirTree

CONSTANTS q1, q2, n1, n2

MCProcs == {q1, q2}
MCNames == {n1, n2}
\* "/" and every path of one or two names, as the shell's
\* make_clear_abs_path hands them to the kernel: no "." or ".." left.
MCPaths == {<<>>} \cup {<<a>> : a \in MCNames} \cup {<<a, b>> : a, b \in MCNames}
\* The same, and "/n1/." as a user program may pass it.
MCDotPaths == MCPaths \cup {<<n1, DOT>>}
=============================================================================
