----------------------------- MODULE MC_ProcFds -----------------------------
EXTENDS ProcFds

CONSTANTS p1, p2, p3

MCProcs == {p1, p2, p3}
MCWord == 2^4   \* above any count of references the bounds allow
\* Processes other than init are interchangeable: no step looks at a pid's
\* value, and fork may take any free one.
MCSymmetry == Permutations(MCProcs \ {p1})
=============================================================================
