------------------------- MODULE MC_FilesysInit -------------------------
EXTENDS FilesysInit, TLC

CONSTANTS d1

\* A primary or logical partition, and an extended entry with start s.
Part == Entry(LINUX, 1)
Ext(s) == Entry(EXTENDED, s)
ExtEntries == {Ext(s) : s \in 1..(NSect - 1)}

\* MBRs with up to four partition entries and at most one extended entry.
MCMbrTables ==
    {t \in [1..4 -> {Empty, Part} \cup ExtEntries] :
        Cardinality({i \in 1..4 : t[i].type = EXTENDED}) <= 1}

\* Extended boot records as fdisk writes them: a logical partition in the
\* first entry, the link to the next record in the second.
MCEbrTables ==
    {<<a, b, Empty, Empty>> : a \in {Empty, Part}, b \in {Empty} \cup ExtEntries}

OneDisk == <<d1>>
=============================================================================
