--------------------------- MODULE PartitionScan ---------------------------
(***************************************************************************)
(* Partition discovery of src/device/ide.c: ide_init calls partition_scan  *)
(* (hd, 0) on the slave disk of every channel, which reads the MBR and,    *)
(* recursively, every extended boot record it points to, registering      *)
(* primary and logical partitions in the global partition_list.           *)
(*                                                                         *)
(* The recursion is an explicit call stack of frames [lba, idx] (the      *)
(* argument ext_lba and the loop counter part_idx).  The globals           *)
(* ext_lba_base, p_no and l_no are variables.  The disks' sectors are     *)
(* inputs: a partition table is chosen the first time its sector is read  *)
(* and stays fixed.  A table is four entries [type, start]; a primary or  *)
(* logical entry's start only shifts the registered start, so it is 1;    *)
(* an extended entry's start picks the next table and ranges over         *)
(* 1..NSect-1.  Sectors at NSect and beyond hold zeros.                   *)
(*                                                                         *)
(* A chain of extended boot records that points back into itself makes    *)
(* the recursion endless (the kernel stack overflows); the scan stops     *)
(* there with status "cycle".                                              *)
(***************************************************************************)
EXTENDS Naturals, Sequences, FiniteSets, SequencesExt

CONSTANTS
    Disks,        \* the disks scanned, in ide_init's order (a sequence)
    NSect,        \* sectors that may hold a partition table: LBAs 0..NSect-1
    MaxLogical,   \* the size of logic_parts[], which the code caps l_no at
    MbrTables,    \* the partition tables an MBR may hold
    EbrTables     \* the partition tables an extended boot record may hold

EXTENDED == 5       \* fs_type of an extended partition
LINUX == 131        \* fs_type 0x83: any other non-zero type

Entry(type, start) == [type |-> type, start |-> start]
Empty == Entry(0, 0)
ZeroTable == <<Empty, Empty, Empty, Empty>>
NoTable == <<>>     \* a sector not read yet

LBAs == 0..(NSect - 1)

VARIABLES
    disk,          \* disk[d][lba]: the table read from that sector, or NoTable
    todo,          \* the disks ide_init has still to scan
    cur,           \* the disk being scanned
    stack,         \* partition_scan's frames, innermost last
    ext_lba_base,  \* the global ext_lba_base
    p_no, l_no,    \* the globals p_no and l_no
    parts,         \* partition_list: [disk, no, start] in order of list_append
    status         \* "scanning", "done", "panic" (ASSERT), "overflow"
                   \* (logic_parts[l_no] out of bounds), "cycle"

vars == <<disk, todo, cur, stack, ext_lba_base, p_no, l_no, parts, status>>

DiskSet == {Disks[i] : i \in DOMAIN Disks}

TypeOK ==
    /\ disk \in [DiskSet -> [LBAs -> MbrTables \cup EbrTables \cup {NoTable}]]
    /\ todo \in Seq(DiskSet)
    /\ cur \in DiskSet
    /\ stack \in Seq([lba : Nat, idx : 1..5])
    /\ ext_lba_base \in Nat
    /\ p_no \in 0..4 /\ l_no \in 0..MaxLogical
    /\ parts \in Seq([disk : DiskSet, no : 1..(4 + MaxLogical), start : Nat])
    /\ status \in {"scanning", "done", "panic", "overflow", "cycle"}

\* The tables sector lba of disk d may hold when ide_read reads it.
Readable(d, lba) ==
    CASE lba >= NSect             -> {ZeroTable}
      [] disk[d][lba] # NoTable   -> {disk[d][lba]}
      [] lba = 0                  -> MbrTables
      [] OTHER                    -> EbrTables

\* The table of the frame f of the disk being scanned.
TableOf(f) == IF f.lba >= NSect THEN ZeroTable ELSE disk[cur][f.lba]

\* partition_scan(hd, lba) entered with the frames st below it: sys_malloc,
\* ide_read of the sector, part_idx = 0.
Call(d, lba, st) ==
    \E tbl \in Readable(d, lba) :
        /\ disk' = IF lba >= NSect THEN disk
                   ELSE [disk EXCEPT ![d][lba] = tbl]
        /\ stack' = Append(st, [lba |-> lba, idx |-> 1])

\* ide_init before any scan: empty partition_list, globals zero.
Init ==
    /\ disk = [d \in DiskSet |-> [l \in LBAs |-> NoTable]]
    /\ todo = Disks
    /\ cur = Disks[1]
    /\ stack = << >>
    /\ ext_lba_base = 0
    /\ p_no = 0 /\ l_no = 0
    /\ parts = << >>
    /\ status = "scanning"

\* ide_init reaches the slave disk of the next channel: partition_scan(hd,
\* 0).  p_no and l_no are zero (ide_init resets them after every disk);
\* ext_lba_base is not reset.
ScanDisk ==
    /\ status = "scanning"
    /\ stack = << >>
    /\ todo # << >>
    /\ cur' = Head(todo)
    /\ todo' = Tail(todo)
    /\ p_no' = 0 /\ l_no' = 0
    /\ Call(Head(todo), 0, << >>)
    /\ UNCHANGED <<ext_lba_base, parts, status>>

\* The frame on top of the stack, and the stack with its part_idx advanced
\* (p++) or with it popped (return).
Top == stack[Len(stack)]
Advanced == [stack EXCEPT ![Len(stack)].idx = @ + 1]
Popped == SubSeq(stack, 1, Len(stack) - 1)

\* The LBAs of the frames on the stack.
OnStack == {stack[i].lba : i \in DOMAIN stack}

\* Mutant: nested extended entries taken as absolute LBAs.
VisitExtended_absolute(e) ==
    /\ ext_lba_base' = IF ext_lba_base # 0 THEN ext_lba_base ELSE e.start
    /\ IF e.start \in OnStack
         THEN /\ status' = "cycle"
              /\ UNCHANGED <<disk, stack>>
         ELSE /\ Call(cur, e.start, Advanced)
              /\ UNCHANGED status
    /\ UNCHANGED <<p_no, l_no, parts>>

\* An extended entry: the first one seen sets ext_lba_base; every one is
\* followed at start + ext_lba_base (start alone for the first).
VisitExtended(e) ==
    LET target == IF ext_lba_base # 0 THEN e.start + ext_lba_base ELSE e.start
    IN
    /\ ext_lba_base' = IF ext_lba_base # 0 THEN ext_lba_base ELSE e.start
    /\ IF target \in OnStack
         THEN /\ status' = "cycle"
              /\ UNCHANGED <<disk, stack>>
         ELSE /\ Call(cur, target, Advanced)
              /\ UNCHANGED status
    /\ UNCHANGED <<p_no, l_no, parts>>

\* A partition entry in the MBR (ext_lba == 0): prim_parts[p_no], named
\* p_no + 1, then p_no++ and ASSERT(p_no < 4).
VisitPrimary(e) ==
    /\ parts' = Append(parts, [disk |-> cur, no |-> p_no + 1, start |-> e.start])
    /\ p_no' = p_no + 1
    /\ status' = IF p_no + 1 < 4 THEN "scanning" ELSE "panic"
    /\ stack' = Advanced
    /\ UNCHANGED <<disk, ext_lba_base, l_no>>

\* Mutant: logical partitions named l_no + 6.
VisitLogical_name_off_by_one(e) ==
    /\ IF l_no >= MaxLogical
         THEN /\ status' = "overflow"
              /\ UNCHANGED <<parts, l_no, stack>>
         ELSE /\ parts' = Append(parts, [disk |-> cur, no |-> l_no + 6,
                                         start |-> Top.lba + e.start])
              /\ l_no' = l_no + 1
              /\ stack' = IF l_no + 1 >= MaxLogical THEN Popped ELSE Advanced
              /\ UNCHANGED status
    /\ UNCHANGED <<disk, ext_lba_base, p_no>>

\* Mutant: no return when l_no reaches the size of logic_parts[].
VisitLogical_no_cap(e) ==
    /\ IF l_no >= MaxLogical
         THEN /\ status' = "overflow"
              /\ UNCHANGED <<parts, l_no, stack>>
         ELSE /\ parts' = Append(parts, [disk |-> cur, no |-> l_no + 5,
                                         start |-> Top.lba + e.start])
              /\ l_no' = l_no + 1
              /\ stack' = Advanced
              /\ UNCHANGED status
    /\ UNCHANGED <<disk, ext_lba_base, p_no>>

\* A partition entry in an extended boot record: logic_parts[l_no], start
\* relative to this record, named l_no + 5; then l_no++ and, at the cap,
\* return at once (without sys_free and without the remaining entries).
VisitLogical(e) ==
    /\ IF l_no >= MaxLogical
         THEN /\ status' = "overflow"
              /\ UNCHANGED <<parts, l_no, stack>>
         ELSE /\ parts' = Append(parts, [disk |-> cur, no |-> l_no + 5,
                                         start |-> Top.lba + e.start])
              /\ l_no' = l_no + 1
              /\ stack' = IF l_no + 1 >= MaxLogical THEN Popped ELSE Advanced
              /\ UNCHANGED status
    /\ UNCHANGED <<disk, ext_lba_base, p_no>>

\* One iteration of `while (part_idx++ < 4)` on entry p.
Visit ==
    LET e == TableOf(Top)[Top.idx]
    IN
    /\ status = "scanning"
    /\ stack # << >>
    /\ Top.idx <= 4
    /\ CASE e.type = EXTENDED          -> VisitExtended(e)
         [] e.type # 0 /\ Top.lba = 0  -> VisitPrimary(e)
         [] e.type # 0                 -> VisitLogical(e)
         [] OTHER -> /\ stack' = Advanced
                     /\ UNCHANGED <<disk, ext_lba_base, p_no, l_no, parts,
                                    status>>
    /\ UNCHANGED <<todo, cur>>

\* The loop ends: sys_free(bs) and return to the caller's frame.
Return ==
    /\ status = "scanning"
    /\ stack # << >>
    /\ Top.idx = 5
    /\ stack' = Popped
    /\ UNCHANGED <<disk, todo, cur, ext_lba_base, p_no, l_no, parts, status>>

\* ide_init has scanned every disk.
Finish ==
    /\ status = "scanning"
    /\ stack = << >>
    /\ todo = << >>
    /\ status' = "done"
    /\ UNCHANGED <<disk, todo, cur, stack, ext_lba_base, p_no, l_no, parts>>

Next == ScanDisk \/ Visit \/ Return \/ Finish

Spec == Init /\ [][Next]_vars /\ WF_vars(Next)

(***************************************************************************)
(* The partitions spec 4.3 says a disk has, computed from its tables:      *)
(* the MBR's partition entries are primaries numbered from 1 in table      *)
(* order; its extended entry is the base of a chain of extended boot       *)
(* records, each next one at base + start of the record's extended entry;  *)
(* every partition entry of a record lies at record + start and the       *)
(* logical partitions are numbered from 5, at most MaxLogical of them.     *)
(***************************************************************************)
TableAt(d, lba) == IF lba >= NSect THEN ZeroTable ELSE disk[d][lba]

IsPartition(e) == e.type \notin {0, EXTENDED}
IsExtended(e) == e.type = EXTENDED

RECURSIVE EbrChain(_, _, _, _)
EbrChain(d, lba, base, seen) ==
    IF lba \in seen THEN << >>
    ELSE LET next == SelectSeq(TableAt(d, lba), IsExtended)
         IN <<lba>> \o (IF next = << >> THEN << >>
                        ELSE EbrChain(d, base + next[1].start, base,
                                      seen \cup {lba}))

LogicalStarts(d, base) ==
    LET chain == EbrChain(d, base, base, {})
        StartsIn(lba) ==
            LET ps == SelectSeq(TableAt(d, lba), IsPartition)
            IN [j \in DOMAIN ps |-> lba + ps[j].start]
    IN FlattenSeq([k \in DOMAIN chain |-> StartsIn(chain[k])])

Logicals(d, base) ==
    LET ls == LogicalStarts(d, base)
    IN [k \in 1..Min({Len(ls), MaxLogical}) |->
            [disk |-> d, no |-> 4 + k, start |-> ls[k]]]

SpecPartitions(d) ==
    LET mbr == TableAt(d, 0)
        Part(i) ==
            CASE IsPartition(mbr[i]) ->
                   <<[disk |-> d,
                      no |-> Cardinality({j \in 1..i : IsPartition(mbr[j])}),
                      start |-> mbr[i].start]>>
              [] IsExtended(mbr[i]) -> Logicals(d, mbr[i].start)
              [] OTHER -> << >>
    IN FlattenSeq([i \in 1..4 |-> Part(i)])

(***************************************************************************)
(* Properties.                                                             *)
(***************************************************************************)
\* When ide_init has scanned every disk, partition_list holds, disk by
\* disk, exactly the partitions spec 4.3 describes, in order, with the
\* numbers their names carry and their absolute start LBAs.
PartitionsAsSpecified ==
    status = "done" =>
        \A i \in DOMAIN Disks :
            SelectSeq(parts, LAMBDA p : p.disk = Disks[i])
                = SpecPartitions(Disks[i])

\* partition_scan never writes logic_parts[l_no] with l_no beyond the
\* array: the `l_no >= 8` return stops every deeper record.
LogicalIndexInBounds == status # "overflow"

=============================================================================
