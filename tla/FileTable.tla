----------------------------- MODULE FileTable -----------------------------
(***************************************************************************)
(* The open-file layer of the Enix file system: the global file table      *)
(* (file.c: file_table[]), the per-process descriptor tables (task_struct  *)
(* fd_table[]), the partition's list of in-memory inodes (open_inodes,     *)
(* inode.c), the root directory's entries on disk and the in-memory inode  *)
(* bitmap.  The operations are the system calls sys_open (with its         *)
(* file_open and file_create paths), sys_close and sys_unlink.             *)
(*                                                                         *)
(* Scheduling.  A system call enters through an interrupt gate and runs    *)
(* with interrupts off; it leaves the CPU only when it blocks.  Every disk *)
(* access blocks on the channel's disk_done semaphore while the caller     *)
(* holds the channel lock, and a caller re-acquires that lock between two  *)
(* of its own accesses without yielding (see IdeChannel).  So a call that  *)
(* does I/O runs, as far as other calls' I/O goes, from its first access   *)
(* to its last without interference; only calls that do no I/O (here      *)
(* sys_close) can run while it is blocked.  The one window in which such a *)
(* call observes half-done state is file_open's inode_open miss: the slot  *)
(* is chosen, inode_open reads the inode from disk, and only then is the   *)
(* slot claimed.  That window is the step pair SysOpenMiss/InodeOpenDone. *)
(*                                                                         *)
(* Data abstraction.  A file is its inode number; names are model values;  *)
(* the directory's blocks are abstracted into DirCap entry positions, the  *)
(* first free one being the one sync_dir_entry fills, and "no free         *)
(* position" standing for the directory being full or block_bitmap_alloc  *)
(* failing.  root_size is the root's i_size in units of dir_entry_size.   *)
(* An in-memory inode is a heap object (a member of Copies) so that two    *)
(* objects for the same inode number can be told apart.                    *)
(***************************************************************************)
EXTENDS Naturals, Sequences, FiniteSets, SequencesExt, Bitwise

CONSTANTS
    Procs,                \* user processes
    Names,                \* file names in the root directory
    NInodes,              \* inode numbers 1..NInodes (0 is the root)
    MaxFileOpen,          \* MAX_FILE_OPEN: size of file_table
    MaxFilesOpenPerProc,  \* MAX_FILES_OPEN_PER_PROC: size of fd_table
    DirCap,               \* entry positions the root directory can hold
    MaxCopies,            \* heap objects available for in-memory inodes
    OpenFlags,            \* flag values passed to sys_open
    NULL,                 \* the null pointer
    FREE                  \* an unused directory entry (f_type FT_UNKNOWN)

ASSUME /\ MaxFileOpen > 3 /\ MaxFilesOpenPerProc > 3
       /\ DirCap \in Nat \ {0} /\ NInodes \in Nat \ {0}
       /\ OpenFlags \subseteq 0..7

\* enum oflags in fs.h
O_RDONLY == 0
O_WRONLY == 1
O_RDWR   == 2
O_CREAT  == 4

Slots    == 3..(MaxFileOpen - 1)          \* file_table[0..2] are never used
LocalFds == 3..(MaxFilesOpenPerProc - 1)  \* 0..2 are stdin/stdout/stderr
Inodes   == 1..NInodes
Copies   == 1..MaxCopies
DirIdx   == 1..DirCap

MinOf(S) == CHOOSE x \in S : \A y \in S : x =< y

VARIABLES
    file_table,   \* slot -> [fd_inode, fd_flag]
    fd_table,     \* process -> local fd -> slot or -1
    open_inodes,  \* cur_part->open_inodes, most recently pushed first
    inode,        \* heap object -> [i_no, i_open_cnts, write_deny]
    heap,         \* heap objects currently allocated to in-memory inodes
    dir,          \* root directory entries on disk
    root_size,    \* root_dir.inode->i_size / dir_entry_size
    inode_bitmap, \* cur_part->inode_bitmap (allocated inode numbers)
    pc,           \* "idle" or "inode_open" (blocked inside file_open)
    pending       \* locals of a file_open blocked in inode_open

vars == <<file_table, fd_table, open_inodes, inode, heap, dir, root_size,
          inode_bitmap, pc, pending>>

Entry == [name : Names, i_no : Inodes]

TypeOK ==
    /\ file_table \in [Slots -> [fd_inode : Copies \cup {NULL}, fd_flag : 0..7]]
    /\ fd_table \in [Procs -> [LocalFds -> Slots \cup {-1}]]
    /\ open_inodes \in Seq(Copies)
    /\ inode \in [Copies -> [i_no : Inodes \cup {0}, i_open_cnts : 0..Cardinality(Slots),
                             write_deny : BOOLEAN]]
    /\ heap \subseteq Copies
    /\ dir \in [DirIdx -> Entry \cup {FREE}]
    /\ root_size \in Nat
    /\ inode_bitmap \subseteq Inodes
    /\ pc \in [Procs -> {"idle", "inode_open"}]
    /\ pending \in [Procs -> [slot : Slots \cup {-1}, i_no : Inodes \cup {0},
                              flag : 0..7]]

NoPending == [slot |-> -1, i_no |-> 0, flag |-> 0]

\* The formatted, mounted partition: root holds only "." and "..".
Init ==
    /\ file_table = [s \in Slots |-> [fd_inode |-> NULL, fd_flag |-> 0]]
    /\ fd_table = [p \in Procs |-> [fd \in LocalFds |-> -1]]
    /\ open_inodes = <<>>
    /\ inode = [c \in Copies |-> [i_no |-> 0, i_open_cnts |-> 0,
                                  write_deny |-> FALSE]]  \* FreedInode
    /\ heap = {}
    /\ dir = [k \in DirIdx |-> FREE]
    /\ root_size = 2
    /\ inode_bitmap = {}
    /\ pc = [p \in Procs |-> "idle"]
    /\ pending = [p \in Procs |-> NoPending]

-----------------------------------------------------------------------------
(* Helpers translated from file.c, dir.c and (from the spec) inode.c.      *)

\* The flag asks for writing: (flag & O_WRONLY) || (flag & O_RDWR).
IsWrite(flag) == (flag & O_WRONLY) # 0 \/ (flag & O_RDWR) # 0

\* get_free_slot_in_global: lowest slot from 3 whose fd_inode is NULL, or -1.
get_free_slot_in_global ==
    LET free == {s \in Slots : file_table[s].fd_inode = NULL}
    IN  IF free = {} THEN -1 ELSE MinOf(free)

\* pcb_fd_install: store the slot in the lowest local fd equal to -1.  When
\* the table is full the call returns -1 and nothing is installed.
pcb_fd_install(p, s) ==
    LET free == {fd \in LocalFds : fd_table[p][fd] = -1}
    IN  IF free = {} THEN UNCHANGED fd_table
        ELSE fd_table' = [fd_table EXCEPT ![p][MinOf(free)] = s]

\* search_dir_entry: the inode number of the first entry named name, or -1.
search_dir_entry(name) ==
    LET hits == {k \in DirIdx : dir[k] # FREE /\ dir[k].name = name}
    IN  IF hits = {} THEN -1 ELSE dir[MinOf(hits)].i_no

\* inode_open's list walk: the position of the first in-memory inode whose
\* number is i, or 0 on a miss.
CachedAt(i) == SelectInSeq(open_inodes, LAMBDA c : inode[c].i_no = i)

\* The contents of a heap object no in-memory inode uses.
FreedInode == [i_no |-> 0, i_open_cnts |-> 0, write_deny |-> FALSE]

\* sys_malloc of a new in-memory inode.
NewCopy == CHOOSE c \in Copies \ heap : TRUE

\* Faulty variant of inode_close (checked to break CacheUnique): at zero the
\* object is not taken off open_inodes.
inode_close_keeps_listed(c, ino) ==
    /\ inode' = [ino EXCEPT ![c].i_open_cnts = @ - 1]
    /\ UNCHANGED <<open_inodes, heap>>

\* inode_close: drop one open count; at zero unlink and free the object.
inode_close(c, ino) ==
    IF ino[c].i_open_cnts = 1
    THEN /\ inode' = [ino EXCEPT ![c] = FreedInode]
         /\ open_inodes' = Remove(open_inodes, c)
         /\ heap' = heap \ {c}
    ELSE /\ inode' = [ino EXCEPT ![c].i_open_cnts = @ - 1]
         /\ UNCHANGED <<open_inodes, heap>>

\* Faulty variant of file_open_tail (checked to break RefCountsMatchSlots): a
\* refused writer gives the slot back but keeps inode_open's count.
file_open_tail_frees_refused_slot(p, s, c, flag, ino) ==
    IF IsWrite(flag) /\ ino[c].write_deny
    THEN inode' = ino /\ UNCHANGED <<file_table, fd_table>>
    ELSE /\ file_table' = [file_table EXCEPT ![s] = [fd_inode |-> c, fd_flag |-> flag]]
         /\ inode' = [ino EXCEPT ![c].write_deny = @ \/ IsWrite(flag)]
         /\ pcb_fd_install(p, s)

\* The rest of file_open once inode_open has returned c (ino is the inode
\* store after inode_open): claim the slot, then the write_deny check, then
\* pcb_fd_install.  A refused writer returns -1 with the slot left claimed.
file_open_tail(p, s, c, flag, ino) ==
    /\ file_table' = [file_table EXCEPT ![s] = [fd_inode |-> c, fd_flag |-> flag]]
    /\ IF IsWrite(flag) /\ ino[c].write_deny
       THEN inode' = ino /\ UNCHANGED fd_table
       ELSE /\ inode' = [ino EXCEPT ![c].write_deny = @ \/ IsWrite(flag)]
            /\ pcb_fd_install(p, s)

\* Some process is blocked in a disk access and holds the channel lock, so
\* a call that needs the disk cannot get past its first ide_read.
ChannelBusy == \E q \in Procs : pc[q] = "inode_open"

\* inode_bitmap_alloc: the lowest clear bit of the inode bitmap.
inode_bitmap_alloc == MinOf(Inodes \ inode_bitmap)

\* search_file for "/name": path_parse yields one component and
\* search_dir_entry looks it up in root_dir; every entry is a regular file.
search_file(name) == search_dir_entry(name)

\* sync_dir_entry into the root: the entry goes into the first position
\* whose f_type is FT_UNKNOWN, and i_size grows by one entry.  With no free
\* position (directory full, or block_bitmap_alloc failing) it returns false
\* and writes nothing; that case is the conjunct's failure.
sync_dir_entry(e) ==
    LET k == MinOf({j \in DirIdx : dir[j] = FREE})
    IN  /\ \E j \in DirIdx : dir[j] = FREE
        /\ dir' = [dir EXCEPT ![k] = e]
        /\ root_size' = root_size + 1

\* Faulty variant of delete_dir_entry (checked to break
\* DirMetadataConsistent): the entry is cleared but i_size is not reduced.
delete_dir_entry_keeps_size(i) ==
    /\ dir' = [k \in DirIdx |-> IF dir[k] # FREE /\ dir[k].i_no = i
                                THEN FREE ELSE dir[k]]
    /\ UNCHANGED root_size

\* delete_dir_entry: clear the entry whose i_no is i, i_size -= entry size.
delete_dir_entry(i) ==
    /\ dir' = [k \in DirIdx |-> IF dir[k] # FREE /\ dir[k].i_no = i
                                THEN FREE ELSE dir[k]]
    /\ root_size' = root_size - 1

\* inode_release: free the inode's blocks and clear its bit in the bitmap.
inode_release(i) == inode_bitmap' = inode_bitmap \ {i}

\* file_close: clear write_deny, inode_close, then fd_inode = NULL.
file_close(s) ==
    LET c == file_table[s].fd_inode
    IN  /\ inode_close(c, [inode EXCEPT ![c].write_deny = FALSE])
        /\ file_table' = [file_table EXCEPT ![s].fd_inode = NULL]

-----------------------------------------------------------------------------
(* file_create: allocate an inode number, an in-memory inode and a slot,  *)
(* write the entry with sync_dir_entry, sync, push the inode on           *)
(* open_inodes with i_open_cnts = 1 and install the fd.  When the inode    *)
(* bitmap, the file table or the directory is full, the rollback ladder    *)
(* undoes every allocation and the call returns -1 with no state changed,  *)
(* so those outcomes are stuttering steps.  write_deny is set to false     *)
(* whatever the flag is.  Between its first disk access and its last it   *)
(* holds the channel, and the slot is claimed before the first one, so    *)
(* nothing another call does can interleave with it observably.           *)
file_create(p, name, flag) ==
    LET i == inode_bitmap_alloc
        s == get_free_slot_in_global
        c == NewCopy
    IN  /\ Inodes \ inode_bitmap # {}
        /\ s # -1
        /\ sync_dir_entry([name |-> name, i_no |-> i])
        /\ inode_bitmap' = inode_bitmap \cup {i}
        /\ heap' = heap \cup {c}
        /\ inode' = [inode EXCEPT ![c] = [i_no |-> i, i_open_cnts |-> 1,
                                          write_deny |-> FALSE]]
        /\ file_table' = [file_table EXCEPT ![s] = [fd_inode |-> c, fd_flag |-> flag]]
        /\ open_inodes' = <<c>> \o open_inodes
        /\ pcb_fd_install(p, s)

\* Faulty variant of SysOpenCreate (checked to break UniqueNames): the
\* "found && (flags & O_CREAT)" refusal of sys_open is missing.
SysOpenCreate_no_exist_check(p, name, flag) ==
    /\ pc[p] = "idle" /\ ~ChannelBusy
    /\ (flag & O_CREAT) # 0
    /\ file_create(p, name, flag)
    /\ UNCHANGED <<pc, pending>>

\* sys_open with O_CREAT of a name search_file did not find.  (Found with
\* O_CREAT, or not found without it: -1 and no change.)
SysOpenCreate(p, name, flag) ==
    /\ pc[p] = "idle" /\ ~ChannelBusy
    /\ (flag & O_CREAT) # 0
    /\ search_file(name) = -1
    /\ file_create(p, name, flag)
    /\ UNCHANGED <<pc, pending>>

\* Faulty variant of SysOpenCached (checked to break TypeOK): the count is
\* raised both by inode_open and again by its caller.
SysOpenCached_counts_twice(p, name, flag) ==
    LET i == search_file(name)
        s == get_free_slot_in_global
        c == open_inodes[CachedAt(i)]
    IN  /\ pc[p] = "idle" /\ ~ChannelBusy
        /\ (flag & O_CREAT) = 0
        /\ i # -1 /\ s # -1
        /\ CachedAt(i) # 0
        /\ file_open_tail(p, s, c, flag,
                          [inode EXCEPT ![c].i_open_cnts = @ + 2])
        /\ UNCHANGED <<open_inodes, heap, dir, root_size, inode_bitmap, pc, pending>>

\* sys_open without O_CREAT of a file search_file found: file_open.  Here
\* inode_open finds the inode in open_inodes and only bumps i_open_cnts.
\* (No free slot: -1 and no change.)
SysOpenCached(p, name, flag) ==
    LET i == search_file(name)
        s == get_free_slot_in_global
        c == open_inodes[CachedAt(i)]
    IN  /\ pc[p] = "idle" /\ ~ChannelBusy
        /\ (flag & O_CREAT) = 0
        /\ i # -1 /\ s # -1
        /\ CachedAt(i) # 0
        /\ file_open_tail(p, s, c, flag,
                          [inode EXCEPT ![c].i_open_cnts = @ + 1])
        /\ UNCHANGED <<open_inodes, heap, dir, root_size, inode_bitmap, pc, pending>>

\* Same, when inode_open misses: it starts reading the inode from disk and
\* blocks.  The slot s has been chosen but file_table[s].fd_inode is still
\* NULL, so s still looks free to everyone else.
SysOpenMiss(p, name, flag) ==
    LET i == search_file(name)
        s == get_free_slot_in_global
    IN  /\ pc[p] = "idle" /\ ~ChannelBusy
        /\ (flag & O_CREAT) = 0
        /\ i # -1 /\ s # -1
        /\ CachedAt(i) = 0
        /\ pc' = [pc EXCEPT ![p] = "inode_open"]
        /\ pending' = [pending EXCEPT ![p] = [slot |-> s, i_no |-> i, flag |-> flag]]
        /\ UNCHANGED <<file_table, fd_table, open_inodes, inode, heap, dir,
                       root_size, inode_bitmap>>

\* The read completes: inode_open pushes a fresh in-memory inode with
\* i_open_cnts = 1 without looking at the list again, and file_open goes on
\* with the slot it chose before blocking.
InodeOpenDone(p) ==
    LET c == NewCopy
        r == pending[p]
    IN  /\ pc[p] = "inode_open"
        /\ heap' = heap \cup {c}
        /\ open_inodes' = <<c>> \o open_inodes
        /\ file_open_tail(p, r.slot, c, r.flag,
                          [inode EXCEPT ![c] = [i_no |-> r.i_no, i_open_cnts |-> 1,
                                                write_deny |-> FALSE]])
        /\ pc' = [pc EXCEPT ![p] = "idle"]
        /\ pending' = [pending EXCEPT ![p] = NoPending]
        /\ UNCHANGED <<dir, root_size, inode_bitmap>>

\* sys_close of an open local fd (fd > 2): file_close, then the local fd
\* becomes -1.  It does no I/O, so it may run while another call blocks.
SysClose(p, fd) ==
    /\ pc[p] = "idle"
    /\ fd_table[p][fd] # -1
    /\ file_close(fd_table[p][fd])
    /\ fd_table' = [fd_table EXCEPT ![p][fd] = -1]
    /\ UNCHANGED <<dir, root_size, inode_bitmap, pc, pending>>

\* Faulty variant of InUse (checked to break OpenFilesNamed): the scan stops
\* one slot short, as "file_idx < MAX_FILE_OPEN - 1" would.
InUse_skips_last_slot(i) ==
    \E s \in 3..(MaxFileOpen - 2) : /\ file_table[s].fd_inode # NULL
                                   /\ inode[file_table[s].fd_inode].i_no = i

\* sys_unlink's scan of file_table[0..MAX_FILE_OPEN-1] for the inode (slots
\* 0..2 are always NULL).
InUse(i) == \E s \in Slots : /\ file_table[s].fd_inode # NULL
                              /\ inode[file_table[s].fd_inode].i_no = i

\* sys_unlink of a name search_file found whose inode no slot refers to:
\* delete_dir_entry, then inode_release.  (Not found, or in use: -1.)
SysUnlink(p, name) ==
    LET i == search_file(name)
    IN  /\ pc[p] = "idle" /\ ~ChannelBusy
        /\ i # -1
        /\ ~InUse(i)
        /\ delete_dir_entry(i)
        /\ inode_release(i)
        /\ UNCHANGED <<file_table, fd_table, open_inodes, inode, heap, pc, pending>>

Next ==
    \/ \E p \in Procs, n \in Names, f \in OpenFlags :
          \/ SysOpenCreate(p, n, f)
          \/ SysOpenCached(p, n, f)
          \/ SysOpenMiss(p, n, f)
    \/ \E p \in Procs : InodeOpenDone(p)
    \/ \E p \in Procs, fd \in LocalFds : SysClose(p, fd)
    \/ \E p \in Procs, n \in Names : SysUnlink(p, n)

Spec == Init /\ [][Next]_vars

-----------------------------------------------------------------------------
(* Properties.                                                             *)

\* Names in a directory are unique: sys_open refuses O_CREAT of a name that
\* search_file found, and no other call writes an entry.
UniqueNames ==
    \A j, k \in DirIdx : j # k /\ dir[j] # FREE /\ dir[k] # FREE
                         => dir[j].name # dir[k].name

\* The directory's in-memory size, its entries on disk and the inode bitmap
\* agree after every call: file_create's rollback ladder undoes the bitmap
\* bit when sync_dir_entry fails, sync_dir_entry and delete_dir_entry move
\* i_size with the entries, and sys_unlink's inode_release frees the bit of
\* exactly the inode whose entry it removed.
DirMetadataConsistent ==
    LET live == {k \in DirIdx : dir[k] # FREE}
    IN  /\ root_size = 2 + Cardinality(live)
        /\ inode_bitmap = {dir[k].i_no : k \in live}

\* Every in-memory inode's i_open_cnts equals the number of file_table slots
\* that point at it, and a slot never points at a freed or unlisted object:
\* the counting of inode_open, file_create, file_close and inode_close,
\* including file_open's early return that keeps the slot.
RefCountsMatchSlots ==
    /\ \A s \in Slots : file_table[s].fd_inode # NULL
                        => file_table[s].fd_inode \in ToSet(open_inodes)
    /\ \A c \in ToSet(open_inodes) :
          inode[c].i_open_cnts = Cardinality({s \in Slots : file_table[s].fd_inode = c})

\* open_inodes holds at most one object per inode number, so that all the
\* openers of a file share one write_deny flag and one i_size.
CacheUnique ==
    \A j, k \in 1..Len(open_inodes) :
        j # k => inode[open_inodes[j]].i_no # inode[open_inodes[k]].i_no

\* A file that is open is still named and allocated: sys_unlink's scan of
\* the file table refuses to delete it, so its inode number is never freed
\* and handed to a new file while a descriptor still reaches it.
OpenFilesNamed ==
    \A s \in Slots :
        LET c == file_table[s].fd_inode
        IN  c # NULL => /\ inode[c].i_no \in inode_bitmap
                        /\ \E k \in DirIdx : dir[k] # FREE /\ dir[k].i_no = inode[c].i_no

\* A slot some process's descriptor table refers to.
Installed(s) == \E p \in Procs, fd \in LocalFds : fd_table[p][fd] = s

\* Of the descriptors processes hold, at most one refers to an inode with a
\* write flag: file_open's write_deny check is the single-writer rule.
SingleWriter ==
    \A s1, s2 \in Slots :
        /\ s1 # s2 /\ Installed(s1) /\ Installed(s2)
        /\ IsWrite(file_table[s1].fd_flag) /\ IsWrite(file_table[s2].fd_flag)
        => inode[file_table[s1].fd_inode].i_no # inode[file_table[s2].fd_inode].i_no
=============================================================================
