------------------------------ MODULE ProcFds ------------------------------
(***************************************************************************)
(* Processes and the descriptors they share: sys_fork (userprog/fork.c),   *)
(* sys_exit and sys_wait (userprog/wait_exit.c), sys_pipe (shell/pipe.c),  *)
(* sys_close (fs/fs.c) and file_open/file_close (fs/file.c) on the global  *)
(* file table, with the per-process fd tables and the in-memory inodes'    *)
(* open counts.                                                            *)
(*                                                                         *)
(* A system call runs with interrupts off (sys_fork asserts it) and leaves *)
(* the CPU only when it blocks, so each call is one step; sys_wait blocks  *)
(* and, once unblocked, goes round its loop again (pc = "wait").  A slot   *)
(* of file_table is [fd_inode, pipe, fd_pos]: pipe stands for fd_flag =    *)
(* PIPE_FLAG, fd_pos is the pipe's open count (uint32_t, modulo Word), and *)
(* a pipe's fd_inode is its ring buffer page BUF.  The directory lookup of *)
(* sys_open is FileTable's; here a file is opened by inode number.         *)
(*                                                                         *)
(* Fds 0 .. 2 start as the raw values 0, 1, 2 (the console) and change     *)
(* only by sys_fd_redirect.  A pipe's ring buffer (ioqueue.c is not in the *)
(* repository) is a sequence of bytes of at most Bufsize, each tagged with *)
(* where it came from: the buffer of a sys_write or of a sys_read.         *)
(***************************************************************************)
EXTENDS Naturals, Integers, Sequences, FiniteSets, TLC

CONSTANTS
    Procs,        \* pids
    InitPid,      \* pid 1, init
    Inodes,       \* inode numbers of regular files
    NSlots,       \* MAX_FILE_OPEN
    NLocal,       \* MAX_FILES_OPEN_PER_PROC
    Word,         \* 2^32, the range of fd_pos
    NULL,         \* the null pointer
    BUF,          \* a pipe's ring buffer page
    Bufsize,      \* bytes a pipe's ring holds
    Counts,       \* byte counts given to sys_read and sys_write
    MaxCalls      \* bound of the model on sys_fork, sys_read, sys_write and
                  \* sys_fd_redirect calls together

Slots == 3 .. NSlots - 1
LocalFds == 3 .. NLocal - 1
StdFds == 0 .. 2
Fds == StdFds \cup LocalFds
StdIn == 0
StdOut == 1
\* Where a byte in a ring came from: a sys_write's buffer or a sys_read's.
Tags == {"written", "read_buf"}

ASSUME Bufsize \in Nat \ {0} /\ Counts \subseteq Nat \ {0}
FdOrder == [j \in 1 .. NLocal - 3 |-> j + 2]   \* 3, 4, ...

VARIABLES
    status,      \* pid -> "unused", "ready", "waiting" or "hanging"
    pc,          \* pid -> "user", or "wait" inside sys_wait's loop
    parent,      \* pid -> parent_pid (-1 for init)
    fd_table,    \* pid -> local fd -> global slot or -1
    file_table,  \* slot -> [fd_inode, pipe, fd_pos]
    open_cnts,   \* inode -> i_open_cnts of its in-memory inode (0: none)
    panicked,    \* "none", or why the kernel stopped
    forks,       \* sys_fork calls so far, bounded with io by MaxCalls
    ring,        \* slot -> the bytes in its pipe's ring buffer
    io           \* sys_read, sys_write and sys_fd_redirect calls so far

vars == <<status, pc, parent, fd_table, file_table, open_cnts, panicked, forks, ring, io>>

TypeOK ==
    /\ status \in [Procs -> {"unused", "ready", "waiting", "hanging"}]
    /\ pc \in [Procs -> {"user", "wait"}]
    /\ parent \in [Procs -> Procs \cup {-1}]
    /\ InitPid \in Procs
    /\ fd_table \in [Procs -> [Fds -> StdFds \cup Slots \cup {-1}]]
    /\ file_table \in [Slots -> [fd_inode : Inodes \cup {NULL, BUF},
                                 pipe : BOOLEAN, fd_pos : 0 .. Word - 1]]
    /\ open_cnts \in [Inodes -> Nat]
    /\ panicked \in {"none", "null_deref", "no_slot", "bad_fd"}
    /\ forks \in 0 .. MaxCalls
    /\ \A s \in Slots : ring[s] \in Seq(Tags) /\ Len(ring[s]) <= Bufsize
    /\ io \in 0 .. MaxCalls

\* The fd table of a pid with no PCB: fork overwrites it with the parent's,
\* so its value is immaterial; the console fds and no others.
NoPcbFds == [fd \in Fds |-> IF fd \in StdFds THEN fd ELSE -1]

Init ==
    /\ status = [p \in Procs |-> IF p = InitPid THEN "ready" ELSE "unused"]
    /\ pc = [p \in Procs |-> "user"]
    /\ parent = [p \in Procs |-> -1]
    /\ fd_table = [p \in Procs |-> NoPcbFds]
    /\ file_table = [s \in Slots |-> [fd_inode |-> NULL, pipe |-> FALSE, fd_pos |-> 0]]
    /\ open_cnts = [i \in Inodes |-> 0]
    /\ panicked = "none"
    /\ forks = 0
    /\ ring = [s \in Slots |-> <<>>]
    /\ io = 0

\* A process can make a system call: it runs and is not inside sys_wait.
Running(p) == panicked = "none" /\ status[p] = "ready" /\ pc[p] = "user"

\* get_free_slot_in_global: the lowest slot whose fd_inode is NULL, or -1.
FreeGlobal ==
    LET free == {s \in Slots : file_table[s].fd_inode = NULL}
    IN  IF free = {} THEN -1 ELSE CHOOSE s \in free : \A t \in free : s <= t

\* pcb_fd_install's choice in table fds: the lowest local fd that is -1.
FreeLocal(fds) ==
    LET free == {fd \in LocalFds : fds[fd] = -1}
    IN  IF free = {} THEN -1 ELSE CHOOSE fd \in free : \A g \in free : fd <= g

Install(fds, s) ==
    IF FreeLocal(fds) = -1 THEN fds ELSE [fds EXCEPT ![FreeLocal(fds)] = s]

(***************************************************************************)
(* Closing one descriptor.  st is [ft, cnt, bad]: the file table, the open *)
(* counts, and whether the kernel dereferenced NULL.                       *)
(***************************************************************************)
\* Mutant: the pipe's open count decremented as a signed number.
PipeDecrement_signed(n) == n - 1

\* --file_table[_fd].fd_pos on a uint32_t.
PipeDecrement(n) == (n - 1) % Word

\* Mutant: file_close leaves fd_inode in the slot.
CloseSlot_keeps_slot(st, s) ==
    LET e == st.ft[s]
    IN  IF e.pipe
          THEN LET n == PipeDecrement(e.fd_pos)
               IN  [st EXCEPT !.ft[s] = [e EXCEPT !.fd_pos = n,
                                          !.fd_inode = IF n = 0 THEN NULL ELSE @]]
        ELSE IF e.fd_inode = NULL THEN [st EXCEPT !.bad = TRUE]
        ELSE [st EXCEPT !.cnt[e.fd_inode] = @ - 1]

\* sys_close's body for global slot s (fs.c 580-592): a pipe's count goes
\* down and its buffer is freed at 0; a file goes through file_close
\* (file.c 294-303): write_deny and inode_close through fd_inode, which
\* faults when fd_inode is NULL, then fd_inode = NULL frees the slot (the
\* flag and fd_pos stay as they were).
CloseSlot(st, s) ==
    LET e == st.ft[s]
    IN  IF e.pipe
          THEN LET n == PipeDecrement(e.fd_pos)
               IN  [st EXCEPT !.ft[s] = [e EXCEPT !.fd_pos = n,
                                          !.fd_inode = IF n = 0 THEN NULL ELSE @]]
        ELSE IF e.fd_inode = NULL THEN [st EXCEPT !.bad = TRUE]
        ELSE [st EXCEPT !.cnt[e.fd_inode] = @ - 1, !.ft[s].fd_inode = NULL]

\* release_prog_resource's loop over fd 3 .. NLocal - 1 (wait_exit.c 72-91).
RECURSIVE CloseAll(_, _, _)
CloseAll(st, fds, order) ==
    IF order = <<>> THEN st
    ELSE CloseAll(IF fds[Head(order)] = -1 \/ st.bad
                    THEN st ELSE CloseSlot(st, fds[Head(order)]),
                  fds, Tail(order))

Closed(st) ==
    /\ file_table' = st.ft
    /\ open_cnts' = st.cnt
    /\ panicked' = IF st.bad THEN "null_deref" ELSE panicked

St == [ft |-> file_table, cnt |-> open_cnts, bad |-> FALSE]

(***************************************************************************)
(* System calls.                                                           *)
(***************************************************************************)
\* sys_open of an existing file, read only, reduced to file_open
\* (file.c 247-282): a free global slot or -1; inode_open counts one more
\* opener; the slot gets fd_pos 0 and the open flag; pcb_fd_install may find
\* no local fd, and then the slot stays taken.
Open(p, i) ==
    /\ Running(p)
    /\ FreeGlobal # -1
    /\ LET s == FreeGlobal IN
         /\ file_table' = [file_table EXCEPT ![s] =
                              [fd_inode |-> i, pipe |-> FALSE, fd_pos |-> 0]]
         /\ open_cnts' = [open_cnts EXCEPT ![i] = @ + 1]
         /\ fd_table' = [fd_table EXCEPT ![p] = Install(@, s)]
    /\ UNCHANGED <<status, pc, parent, panicked, forks, ring, io>>

\* sys_pipe (pipe.c 35-56): the global slot is not checked for -1, so
\* with the table full file_table[-1] is written (the kernel is stopped
\* here); otherwise the slot gets the buffer, PIPE_FLAG and count 2, and
\* pcb_fd_install is called twice, its failures unchecked.
Pipe(p) ==
    /\ Running(p)
    /\ IF FreeGlobal = -1
         THEN /\ panicked' = "no_slot"
              /\ UNCHANGED <<file_table, fd_table, ring>>
         ELSE LET s == FreeGlobal IN
              /\ file_table' = [file_table EXCEPT ![s] =
                                   [fd_inode |-> BUF, pipe |-> TRUE, fd_pos |-> 2]]
              /\ ring' = [ring EXCEPT ![s] = <<>>]   \* ioqueue_init
              /\ fd_table' = [fd_table EXCEPT ![p] = Install(Install(@, s), s)]
              /\ UNCHANGED panicked
    /\ UNCHANGED <<status, pc, parent, open_cnts, forks, io>>

\* sys_close(fd) for an open fd > 2 (fs.c 575-595); the fd is then -1.
Close(p, fd) ==
    /\ Running(p)
    /\ fd_table[p][fd] # -1
    /\ Closed(CloseSlot(St, fd_table[p][fd]))
    /\ fd_table' = [fd_table EXCEPT ![p][fd] = -1]
    /\ UNCHANGED <<status, pc, parent, forks, ring, io>>

\* update_inode_open_cnts (fork.c 183-199): for every open local fd of the
\* child, a pipe's count goes up and a file's inode gets one more opener,
\* through fd_inode, which faults when it is NULL.
Refs(fds, s) == Cardinality({fd \in LocalFds : fds[fd] = s})
ForkCounts(fds) ==
    LET used == {s \in Slots : Refs(fds, s) > 0}
        files == {s \in used : ~file_table[s].pipe}
    IN  [ft |-> [s \in Slots |->
                   IF s \in used /\ file_table[s].pipe
                     THEN [file_table[s] EXCEPT !.fd_pos = (@ + Refs(fds, s)) % Word]
                     ELSE file_table[s]],
         cnt |-> [i \in Inodes |->
                   open_cnts[i] + Cardinality({fd \in LocalFds :
                       fds[fd] \in files /\ file_table[fds[fd]].fd_inode = i})],
         bad |-> \E s \in files : file_table[s].fd_inode = NULL]

\* copy_pcb_vaddrbitmap_stack0 (fork.c 19-52): the child's page is a copy
\* of the parent's PCB, fd_table included, with a new pid (c), TASK_READY
\* and parent_pid set to the parent's pid.  The copy of the virtual address
\* bitmap is memory management and is left out.
copy_pcb_vaddrbitmap_stack0(c, p) ==
    /\ status' = [status EXCEPT ![c] = "ready"]
    /\ pc' = [pc EXCEPT ![c] = "user"]
    /\ parent' = [parent EXCEPT ![c] = p]
    /\ fd_table' = [fd_table EXCEPT ![c] = fd_table[p]]

\* sys_fork and copy_process (fork.c 201-266): a free page for the child's
\* PCB (any unused pid), the PCB copy, the page tables and child stack
\* (memory), then update_inode_open_cnts.  A failed page allocation
\* returns -1 before any of this state changes.
Fork(p) ==
    /\ Running(p)
    /\ forks + io < MaxCalls
    /\ forks' = forks + 1
    /\ \E c \in Procs :
         /\ status[c] = "unused"
         /\ copy_pcb_vaddrbitmap_stack0(c, p)
    /\ Closed(ForkCounts(fd_table[p]))
    /\ UNCHANGED <<ring, io>>

\* Mutant: sys_exit does not hand its children to init.
Adopt_none(p) == parent

\* init_adopt_achild over thread_all_list: p's children get parent 1.
Adopt(p) == [c \in Procs |-> IF parent[c] = p THEN InitPid ELSE parent[c]]

\* sys_exit (wait_exit.c 182-203), which init never calls: the children go
\* to init, release_prog_resource closes fds 3 .. (a pipe's count goes
\* down directly, a file goes through sys_close), the parent is unblocked
\* if it is WAITING, and the process blocks HANGING.
Exit(p) ==
    /\ Running(p)
    /\ p # InitPid
    /\ LET st == CloseAll(St, fd_table[p], FdOrder)
           q == parent[p]
       IN  /\ Closed(st)
           /\ fd_table' = [fd_table EXCEPT ![p] =
                  [fd \in Fds |->
                     IF fd \in LocalFds /\ @[fd] # -1 /\ ~file_table[@[fd]].pipe
                       THEN -1 ELSE @[fd]]]
           /\ status' = [status EXCEPT ![p] = "hanging",
                         ![q] = IF @ = "waiting" THEN "ready" ELSE @]
    /\ parent' = Adopt(p)
    /\ UNCHANGED <<pc, forks, ring, io>>

\* One round of sys_wait's loop (wait_exit.c 148-177), on the call or after
\* being unblocked: reap a HANGING child (thread_exit frees its PCB; which
\* one depends on the order of thread_all_list), or
\* return -1 with no child, or block WAITING.
Children(p) == {c \in Procs : status[c] # "unused" /\ parent[c] = p}

Wait(p) ==
    /\ panicked = "none"
    /\ status[p] = "ready"
    /\ \/ /\ \E c \in Children(p) :
                /\ status[c] = "hanging"
                /\ status' = [status EXCEPT ![c] = "unused"]
                /\ parent' = [parent EXCEPT ![c] = -1]
                /\ fd_table' = [fd_table EXCEPT ![c] = NoPcbFds]
          /\ pc' = [pc EXCEPT ![p] = "user"]
       \/ /\ Children(p) = {}
          /\ pc' = [pc EXCEPT ![p] = "user"]
          /\ UNCHANGED <<status, parent, fd_table>>
       \/ /\ Children(p) # {}
          /\ \A c \in Children(p) : status[c] # "hanging"
          /\ status' = [status EXCEPT ![p] = "waiting"]
          /\ pc' = [pc EXCEPT ![p] = "wait"]
          /\ UNCHANGED <<parent, fd_table>>
    /\ UNCHANGED <<file_table, open_cnts, panicked, forks, ring, io>>

(***************************************************************************)
(* Pipe data and descriptor redirection.                                   *)
(***************************************************************************)
\* is_pipe (pipe.c 22-26): the slot fd_local2global gives has PIPE_FLAG;
\* the raw console values 0 .. 2 are not slots of this table.
is_pipe(p, fd) == fd_table[p][fd] \in Slots /\ file_table[fd_table[p][fd]].pipe

\* pipe_read (pipe.c 59-79): min(count, ioq_length) bytes from the front.
pipe_read(r, n) ==
    LET size == IF Len(r) > n THEN n ELSE Len(r)
    IN  SubSeq(r, size + 1, Len(r))

\* pipe_write (pipe.c 82-103): min(count, bufsize - ioq_length) bytes of
\* the caller's buffer at the back.
pipe_write(r, n, tag) ==
    LET left == Bufsize - Len(r)
        size == IF left > n THEN n ELSE left
    IN  r \o [k \in 1 .. size |-> tag]

\* The ring of slot s becomes r; a pipe whose buffer was freed keeps
\* PIPE_FLAG, and its NULL ioqueue is dereferenced.
PipeStep(s, r) ==
    \/ /\ file_table[s].fd_inode = NULL
       /\ panicked' = "null_deref"
       /\ UNCHANGED ring
    \/ /\ file_table[s].fd_inode # NULL
       /\ ring' = [ring EXCEPT ![s] = r]
       /\ UNCHANGED panicked

\* fd_local2global's ASSERT(global_fd >= 0), on a closed fd.
BadFd(p, fd) ==
    /\ fd_table[p][fd] = -1
    /\ panicked' = "bad_fd"
    /\ UNCHANGED ring

\* sys_write (fs.c 607-630) on a pipe: fd 1 and any other fd that is_pipe
\* go to pipe_write; the console and regular files (FileRW) change
\* nothing here.
SysWrite(p, fd, n) ==
    /\ Running(p) /\ forks + io < MaxCalls /\ io' = io + 1
    /\ \/ BadFd(p, fd)
       \/ /\ is_pipe(p, fd)
          /\ PipeStep(fd_table[p][fd], pipe_write(ring[fd_table[p][fd]], n, "written"))
    /\ UNCHANGED <<status, pc, parent, fd_table, file_table, open_cnts, forks>>

\* sys_read (fs.c 653-693): fds 1 and 2 are refused; fd 0 that is_pipe
\* goes to pipe_write with the read buffer, any other fd that is_pipe to
\* pipe_read; the keyboard and regular files change nothing here.
SysRead(p, fd, n) ==
    /\ Running(p) /\ forks + io < MaxCalls /\ io' = io + 1
    /\ fd \notin {1, 2}
    /\ \/ BadFd(p, fd)
       \/ /\ is_pipe(p, fd)
          /\ LET s == fd_table[p][fd]
             IN  PipeStep(s, IF fd = StdIn THEN pipe_write(ring[s], n, "read_buf")
                                           ELSE pipe_read(ring[s], n))
    /\ UNCHANGED <<status, pc, parent, fd_table, file_table, open_cnts, forks>>

\* sys_fd_redirect (pipe.c 8-19), as the shell's pipeline uses it: fd 0 or
\* 1 gets the raw value new when new < 3, else the slot behind fd new; no
\* count changes.
FdRedirect(p, old, new) ==
    /\ Running(p) /\ forks + io < MaxCalls /\ io' = io + 1
    /\ fd_table' = [fd_table EXCEPT ![p][old] = IF new < 3 THEN new ELSE fd_table[p][new]]
    /\ UNCHANGED <<status, pc, parent, file_table, open_cnts, panicked, forks, ring>>

Next ==
    \E p \in Procs :
        \/ \E i \in Inodes : Open(p, i)
        \/ Pipe(p)
        \/ \E fd \in LocalFds : Close(p, fd)
        \/ Fork(p)
        \/ Exit(p)
        \/ Wait(p)
        \/ \E fd \in Fds, n \in Counts : SysWrite(p, fd, n)
        \/ \E fd \in Fds, n \in Counts : SysRead(p, fd, n)
        \/ \E old \in {StdIn, StdOut}, new \in LocalFds : FdRedirect(p, old, new)
        \/ \E old \in {StdIn, StdOut} : FdRedirect(p, old, old)

Spec == Init /\ [][Next]_vars

(***************************************************************************)
(* Properties.                                                             *)
(***************************************************************************)
Live(p) == status[p] \in {"ready", "waiting"}

\* sys_exit hands its children to init before it blocks HANGING, so every
\* process but init always has a parent that has not exited: the
\* pid2thread(parent_pid) of a later sys_exit finds a live PCB to wake.
ParentsLive ==
    \A p \in Procs \ {InitPid} : status[p] # "unused" => Live(parent[p])

\* inode_close frees the in-memory inode when its count reaches 0: through
\* forks, closes and exits, no slot of file_table points at an inode with
\* fewer openers than slots pointing at it.
InodeHeldWhileSlotRefers ==
    \A i \in Inodes :
        open_cnts[i] >= Cardinality({s \in Slots : ~file_table[s].pipe
                                                   /\ file_table[s].fd_inode = i})

\* Spec 8 and the fork test: fork preserves shared open files, and closing
\* a descriptor in one process does not close it in the other.  Every open
\* fd of a live process refers to a slot still in use.
SharedFdStaysOpen ==
    \A p \in Procs : Live(p) =>
        \A fd \in LocalFds : fd_table[p][fd] # -1 =>
            file_table[fd_table[p][fd]].fd_inode # NULL

\* Spec 4.8/4.9 and the shell's pipelines: a sys_read of a descriptor that
\* refers to a pipe takes bytes out of it, so every byte in a ring is one
\* that some sys_write put there, never the contents of a read buffer.
RingHoldsWrittenBytes ==
    \A s \in Slots : \A k \in 1 .. Len(ring[s]) : ring[s][k] = "written"

====
