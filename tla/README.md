# TLA+ models of the Enix kernel's file system, disk driver and process plumbing

Enix is a 32-bit x86 teaching kernel. The sources are under `src/src/`. This
directory holds TLA+ modules that model the parts of Enix that have shared,
mutable state. It also holds the TLC configurations that check those modules.
`PROJECT.json` lists:
- every component and its status;
- every run and what it checks;
- the mutants that show each passing property can fail;
- the map from each definition to the source lines it translates;
- the findings, and the hazards the code is exposed to.

## 1. The system: parts, state, operations

| Part | Source | State | Operations |
|---|---|---|---|
| Sync primitives | `thread/sync.h` (sync.c is not in the repository; modelled from the spec) | semaphore `value`, `waiters`; lock `holder`, `holder_repeat_nr` | `sema_down`, `sema_up`, `lock_acquire`, `lock_release` |
| IDE driver | `device/ide.c` | per channel: `lock`, `expecting_intr`, `disk_done`; the device's busy/command state | `ide_read`, `ide_write` (`select_sector`, `cmd_out`, `busy_wait`, PIO transfer), `intr_hd_handler` |
| Partition scan, start-up | `device/ide.c` 294-351, `fs.c` 50-111, 133-262, 479-548 | per disk: `prim_parts[4]`, `logic_parts[8]`; globals `p_no`, `l_no`, `ext_lba_base`; `cur_part` with its super block and bitmaps | `partition_scan` (recursive over EBR chains), `filesys_init`, `partition_format`, `mount_partition` |
| Bitmaps | `fs/file.c` 76-102, 313-339 | in-memory inode and block bitmaps and their on-disk copies | `inode_bitmap_alloc`, `block_bitmap_alloc`, `bitmap_sync` |
| Inodes | `fs/inode.h` (inode.c is not in the repository; modelled from the spec) | the partition's `open_inodes` list; per in-memory inode `i_no`, `i_size`, `i_open_cnts`, `write_deny`, `i_sectors[13]` | `inode_open`, `inode_close`, `inode_sync`, `inode_release` |
| Directories | `fs/dir.c` | directory data blocks of 512-byte sectors of entries, the indirect table, the directory's `i_size` | `search_dir_entry`, `sync_dir_entry`, `delete_dir_entry`, `dir_open/close/read/remove` |
| Files | `fs/file.c` | the global `file_table[MAX_FILE_OPEN]` of `{fd_inode, fd_pos, fd_flag}` | `file_create`, `file_open`, `file_close`, `file_write`, `file_read` |
| FS calls | `fs/fs.c` | per process: `fd_table[MAX_FILES_OPEN_PER_PROC]`, `cwd_inode_nr` | `sys_open/close/read/write/lseek/unlink/mkdir/rmdir/opendir/readdir/chdir/getcwd/stat` |
| Pipes | `shell/pipe.c` | a file_table slot whose `fd_inode` is a ring buffer and whose `fd_pos` is a reference count | `sys_pipe`, `pipe_read`, `pipe_write`, `sys_fd_redirect` |
| Processes | `userprog/fork.c`, `wait_exit.c`, `exec.c` | PCBs, `parent_pid`, `status`, `exit_status` | `sys_fork`, `sys_wait`, `sys_exit`, `sys_execv` |
| Shell, stdio, timer | `shell/shell.c`, `buildin_cmd.c`, `lib/`, `device/timer.c` | none shared (the timer's tick count) | command parsing, formatting, `mtime_sleep` |

**How the parts interact.**
- A system call enters through an interrupt gate, so it runs with interrupts
  off. `sys_fork` asserts this.
- A system call leaves the CPU only when it blocks:
  - in `sema_down` on a channel's `disk_done` during any disk access;
  - on the channel lock;
  - in `busy_wait`'s `mtime_sleep`, which calls `thread_yield`;
  - in `sys_wait`/`sys_exit`.
- Every file-system call reaches the disk through `ide_read`/`ide_write`:
  - the caller holds the channel lock from before the command until after the
    transfer;
  - the IRQ handler wakes the caller through `disk_done`.
- Interleaving is limited by two facts:
  - a thread that releases the lock and at once re-acquires it for its next
    access does not yield, so it keeps the channel across its own sequence of
    accesses;
  - other threads run only while it is blocked, and only up to their own
    first disk access.

  The interesting interleavings are therefore those in which one call is
  blocked in I/O while another call that does no I/O runs. Such calls are
  `sys_close`, `sys_pipe`, `sys_fork`, `sys_fd_redirect`, `sys_exit`'s fd
  release, and the in-memory prefix of `file_write`. They touch the state the
  blocked call read before it blocked.
- Process plumbing shares file_table slots:
  - fork duplicates the fd table (only `i_open_cnts` grows);
  - exit closes every fd;
  - a pipe's slot counts its references in `fd_pos`.

**What is hard here, and what a test hardly reaches.**
- A slot chosen before a blocking read and claimed after it.
- Reference counts split between `i_open_cnts` and shared slots after fork.
- `write_deny` as the single-writer rule: `file_create` never sets it, and any
  close clears it.
- Failure paths that return -1 after claiming resources.
- Rollback ladders in `file_create` and `sys_mkdir`.
- Block accounting at the 12-direct/128-indirect boundary and at the
  71 680-byte limit.
- A directory crossing into its indirect table: the table read from LBA 0,
  and the loop that never ends when an indirect block empties.
- The IRQ/semaphore hand-off in the driver, including IRQs that arrive when
  none is expected.
- The recursive EBR walk over globals that are never reset.
- Inode numbers that a process still holds (its cwd) after another
  process's rmdir freed them and a create reused them.

All of these are listed as hazards, at their lines, in `PROJECT.json`.

**Properties that make each part correct.**
- Sync and driver:
  - mutual exclusion on a channel;
  - a caller woken from `disk_done` only after its own command completed;
  - every request eventually completes.
- Inodes: at most one in-memory copy per inode number; `i_open_cnts` equals
  the references to it.
- Directories:
  - unique names;
  - `i_size` equals the entries it holds;
  - the inode bitmap equals the set of named inodes, and the block bitmap
    the blocks of the tree's directories;
  - `.` and `..` name the directory and its parent;
  - `getcwd` names the cwd and never faults.
- Files:
  - a single writer per inode;
  - no slot leaked by a failed call;
  - no open file unlinked;
  - `i_size` and `i_sectors` agree with the block bitmap;
  - the file behaves as a byte sequence written by appends.
- Processes:
  - closing an inherited fd in one process does not close it in the other;
  - every process but init has a live parent, and a waiting parent is woken
    for every child that exits;
  - no in-memory inode is freed while a file-table slot points at it;
  - `wait` returns the child's exit status;
  - pipe reference counts match the fds that refer to them.

## 2. Modules

| Module | Models | MC module and configs |
|---|---|---|
| `FileTable` | the open-file layer: `sys_open` (create, cache hit, cache miss with the blocked `inode_open`), `sys_close`, `sys_unlink` | `MC_FileTable`; `FileTable*.cfg` |
| `IdeChannel` | one ATA channel: `ide_read`/`ide_write` of one sector, `cmd_out`, `busy_wait`, `intr_hd_handler`, the lock and semaphore of `sync.h`, the drive's BSY/DRQ states | `MC_IdeChannel`; `IdeChannel*.cfg` |
| `PartitionScan` | `partition_scan`'s recursion over MBR/EBR tables and `ide_init`'s loop over disks | extended by `FilesysInit` |
| `FilesysInit` | start-up after the scan: `filesys_init`'s walk over the partition slots, `partition_format`, `mount_partition` of sdb1 | `MC_FilesysInit`; `FilesysInit.cfg` |
| `FileRW` | one open file: `file_write`, `file_read`, `sys_Iseek` with the block bitmap, `i_sectors`, the indirect table and the data blocks; beside it one directory's `sync_dir_entry` and `delete_dir_entry` on the same bitmap and disk | `MC_FileRW`; `FileRW*.cfg` |
| `DirTree` | the directory tree: `search_file`, `sys_mkdir` with its rollback ladder, `sys_rmdir`/`dir_remove`, `sys_open(O_CREAT)`/`file_create`, `sys_chdir`, `sys_getcwd` | `MC_DirTree`; `DirTree*.cfg` |
| `AbstractFile` | what one open file promises: a byte sequence and a position | instantiated by `FileRW` |
| `AtomicDisk` | what one IDE channel promises its callers: an exclusive hold, one sector transfer per command, release | instantiated by `IdeChannel` |
| `ProcFds` | processes sharing the file table: `sys_fork`, `sys_exit`, `sys_wait`, `sys_pipe`, `sys_close`, `file_open`, `file_close`, `sys_read`/`sys_write` on pipes, `pipe_read`, `pipe_write`, `sys_fd_redirect` | `MC_ProcFds`; `ProcFds*.cfg` |

Each module has one action per operation. An action is a whole system call
up to the point where the call blocks, for the reason given in section 1. The
guards are the code's conditions and early returns. A panic (an ASSERT, or a
NULL dereference) sets `panicked` and stops every action.

### FileTable

- **State.**
  - `file_table` (slot → `fd_inode`, `fd_flag`) and `fd_table`;
  - `open_inodes` (a sequence, most recently pushed first, as `list_push`
    does) and `inode` (heap object → `i_no`, `i_open_cnts`, `write_deny`),
    with `heap`;
  - `dir` (entry positions of the root), `root_size`, `inode_bitmap`;
  - `pc`/`pending` for a `file_open` blocked in `inode_open`.
- **Actions.**
  - `SysOpenCreate` (`file_create`);
  - `SysOpenCached` and `SysOpenMiss`/`InodeOpenDone` (`file_open`);
  - `SysClose`;
  - `SysUnlink`.
- **Modelled from the spec.** `inode_open/close/release`: inode.c is not in
  the repository.
- **Abstraction.**
  - A file is its inode number; names are model values.
  - The directory's blocks are folded into `DirCap` entry positions.
  - `fd_pos` and contents are left out: FileRW has them.

### IdeChannel

- **State.**
  - each thread's `pc`, operation and blocked flag;
  - the running thread;
  - the lock (`lock_holder`, its semaphore and waiters);
  - `disk_done` and `expecting_intr`;
  - the drive (state, owner, operation).
- **Actions.**
  - each thread's steps: `Request`, `LockAcquire`, `CmdOut`, `BusyWait`,
    `DiskDoneDown`, `Release`;
  - the drive's `DevReady` and `DevWriteDone`;
  - `IntrHdHandler`;
  - `SpuriousIrq`, only in `SpecSpurious`.
- **Scheduling.** A thread in the kernel runs until it blocks or yields, and
  an IRQ is taken only when no thread is in such a segment.
- **Modelled from the spec.** `sema_down/up` and `lock_acquire/release`
  (spec 4.1): sync.c is not in the repository.
- **Refinement.** `AtomicDisk` is the channel as FileTable, FileRW and
  DirTree use it: they take each disk access as one step. A thread is in one
  of four stages:
  - `user`;
  - `wait`, for the channel;
  - `hold`, holding it before its sector is transferred;
  - `done`, holding it after the transfer.

  A thread takes the channel only when no one holds it, and then has its
  transfer. It then leaves, or goes on to its next access without leaving.
  Weak fairness on the transfer and on leaving says a holder always gets on.
  Nothing is promised to a waiter, because a releaser that goes on to its
  next access takes the lock again before the woken waiter runs.

  The mapping (`Stage`) sends:
  - `lock`/`lockwait` to `wait`;
  - `cmd`, `down`, `bwait` and `wpoll` to `hold`;
  - `wdown` and `release` to `done`;
  - `owner` to `lock_holder`.

  The transfer is the `BusyWait` step that finds DRQ. For a read that step
  is `read_from_sector`; for a write it is `write2sector`.
  `AtomicDiskSpec == ABS!Spec` is checked as a property of the
  `ide_channel` run.

### PartitionScan

- **State.**
  - the recursion as an explicit stack of frames `[lba, idx]`;
  - the globals `ext_lba_base`, `p_no` and `l_no`;
  - the registered partitions.
- **Tables.** The partition tables are chosen lazily the first time a sector
  is read.
- **Reference.** `SpecPartitions` is a RECURSIVE reference definition of
  spec 4.3's partition list: it follows the EBR chain from the extended
  partition. The scan is checked against it.
- **Cycles.** A chain that points back into itself ends the scan with status
  `cycle`, because the kernel stack would overflow.

### FilesysInit

- **Composition.** FilesysInit extends PartitionScan. Once the scan is
  `done`, `filesys_init` walks slot `part_idx` of each scanned disk.
  `prim_parts[i]` and `logic_parts[i - 4]` hold the partition named
  `i + 1`, so a slot is empty when the scan registered no partition of
  that number. `part_idx` is not reset between disks, as in the code.
- **Inputs.** A partition's `sec_cnt` comes from its table entry, which
  PartitionScan abstracts, so it is chosen from `SecCnts` when the slot is
  read. So is whether sector `start + 1` already holds the magic. A file
  system found there is one `partition_format` wrote for the same
  partition in an earlier boot, and only its super block is known.
- **Format.** `SuperBlock` is the code's layout arithmetic.
  `FormatBlockBits` is the block bitmap as written: bit 0, then
  `memset(0xff)` from `last_byte` to the end of its sector, then the loop
  `bit_idx <= last_bit`, clipped to `block_bitmap_sects` sectors. A bitmap
  is the set of its set bits. `sys_malloc` returns zeroed memory (the
  comment at fs.c:191).
- **What is kept.** Only slot 0 of the first disk keeps its full content,
  because it is the one `mount_partition` reads. The other slots keep only
  whether they have a file system, which is all anything reads of them.
- **Mount.** `mount_partition` copies sdb1's super block and bitmaps into
  `mounted`. Without an sdb1 (an MBR with no primary entry), `cur_part`
  stays NULL and `open_root_dir` dereferences it: phase `no_root`.
- **Not here.** `open_root_dir` and the clearing of `file_table` leave the
  state that FileTable's and DirTree's Init start from.

### FileRW

- **Data abstraction.** The byte written at file position p has the value
  p + 1, so a correct read returns consecutive values.
- **Scaled geometry.**
  - 2-byte blocks;
  - 2 direct and 2 indirect entries, so the code's 140 and 139 become 4 and
    3;
  - a pool of 6 blocks: block 0 is the root directory's, block 1 the
    first block of the modelled directory;
  - `fd_pos` is modulo 2^8.
- **Allocation.** `block_bitmap_alloc` gives the lowest free bit; bitmap.c is
  not in the repository.
- **Garbage.** An uninitialised `all_blocks` entry is `Garbage`. An LBA
  outside the partition reads as `Garbage`, and a write to it is lost.
- **Actions.**
  - `Write(count)` is `sys_write`'s `file_write`: the size check, the first
    block, the three allocation cases and the indirect table write-back, the
    data loop, and `fd_pos`;
  - `Read(count)` is `file_read`;
  - `Lseek(whence, offset)` is `sys_Iseek`;
  - `sys_malloc` failures are an input when `MallocFails`.
- **A directory on the same partition.** `dir_sectors` and `dir_size` are
  the directory inode's `i_sectors` and `i_size` (in entries). Its blocks
  are on the same `disk`, with one entry per slot (`dir_entry_per_sec`
  scaled to `BLOCK_SIZE`); an entry is the inode it names, and a zero slot
  is `FT_UNKNOWN`. It starts as `sys_mkdir` leaves it: `.` and `..` in
  block 1.
  - `sync_dir_entry(e)` scans `all_blocks_lba` in index order and puts the
    entry in the first free slot or the first unallocated index. That may
    allocate a direct block, or the indirect table and its first block
    (with the rollback when the second allocation fails), or a further
    indirect block with the table written back. At index 12 the code reads
    the table from `i_sectors[12]` even when that is 0, that is from
    LBA 0; `MbrTable` is what it reads.
  - `delete_dir_entry(e)` finds the entry's block and counts its other
    entries. The last entry of a block that is not the first gives the
    block back. For a direct block its `i_sectors` slot is cleared. For an
    indirect block the counting loop at dir.c:433 never advances, so the
    call never returns (`panicked = "delete_loop"`, a halting state).
    Otherwise the slot is zeroed. `i_size` drops by one entry.
  - The callers search first, so an added inode is not listed and a
    removed one is. The "directory is full" return needs more inodes than
    the 8 slots of the scaled directory and is left out (an ASSUME states
    the bound).
  - The file and the directory interleave freely. Each call is one step,
    as in DirTree.
- **Refinement.** `AbstractFile` is the file a process sees: `content`, a
  sequence of bytes, and `fd_pos`. A write appends its bytes, a read returns
  bytes from `fd_pos` on, a seek moves within the file, and any call may
  fail with -1 and change nothing else. FileRW maps `content` to `Content`,
  which reads byte p through `i_sectors`, the indirect table and the disk;
  the other variables map by name. `AbstractFileSpec == ABS!Spec` is checked
  as a PROPERTY. A panic is a stuttering step of the abstract spec.
  `AbstractFile` keeps the code's position rule after a write
  (`fd_pos = i_size - 1`). Spec 6 would leave the position at `i_size`;
  that divergence is the hazard at file.c:537.

### DirTree

- **State.**
  - the inode and block bitmaps;
  - `inode_table`: every inode's on-disk record, reduced to `i_sectors[0]`
    and `i_size` counted in entries;
  - `disk_block`: the entries each data block holds;
  - `cwd_inode_no` per process, and `panicked`.
- **Stale data.** `inode_release` clears bitmap bits only. A freed inode
  keeps its record, and a freed block keeps its entries, until they are
  allocated again. This is how a stale inode number is read.
- **Atomicity.** Each call is one step. A system call runs with interrupts
  off and leaves the CPU only when it blocks. A call that reaches the disk
  holds the IDE channel lock for each `ide_read`/`ide_write` and takes it
  again without yielding, so two directory calls never interleave. A
  refused call (-1, no change) is a stuttering step and is left out, as are
  `sys_malloc` failures of `io_buf`.
- **Actions.**
  - `Mkdir(path)`: the allocations, `.` and `..`, then `sync_dir_entry` into
    the parent. Rollback step 3 clears both bits when the parent needs a
    block and none is free.
  - `Rmdir(path)`: `ASSERT(inode_no != 0)`, the emptiness test on `i_size`,
    then `dir_remove` (`delete_dir_entry`, then `inode_release`).
  - `Create(path)`: `sys_open` with `O_CREAT` and `file_create`. The slot
    and fd it installs are FileTable's and ProcFds' state.
  - `Chdir(p, path)`, and `Getcwd(p)`. `Getcwd` is a step only when its walk
    up the `..` entries (`GetcwdFrom`) stops the kernel.
- **Directory size.** Within the bounds no directory outgrows its first
  block (21 entries), so the other direct blocks and the indirect table are
  left out here. FileRW has them, for one directory.

### ProcFds

- **State.**
  - `status` (unused, ready, waiting, hanging) and `parent` per pid;
  - `pc` ("wait" while inside `sys_wait`'s loop);
  - `fd_table` per pid;
  - `file_table` slots as `[fd_inode, pipe, fd_pos]`. For a pipe, `pipe` is
    `fd_flag = PIPE_FLAG`, `fd_pos` is its reference count modulo `Word`, and
    `fd_inode` is the buffer page `BUF`;
  - `open_cnts`, the `i_open_cnts` per inode;
  - `panicked`;
  - `ring`, per slot, the bytes in a pipe's ring buffer, each tagged with
    the buffer it came from (`"written"` from a `sys_write`, `"read_buf"`
    from a `sys_read`); ioqueue.c is not in the repository, so the ring is a
    sequence of at most `Bufsize` bytes;
  - `forks` and `io`, the numbers of `sys_fork` calls and of
    `sys_read`/`sys_write`/`sys_fd_redirect` calls, bounded together by
    `MaxCalls`.
- **Fds 0..2.** Every fd table has the console fds 0, 1 and 2, holding
  their own number until `sys_fd_redirect` puts a slot there. A pid with no
  PCB has the table `NoPcbFds`; fork overwrites it.
- **Actions.**
  - `Open(p, i)` is `file_open` by inode number, read only. FileTable has the
    directory lookup and `write_deny`.
  - `Pipe(p)` is `sys_pipe`. It does not check the slot for -1, so with the
    table full it stops the kernel (`file_table[-1]` is written).
  - `Close(p, fd)` is `sys_close`.
  - `Fork(p)` is `copy_process` and `sys_fork`, with
    `update_inode_open_cnts` as `ForkCounts`. `copy_pcb_vaddrbitmap_stack0`
    is the part that changes the child's PCB: status, return point, parent
    and the copied fd table.
  - `Exit(p)` is `sys_exit`: adoption (`Adopt`), `release_prog_resource`'s fd
    loop (`CloseAll`, a RECURSIVE fold in fd order), and the parent's
    wake-up.
  - `Wait(p)` is one round of `sys_wait`'s loop: reap, return -1, or block.
  - `SysWrite(p, fd, n)` and `SysRead(p, fd, n)` are `sys_write` and
    `sys_read` on the pipe branches. `is_pipe` goes through
    `fd_local2global`, whose ASSERT stops the kernel on a closed fd
    (`BadFd`). `pipe_write` appends `min(n, Bufsize - len)` bytes and
    `pipe_read` takes `min(n, len)` from the front, without blocking. A pipe
    whose count reached 0 keeps `PIPE_FLAG` with a NULL buffer, and a read
    or write through a stale fd then dereferences NULL (`PipeStep`). As in
    the code, `sys_read` on fd 0 that is a pipe calls `pipe_write`. Console,
    keyboard and regular-file branches change no state of this module
    (FileRW has the file data path).
  - `FdRedirect(p, old, new)` is `sys_fd_redirect` for fd 0 or 1, as the
    shell's pipelines use it: the raw number when `new < 3`, else the slot
    behind `new`, with no count changed.
- **Closing.** `CloseSlot` is the body shared by `sys_close` and the exit
  loop. A pipe's count goes down. A file goes through `file_close`, which
  dereferences `fd_inode` (faulting on NULL) and frees the slot. It leaves
  the slot's flag and `fd_pos` as they were, as the code does.
- **Process ids.** Pids are model values. Pids other than init are symmetric:
  no step compares them, and fork takes any free one.
- **Not modelled.**
  - The bytes' values: only where each came from.
  - `sys_fd_redirect` of fd 2, which the shell never makes.
  - Page freeing and copying, and their allocation failures.
  - `exit_status`. `sys_wait` stores the task state instead: a hazard in
    `PROJECT.json`.

## 3. Runs

| Run | Config | Expect | What it shows |
|---|---|---|---|
| filetable_safety | `FileTable.cfg` | pass | Two processes doing any sequence of create, open (hit and miss), close and unlink keep the directory, the inode bitmap, the in-memory inode list and the open counts consistent (`UniqueNames`, `DirMetadataConsistent`, `RefCountsMatchSlots`, `CacheUnique`, `OpenFilesNamed`). |
| filetable_single_writer | `FileTable_SingleWriter.cfg` | violation | Two fds can hold one file open for writing: create with `O_CREAT\|O_WRONLY`, then open with `O_WRONLY`. `file_create` never sets `write_deny` (file.c:176). |
| ide_channel | `IdeChannel.cfg` | pass | Three threads keep one lock holder and one outstanding command, are woken only by their own command's interrupt, and never panic. Every command completes and every lock waiter proceeds. The channel implements `AtomicDisk` (`AtomicDiskSpec`). |
| ide_spurious_irq | `IdeChannel_Spurious.cfg` | violation | An IRQ that no completion raised, arriving while an `ide_write` sleeps in `busy_wait` (`expecting_intr` is already set, ide.c:129), releases the channel while the drive is busy. |
| startup | `FilesysInit.cfg` | pass | On one disk with every MBR and EBR shape of up to four sectors, three properties hold. The scan registers exactly the partitions of spec 4.3 with the right start LBAs, and never indexes `logic_parts[]` out of bounds. `filesys_init` leaves every registered partition with a file system (`AllPartitionsHaveFs`). The mounted sdb1 has spec 4.4's layout, and after a format its valid bitmap bits, root inode and root directory are as spec 306 and 294 say (`MountedAsSpecified`). Start-up always ends (`StartupTerminates`). |
| filerw | `FileRW.cfg` | pass | Writes of 0, 1 and 3 bytes, reads, seeks, `sys_malloc` failures and a filling block pool, interleaved with additions and removals of 5 entries in a directory that grows into its indirect table: a read returns exactly the bytes written (`ReadReturnsWritten`), every used file block maps to a distinct allocated block (`FileBlocksAllocated`), every directory block and its table are allocated, distinct and never the file's (`DirBlocksAllocated`), the directory's `i_size` counts exactly its entries (`DirSizeMatchesEntries`), and every behaviour is one of `AbstractFile` (`AbstractFileSpec`). |
| dirtree | `DirTree.cfg` | pass | mkdir, rmdir, create and chdir by two processes, rollbacks included. Both bitmaps hold exactly what the tree uses (`AllocationMatchesTree`). Every directory's `.`, `..` and `i_size` are right (`DirLinksConsistent`). A path getcwd returns resolves to the cwd (`CwdNamesItself`). |
| dirtree_rmdir_dot | `DirTree_RmdirDot.cfg` | violation | `rmdir("/a/.")` finds a as its own parent, deletes no entry and frees a's inode (dir.c:595), so `/a` names a freed inode. |
| dirtree_getcwd_reuse | `DirTree_GetcwdReuse.cfg` | violation | Process 1 enters /a; process 2 removes /a and creates a file that takes a's inode. Process 1's getcwd fails `ASSERT(block_lba >= data_start_lba)` (fs.c:1067). |
| procfds | `ProcFds.cfg` | pass | With init and two processes, one file, pipes, reads, writes and redirections of fds 0 and 1, two properties hold. Every process keeps a live parent to wake (`ParentsLive`). No in-memory inode has fewer openers than the slots pointing at it (`InodeHeldWhileSlotRefers`). |
| procfds_shared_close | `ProcFds_SharedClose.cfg` | violation | Open, fork, close: `file_close` frees the slot both processes share (file.c:302), and the other process's fd dangles. Spec 8 says fork preserves shared open files. |
| procfds_stdin_pipe | `ProcFds_StdinPipe.cfg` | violation | `sys_pipe`, `sys_fd_redirect(0, read end)`, `sys_read(0, buf, n)`: the read of a pipe on fd 0 calls `pipe_write` (fs.c:663), so the read buffer goes into the pipe (`RingHoldsWrittenBytes`). This is the shell's pipeline reader. |

Each property of a passing run has a mutant in `PROJECT.json`: a plausible
bug in the mapped code that the property catches. Examples:
- the pipe count decremented as a signed number;
- `sys_exit` without adoption;
- `file_close` leaving `fd_inode` in place.

**Bounds, and why they are enough.**
- **FileTable.** 2 processes, 3 names, 3 inode numbers, 2 directory
  positions, 3 slots and 2 local fds. With these, creation fails on a full
  directory while inode numbers are free, the file table fills before an fd
  table does, and the reverse also happens. Inode numbers are reused after
  unlink. The search covers 152 k states.
- **IdeChannel.** 3 threads. That is enough for a holder, a thread barging
  in on the release, and a waiter. 3 493 states, depth 32.
- **Start-up (PartitionScan, FilesysInit).**
  - tables of up to 4 sectors with every shape of MBR entry, EBR chains of
    length 2 and cyclic chains, and `logic_parts` scaled to 2 entries, so
    the overflow branch is reached. The scan alone has 39 599 states;
  - 16-bit sectors and 16 inodes of one byte, so the metadata takes 11
    sectors;
  - four partition sizes cover every case of the bitmap arithmetic:
    - 22: one bitmap sector, as many as the first estimate;
    - 28: one sector, one fewer than the estimate;
    - 29: a bit count that fills its sector exactly, so the `memset` lands
      past the bitmap;
    - 30: two sectors;
  - each size is checked formatted and found formatted. With no MBR
    primary, mount finds no sdb1. 191 895 states, about 25 s.
- **FileRW.** Blocks 2 to 5 are free at the start. That is a full file
  less one block, or a directory that fills its direct block, its table
  and two indirect blocks, so both run the pool dry and the table's
  rollback is reached. 3-byte writes cross both the direct/indirect
  boundary and the size limit. Five directory inodes are the fewest that
  need the second indirect block; they are interchangeable, so the run
  uses symmetry on them. The LBA-0 words are zero. That makes the read of
  the MBR at dir.c:247 harmless: a real MBR ends in its partition table
  and the 0xAA55 signature, which the scaled two-word table cannot place,
  so that hazard is not reached. With four free blocks, a write that
  needs all five of a full file never completes case 3 (the indirect
  table's rewrite, file.c 504-524). It fails on the pool instead. 26 547
  states, about a minute.
- **DirTree.** 2 processes, 2 names, paths of one and two names, 5
  inodes and 4 blocks (422 k states, about 65 s). Nested directories,
  inode reuse after rmdir, and a full block pool (so the mkdir rollback)
  are all reached. The two violation runs use 4 inodes and 3 blocks, and
  `rmdir_dot` adds the path `/n1/.`.
- **ProcFds.**
  - 3 pids, 2 slots, 2 local fds, a ring of 1 byte and counts of 1, and
    `MaxCalls` = 2 forks and I/O calls together (1.6 M states, about 2
    min). Two forks give the grandchild that adoption needs. Two I/O calls
    give a redirect followed by a write through the redirected fd, which
    reaches the NULL buffer of a freed pipe. The shared bound keeps I/O from
    multiplying the states that two forks already reach;
  - the two violation runs use a ring of 2 and counts of 1 and 2;
  - `Word` = 16 is above the largest reference count the bounds allow
    (4 × 2), so a wrap of the count is the code's underflow and never the
    model's overflow;
  - the fork bound stops the pid recycling that would otherwise make the
    state space grow without end. Every fork, exit and reap ordering of
    three processes is still reached.

**Deadlock.**
- `CHECK_DEADLOCK FALSE` where a panic (an ASSERT, a NULL dereference) halts
  the kernel, and where start-up ends: FilesysInit, FileRW, ProcFds and
  DirTree.
- FileTable also has it off, because failed calls are stuttering steps and a
  state where every call fails has no successor. The kernel keeps running
  in such a state.
- IdeChannel checks deadlock.

**Fairness.**
- IdeChannel assumes:
  - weak fairness on each thread's kernel steps, because the round-robin
    scheduler runs every ready thread;
  - weak fairness on the drive's steps, because the drive finishes every
    command it accepts;
  - strong fairness on the IRQ handler, because a raised IRQ stays latched
    in the PIC and is taken the next time interrupts are on, which happens
    infinitely often.
- FilesysInit assumes weak fairness of its single-threaded steps.
  `init_all` runs `ide_init` and `filesys_init` on the only thread
  there is, before any other thread exists.
- The other modules check safety only.

## 4. Not modelled, and why

- **Memory management.** Page tables, memory pools, `exec`'s ELF loading,
  and fork's address-space copy share no state with the file calls.
- **User-level code.** The shell (`shell.c`, `buildin_cmd.c`) and stdio.
  They run in user mode on top of the system calls. Their only shared state
  is what those calls change. The pipeline sequence of `wish()` is one
  behaviour of ProcFds's actions, and `procfds_stdin_pipe` follows it.
- **`sys_wait`'s wake-up of init.** ProcFds has the adoption and the single
  wake-up, but no run checks that init, WAITING, is woken for an adopted
  HANGING child (wait_exit.c:137).
- **Start-up edge cases.** Partitions no larger than the metadata plus 8
  sectors are not among the sizes. `free_sects` would wrap, or the tail
  loop would clear bit 0 (fs.c:148, a hazard). A second disk is not
  scanned either. There `part_idx` is never reset and ext_lba_base is
  stale (fs.c:504, ide.c:318), so `AllPartitionsHaveFs` and
  `PartitionsAsSpecified` would fail.
- **Spec 295 over the formatted bitmap.** `partition_format`'s loop
  `bit_idx <= last_bit` (fs.c:210) leaves bit `block_bitmap_bit_len` free.
  For sizes 22 and 30 that block is the first sector after the partition.
  `MountedAsSpecified` states spec 306 for the valid bits, where the code
  agrees. Spec 295's range fails on the code, so it is a hazard, not a
  property of a passing run.
- **Large directories in the tree.** DirTree keeps every directory in its
  first block. FileRW has one directory's full block layout, but not in
  the tree. `dir_read`/`sys_readdir` only read.
- **Termination of `delete_dir_entry`.** The endless loop at dir.c:433 is a
  halting state of FileRW. That the call returns is a liveness property
  the code violates, so it is a hazard and no passing run states it.
- **Reading calls.** `sys_opendir`, `sys_stat` change no state.
- **Crashes.** Nothing is modelled that crashes between two disk writes.

## 5. What is left

- **A directory's MBR read with boot code.** `MbrTable` with nonzero
  words, so `sync_dir_entry` treats them as blocks (dir.c:247).
- **DiskOrder.** A crash between the writes of one update, and the spec's
  "never under-allocated" rule.
- **ProcFds composed with FileTable.** So that `sys_pipe` can take the slot a
  blocked `file_open` chose.
