----------------------------- MODULE IdeChannel -----------------------------
(***************************************************************************)
(* One ATA channel of the IDE driver (src/device/ide.c) shared by several  *)
(* threads, with the binary semaphore and the lock of thread/sync.h that   *)
(* serialise it (their bodies, sync.c, are not in the repository and are   *)
(* modelled from the specification, section 4.1).                          *)
(*                                                                         *)
(* A thread issues ide_read or ide_write of one sector: every call made    *)
(* after boot transfers one sector (only mount_partition and               *)
(* partition_format, which run at initialisation, ask for more), so the    *)
(* 256-sector chunk loop runs once per call.                               *)
(*                                                                         *)
(* Scheduling.  A system call runs with interrupts disabled, so a thread   *)
(* in the kernel runs without interruption until it blocks (sema_down),    *)
(* yields (mtime_sleep in busy_wait) or returns to user mode.  `running`   *)
(* is that thread; each action is one such uninterrupted segment or a     *)
(* step of it.  The disk works on its own, so the device steps are taken   *)
(* whatever runs; an IRQ is delivered only when no thread is inside such a *)
(* segment (running = NONE: a thread in user mode or the idle thread has   *)
(* interrupts on).                                                         *)
(***************************************************************************)
EXTENDS Naturals, Sequences, FiniteSets

CONSTANTS
    Threads,    \* the threads that do disk I/O on this channel
    NONE        \* no thread

ASSUME NONE \notin Threads

Ops == {"read", "write"}

\* Device states: the status bits BSY and DRQ of the ATA status register.
\*   "idle"       neither
\*   "busy"       BSY after a command was written
\*   "drq"        DRQ: a sector is ready to be read, or the drive waits
\*                for the sector to write
\*   "busy_write" BSY while the written sector goes to the medium
DevStates == {"idle", "busy", "drq", "busy_write"}

\* Program counters, named after the point of ide_read / ide_write reached.
PCs == {"user", "lock", "lockwait", "cmd", "down", "bwait", "wpoll", "wdown", "release"}

VARIABLES
    pc,              \* pc[t]: where thread t is
    op,              \* op[t]: the call thread t is in
    running,         \* the thread running with interrupts disabled, or NONE
    blocked,         \* threads blocked in a semaphore queue
    lock_value,      \* channel->lock.semaphore.value
    lock_holder,     \* channel->lock.holder
    lock_waiters,    \* channel->lock.semaphore.waiters
    done_value,      \* channel->disk_done.value
    done_waiters,    \* channel->disk_done.waiters
    expecting_intr,  \* channel->expecting_intr
    dev,             \* the drive: [state, owner, op, done]
    irq,             \* IRQ 14 raised and not yet delivered
    panicked         \* PANIC in ide_read / ide_write

vars == <<pc, op, running, blocked, lock_value, lock_holder, lock_waiters,
          done_value, done_waiters, expecting_intr, dev, irq, panicked>>

\* dev.owner is the thread whose command the drive is executing and
\* dev.done records that the drive has raised that command's completion
\* interrupt (both are bookkeeping for the properties, not device state).
Device == [state : DevStates, owner : Threads \cup {NONE}, op : Ops,
           done : BOOLEAN]

TypeOK ==
    /\ pc \in [Threads -> PCs]
    /\ op \in [Threads -> Ops]
    /\ running \in Threads \cup {NONE}
    /\ blocked \subseteq Threads
    /\ lock_value \in {0, 1}
    /\ lock_holder \in Threads \cup {NONE}
    /\ lock_waiters \in Seq(Threads)
    /\ done_value \in {0, 1}
    /\ done_waiters \in Seq(Threads)
    /\ expecting_intr \in BOOLEAN
    /\ dev \in Device
    /\ irq \in BOOLEAN
    /\ panicked \in BOOLEAN

\* ide_init: lock_init (value 1, no holder), sema_init(disk_done, 0),
\* expecting_intr = false.
Init ==
    /\ pc = [t \in Threads |-> "user"]
    /\ op = [t \in Threads |-> "read"]
    /\ running = NONE
    /\ blocked = {}
    /\ lock_value = 1
    /\ lock_holder = NONE
    /\ lock_waiters = << >>
    /\ done_value = 0
    /\ done_waiters = << >>
    /\ expecting_intr = FALSE
    /\ dev = [state |-> "idle", owner |-> NONE, op |-> "read", done |-> FALSE]
    /\ irq = FALSE
    /\ panicked = FALSE

\* A thread may take its next step when it is not blocked, the kernel is
\* not halted, and no other thread runs with interrupts disabled.
CanRun(t) == t \notin blocked /\ running \in {NONE, t} /\ ~panicked

(***************************************************************************)
(* The semaphore (spec 4.1).  sema_up unblocks the head waiter, which      *)
(* becomes ready and re-checks the value when it runs again (the while     *)
(* loop of sema_down), and increments the value.                           *)
(***************************************************************************)
\* The blocked set after unblocking the head of queue w.
Unblock(w) == IF w = << >> THEN blocked ELSE blocked \ {Head(w)}
Dequeue(w) == IF w = << >> THEN w ELSE Tail(w)

(***************************************************************************)
(* Threads.                                                                *)
(***************************************************************************)
\* A thread in user mode (interrupts on) makes a system call that reaches
\* ide_read or ide_write.
Request(t, o) ==
    /\ pc[t] = "user"
    /\ running = NONE
    /\ ~panicked
    /\ pc' = [pc EXCEPT ![t] = "lock"]
    /\ op' = [op EXCEPT ![t] = o]
    /\ running' = t
    /\ UNCHANGED <<blocked, lock_value, lock_holder, lock_waiters, done_value,
                   done_waiters, expecting_intr, dev, irq, panicked>>

\* Mutant: sema_down with `if` for `while` (no re-test after the wake-up).
LockAcquire_no_recheck(t) ==
    /\ pc[t] \in {"lock", "lockwait"}
    /\ CanRun(t)
    /\ IF lock_value > 0 \/ pc[t] = "lockwait"
         THEN /\ lock_value' = 0
              /\ lock_holder' = t
              /\ pc' = [pc EXCEPT ![t] = "cmd"]
              /\ running' = t
              /\ UNCHANGED <<blocked, lock_waiters>>
         ELSE /\ lock_waiters' = Append(lock_waiters, t)
              /\ blocked' = blocked \cup {t}
              /\ pc' = [pc EXCEPT ![t] = "lockwait"]
              /\ running' = NONE
              /\ UNCHANGED <<lock_value, lock_holder>>
    /\ UNCHANGED <<op, done_value, done_waiters, expecting_intr, dev, irq,
                   panicked>>

\* lock_acquire by a thread that is not the holder: sema_down on the lock's
\* semaphore, then holder = current.  The first test ("lock") and the
\* re-test of the while loop after being woken ("lockwait") are the same
\* code.  (The reentrant branch, holder == current, is never taken here:
\* no thread calls ide_read or ide_write while holding the channel lock.)
LockAcquire(t) ==
    /\ pc[t] \in {"lock", "lockwait"}
    /\ CanRun(t)
    /\ IF lock_value > 0
         THEN /\ lock_value' = lock_value - 1
              /\ lock_holder' = t
              /\ pc' = [pc EXCEPT ![t] = "cmd"]
              /\ running' = t
              /\ UNCHANGED <<blocked, lock_waiters>>
         ELSE /\ lock_waiters' = Append(lock_waiters, t)
              /\ blocked' = blocked \cup {t}
              /\ pc' = [pc EXCEPT ![t] = "lockwait"]
              /\ running' = NONE
              /\ UNCHANGED <<lock_value, lock_holder>>
    /\ UNCHANGED <<op, done_value, done_waiters, expecting_intr, dev, irq,
                   panicked>>

\* Mutant: cmd_out without setting expecting_intr.
CmdOut_no_expect(t) ==
    LET new == [state |-> "busy", owner |-> t, op |-> op[t], done |-> FALSE]
    IN
    /\ pc[t] = "cmd"
    /\ running = t
    /\ ~panicked
    /\ dev' \in IF dev.state = "idle" THEN {new} ELSE {dev, new}
    /\ pc' = [pc EXCEPT ![t] = IF op[t] = "read" THEN "down" ELSE "wpoll"]
    /\ UNCHANGED <<op, running, blocked, lock_value, lock_holder, lock_waiters,
                   done_value, done_waiters, expecting_intr, irq, panicked>>

\* select_disk, select_sector and cmd_out: expecting_intr is set, then the
\* command register is written.  Writing it while the drive is still BSY
\* or DRQ has an indeterminate result: the drive either ignores it or
\* starts the new command.
CmdOut(t) ==
    LET new == [state |-> "busy", owner |-> t, op |-> op[t], done |-> FALSE]
    IN
    /\ pc[t] = "cmd"
    /\ running = t
    /\ ~panicked
    /\ expecting_intr' = TRUE
    /\ dev' \in IF dev.state = "idle" THEN {new} ELSE {dev, new}
    /\ pc' = [pc EXCEPT ![t] = IF op[t] = "read" THEN "down" ELSE "wpoll"]
    /\ UNCHANGED <<op, running, blocked, lock_value, lock_holder, lock_waiters,
                   done_value, done_waiters, irq, panicked>>

\* Mutant: sema_down that decrements without waiting for the value.
DiskDoneDown_skips_wait(t) ==
    /\ pc[t] \in {"down", "wdown"}
    /\ CanRun(t)
    /\ done_value' = done_value - 1
    /\ pc' = [pc EXCEPT ![t] = IF pc[t] = "down" THEN "bwait" ELSE "release"]
    /\ running' = t
    /\ UNCHANGED <<op, blocked, done_waiters, lock_value, lock_holder,
                   lock_waiters, expecting_intr, dev, irq, panicked>>

\* sema_down(&channel->disk_done): in ide_read right after cmd_out ("down"),
\* in ide_write after write2sector ("wdown").  Woken, the thread re-tests.
DiskDoneDown(t) ==
    /\ pc[t] \in {"down", "wdown"}
    /\ CanRun(t)
    /\ IF done_value > 0
         THEN /\ done_value' = done_value - 1
              /\ pc' = [pc EXCEPT ![t] = IF pc[t] = "down" THEN "bwait"
                                                            ELSE "release"]
              /\ running' = t
              /\ UNCHANGED <<blocked, done_waiters>>
         ELSE /\ done_waiters' = Append(done_waiters, t)
              /\ blocked' = blocked \cup {t}
              /\ running' = NONE
              /\ UNCHANGED <<pc, done_value>>
    /\ UNCHANGED <<op, lock_value, lock_holder, lock_waiters, expecting_intr,
                   dev, irq, panicked>>

\* Mutant: ide_write returns after write2sector without sema_down.
BusyWait_write_no_down(t) ==
    /\ pc[t] \in {"bwait", "wpoll"}
    /\ CanRun(t)
    /\ CASE dev.state \in {"busy", "busy_write"} ->
              /\ running' = NONE
              /\ UNCHANGED <<pc, dev, panicked>>
         [] dev.state = "drq" ->
              /\ dev' = [dev EXCEPT !.state = IF pc[t] = "bwait" THEN "idle"
                                                               ELSE "busy_write"]
              /\ pc' = [pc EXCEPT ![t] = "release"]
              /\ running' = t
              /\ UNCHANGED panicked
         [] dev.state = "idle" ->
              /\ panicked' = TRUE
              /\ UNCHANGED <<pc, dev, running>>
    /\ UNCHANGED <<op, blocked, lock_value, lock_holder, lock_waiters,
                   done_value, done_waiters, expecting_intr, irq>>

\* Mutant: busy_wait that returns the DRQ bit without waiting for BSY.
BusyWait_no_poll(t) ==
    /\ pc[t] \in {"bwait", "wpoll"}
    /\ CanRun(t)
    /\ CASE dev.state = "drq" /\ pc[t] = "bwait" ->
              /\ dev' = [dev EXCEPT !.state = "idle"]
              /\ pc' = [pc EXCEPT ![t] = "release"]
              /\ running' = t
              /\ UNCHANGED panicked
         [] dev.state = "drq" /\ pc[t] = "wpoll" ->
              /\ dev' = [dev EXCEPT !.state = "busy_write"]
              /\ pc' = [pc EXCEPT ![t] = "wdown"]
              /\ running' = t
              /\ UNCHANGED panicked
         [] dev.state # "drq" ->
              /\ panicked' = TRUE
              /\ UNCHANGED <<pc, dev, running>>
    /\ UNCHANGED <<op, blocked, lock_value, lock_holder, lock_waiters,
                   done_value, done_waiters, expecting_intr, irq>>

\* busy_wait followed by the transfer: in ide_read after the wake-up
\* ("bwait"), then read_from_sector; in ide_write right after cmd_out
\* ("wpoll"), then write2sector and on to sema_down.  While BSY is set the
\* thread sleeps 10 ms (mtime_sleep yields, the thread stays ready).  BSY
\* clear without DRQ makes busy_wait return false, and the caller PANICs.
\* (The 30 s time limit is not modelled: the drive always ends BSY here.)
BusyWait(t) ==
    /\ pc[t] \in {"bwait", "wpoll"}
    /\ CanRun(t)
    /\ CASE dev.state \in {"busy", "busy_write"} ->
              /\ running' = NONE
              /\ UNCHANGED <<pc, dev, panicked>>
         [] dev.state = "drq" /\ pc[t] = "bwait" ->
              /\ dev' = [dev EXCEPT !.state = "idle"]
              /\ pc' = [pc EXCEPT ![t] = "release"]
              /\ running' = t
              /\ UNCHANGED panicked
         [] dev.state = "drq" /\ pc[t] = "wpoll" ->
              /\ dev' = [dev EXCEPT !.state = "busy_write"]
              /\ pc' = [pc EXCEPT ![t] = "wdown"]
              /\ running' = t
              /\ UNCHANGED panicked
         [] dev.state = "idle" ->
              /\ panicked' = TRUE
              /\ UNCHANGED <<pc, dev, running>>
    /\ UNCHANGED <<op, blocked, lock_value, lock_holder, lock_waiters,
                   done_value, done_waiters, expecting_intr, irq>>

\* Mutant: lock_release that does not clear the holder.
Release_keeps_holder(t, next) ==
    /\ pc[t] = "release"
    /\ CanRun(t)
    /\ blocked' = Unblock(lock_waiters)
    /\ lock_waiters' = Dequeue(lock_waiters)
    /\ IF next = "return"
         THEN /\ lock_value' = lock_value + 1
              /\ pc' = [pc EXCEPT ![t] = "user"]
              /\ running' = NONE
              /\ UNCHANGED <<op, lock_holder>>
         ELSE /\ lock_value' = lock_value
              /\ lock_holder' = t
              /\ pc' = [pc EXCEPT ![t] = "cmd"]
              /\ op' = [op EXCEPT ![t] = next]
              /\ running' = t
    /\ UNCHANGED <<done_value, done_waiters, expecting_intr, dev, irq,
                   panicked>>

\* Mutant: sema_up that increments the value but unblocks no waiter.
Release_no_wakeup(t, next) ==
    /\ pc[t] = "release"
    /\ CanRun(t)
    /\ IF next = "return"
         THEN /\ lock_value' = lock_value + 1
              /\ lock_holder' = NONE
              /\ pc' = [pc EXCEPT ![t] = "user"]
              /\ running' = NONE
              /\ UNCHANGED op
         ELSE /\ lock_value' = lock_value
              /\ lock_holder' = t
              /\ pc' = [pc EXCEPT ![t] = "cmd"]
              /\ op' = [op EXCEPT ![t] = next]
              /\ running' = t
    /\ UNCHANGED <<blocked, lock_waiters, done_value, done_waiters,
                   expecting_intr, dev, irq, panicked>>

\* lock_release: holder = NULL, sema_up on the lock's semaphore (the head
\* waiter is unblocked and the value incremented).  Then the system call
\* either returns to user mode (next = "return") or, without leaving the
\* kernel, goes on to another disk access: its lock_acquire finds the value
\* it has just incremented and takes the lock again before the woken waiter
\* runs.
Release(t, next) ==
    /\ pc[t] = "release"
    /\ CanRun(t)
    /\ blocked' = Unblock(lock_waiters)
    /\ lock_waiters' = Dequeue(lock_waiters)
    /\ IF next = "return"
         THEN /\ lock_value' = lock_value + 1
              /\ lock_holder' = NONE
              /\ pc' = [pc EXCEPT ![t] = "user"]
              /\ running' = NONE
              /\ UNCHANGED op
         ELSE /\ lock_value' = lock_value
              /\ lock_holder' = t
              /\ pc' = [pc EXCEPT ![t] = "cmd"]
              /\ op' = [op EXCEPT ![t] = next]
              /\ running' = t
    /\ UNCHANGED <<done_value, done_waiters, expecting_intr, dev, irq,
                   panicked>>

(***************************************************************************)
(* The drive and the interrupt.                                            *)
(***************************************************************************)
\* The drive finishes the command phase: a read sector is in the buffer
\* (DRQ, completion interrupt raised); a write waits for its data (DRQ, no
\* interrupt before the data block of a PIO write).
DevReady ==
    /\ dev.state = "busy"
    /\ dev' = [dev EXCEPT !.state = "drq", !.done = (dev.op = "read")]
    /\ irq' = (irq \/ dev.op = "read")
    /\ UNCHANGED <<pc, op, running, blocked, lock_value, lock_holder,
                   lock_waiters, done_value, done_waiters, expecting_intr,
                   panicked>>

\* The written sector reaches the medium: completion interrupt.
DevWriteDone ==
    /\ dev.state = "busy_write"
    /\ dev' = [dev EXCEPT !.state = "idle", !.done = TRUE]
    /\ irq' = TRUE
    /\ UNCHANGED <<pc, op, running, blocked, lock_value, lock_holder,
                   lock_waiters, done_value, done_waiters, expecting_intr,
                   panicked>>

\* intr_hd_handler, delivered when interrupts are on: if expecting_intr,
\* clear it, sema_up(disk_done) and read the status register; otherwise
\* the interrupt is ignored.
IntrHdHandler ==
    /\ irq
    /\ running = NONE
    /\ ~panicked
    /\ irq' = FALSE
    /\ IF expecting_intr
         THEN /\ expecting_intr' = FALSE
              /\ blocked' = Unblock(done_waiters)
              /\ done_waiters' = Dequeue(done_waiters)
              /\ done_value' = done_value + 1
         ELSE UNCHANGED <<expecting_intr, blocked, done_waiters, done_value>>
    /\ UNCHANGED <<pc, op, running, lock_value, lock_holder, lock_waiters, dev,
                   panicked>>

\* An interrupt on IRQ 14 that no command of this driver raised (a glitch
\* of the drive, or an interrupt latched during initialisation).
SpuriousIrq ==
    /\ ~irq
    /\ irq' = TRUE
    /\ UNCHANGED <<pc, op, running, blocked, lock_value, lock_holder,
                   lock_waiters, done_value, done_waiters, expecting_intr,
                   dev, panicked>>

ThreadStep(t) ==
    \/ \E o \in Ops : Request(t, o)
    \/ LockAcquire(t)
    \/ CmdOut(t)
    \/ DiskDoneDown(t)
    \/ BusyWait(t)
    \/ \E next \in Ops \cup {"return"} : Release(t, next)

Next ==
    \/ \E t \in Threads : ThreadStep(t)
    \/ DevReady
    \/ DevWriteDone
    \/ IntrHdHandler

\* The same system with interrupts that no command raised.
NextSpurious == Next \/ SpuriousIrq

\* The scheduler gives the CPU to every ready thread in turn (weak fairness
\* on each thread's kernel steps; a thread in user mode need not make
\* another call).  The drive finishes every command.  A raised interrupt
\* stays latched in the PIC and is taken the first time interrupts are on,
\* which happens infinitely often: strong fairness.
Fairness ==
    /\ \A t \in Threads :
          WF_vars(LockAcquire(t) \/ CmdOut(t) \/ DiskDoneDown(t) \/ BusyWait(t)
                  \/ \E next \in Ops \cup {"return"} : Release(t, next))
    /\ WF_vars(DevReady) /\ WF_vars(DevWriteDone)
    /\ SF_vars(IntrHdHandler)

Spec == Init /\ [][Next]_vars /\ Fairness

SpecSpurious == Init /\ [][NextSpurious]_vars /\ Fairness

(***************************************************************************)
(* Properties.                                                             *)
(***************************************************************************)
\* The threads between lock_acquire and lock_release of ide_read/ide_write.
InChannel(t) == pc[t] \in {"cmd", "down", "bwait", "wpoll", "wdown", "release"}

\* The channel lock of lock_acquire/lock_release is held by exactly the one
\* thread inside ide_read or ide_write, and its semaphore's value is 0
\* exactly when it has a holder (spec 4.1: value == 0 <=> owner exists).
LockOwnership ==
    /\ \A t \in Threads : InChannel(t) <=> lock_holder = t
    /\ lock_value = 0 <=> lock_holder # NONE

\* Spec 5: within one channel the semaphore-based wait is always for the
\* caller's own command.  A thread that has passed sema_down(disk_done) in
\* ide_read or ide_write was woken by the completion interrupt of the
\* command it wrote itself.
WakeOnOwnCompletion ==
    \A t \in Threads :
        pc[t] \in {"bwait", "release"} => dev.owner = t /\ dev.done

\* Spec 5: per channel at most one outstanding command.  While the drive
\* is not idle it is executing the command of the thread holding the lock,
\* so cmd_out never writes the command register of a busy drive.
OneOutstandingCommand ==
    dev.state # "idle" => dev.owner = lock_holder

\* busy_wait never reports a failure to ide_read or ide_write: after the
\* wake-up of a read and after the command of a write the drive is BSY or
\* has DRQ, so the PANIC branch is never taken.
NoPanic == ~panicked

\* Every command written by cmd_out is answered: its thread gets past
\* sema_down(disk_done) and reaches lock_release (no lost wake-up).
CommandCompletes ==
    \A t \in Threads : pc[t] = "cmd" ~> pc[t] = "release"

\* A thread queued on the channel lock is eventually woken by a
\* lock_release (the holder never keeps the lock forever).
LockWaiterWoken ==
    \A t \in Threads : (pc[t] = "lockwait" /\ t \in blocked) ~> t \notin blocked

(***************************************************************************)
(* Refinement.  The channel as its callers see it (AtomicDisk): waiting    *)
(* for the lock, holding it before and after the sector is transferred.    *)
(* The transfer is busy_wait's step that finds DRQ: read_from_sector for a *)
(* read, write2sector for a write.                                         *)
(***************************************************************************)
Stage(t) ==
    CASE pc[t] = "user"                              -> "user"
      [] pc[t] \in {"lock", "lockwait"}               -> "wait"
      [] pc[t] \in {"cmd", "down", "bwait", "wpoll"}  -> "hold"
      [] pc[t] \in {"wdown", "release"}               -> "done"

ABS == INSTANCE AtomicDisk WITH stage <- [t \in Threads |-> Stage(t)],
                                op <- op, owner <- lock_holder

\* The lock, cmd_out, the semaphore wait on disk_done and busy_wait together
\* make each ide_read/ide_write one exclusive access: a thread takes the
\* channel only when no one holds it, its sector is transferred once while
\* it holds it, lock_release frees it, and a holder always gets on.
AtomicDiskSpec == ABS!Spec

=============================================================================
