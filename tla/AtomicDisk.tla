----------------------------- MODULE AtomicDisk -----------------------------
(***************************************************************************)
(* What one IDE channel promises the file system above it.  FileTable,     *)
(* FileRW and DirTree take a disk access as a single step; this is the     *)
(* contract that justifies it.                                             *)
(*                                                                         *)
(* A thread that calls ide_read or ide_write waits for the channel, then   *)
(* holds it alone.  While it holds it, the sector of its command is        *)
(* transferred, exactly once.  Then it either leaves the channel or,       *)
(* without leaving, goes on to its next access.  A holder always gets its  *)
(* transfer and always leaves or goes on.  Nothing is promised to a waiter *)
(* while other threads keep taking the channel.                            *)
(***************************************************************************)
EXTENDS Naturals

CONSTANTS Threads, NONE

Ops == {"read", "write"}

\* "user": not in a disk call; "wait": for the channel; "hold": holding it,
\* sector not yet transferred; "done": holding it, sector transferred.
Stages == {"user", "wait", "hold", "done"}

VARIABLES stage, op, owner

avars == <<stage, op, owner>>

TypeOK ==
    /\ stage \in [Threads -> Stages]
    /\ op \in [Threads -> Ops]
    /\ owner \in Threads \cup {NONE}

Init ==
    /\ stage = [t \in Threads |-> "user"]
    /\ op = [t \in Threads |-> "read"]
    /\ owner = NONE

Call(t, o) ==
    /\ stage[t] = "user"
    /\ stage' = [stage EXCEPT ![t] = "wait"]
    /\ op' = [op EXCEPT ![t] = o]
    /\ UNCHANGED owner

Acquire(t) ==
    /\ stage[t] = "wait"
    /\ owner = NONE
    /\ owner' = t
    /\ stage' = [stage EXCEPT ![t] = "hold"]
    /\ UNCHANGED op

Transfer(t) ==
    /\ stage[t] = "hold"
    /\ owner = t
    /\ stage' = [stage EXCEPT ![t] = "done"]
    /\ UNCHANGED <<op, owner>>

\* next = "return": back to user mode, the channel is free; otherwise the
\* same system call's next access, on the channel it still holds.
Leave(t, next) ==
    /\ stage[t] = "done"
    /\ owner = t
    /\ IF next = "return"
         THEN /\ stage' = [stage EXCEPT ![t] = "user"]
              /\ owner' = NONE
              /\ UNCHANGED op
         ELSE /\ stage' = [stage EXCEPT ![t] = "hold"]
              /\ op' = [op EXCEPT ![t] = next]
              /\ UNCHANGED owner

Next ==
    \E t \in Threads :
        \/ \E o \in Ops : Call(t, o)
        \/ Acquire(t)
        \/ Transfer(t)
        \/ \E next \in Ops \cup {"return"} : Leave(t, next)

Spec ==
    /\ Init /\ [][Next]_avars
    /\ \A t \in Threads :
          WF_avars(Transfer(t)) /\ WF_avars(\E next \in Ops \cup {"return"} : Leave(t, next))

=============================================================================
