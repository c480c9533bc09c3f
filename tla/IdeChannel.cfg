\* Three threads doing disk I/O on one channel.
CONSTANTS
    t1 = t1
    t2 = t2
    t3 = t3
    NONE = NONE
    Threads <- MCThreads

SPECIFICATION Spec

INVARIANTS
    TypeOK
    LockOwnership
    WakeOnOwnCompletion
    OneOutstandingCommand
    NoPanic

PROPERTIES
    CommandCompletes
    LockWaiterWoken
    AtomicDiskSpec
