\* The channel with interrupts on IRQ 14 that no command raised: does the
\* handler's expecting_intr test keep one outstanding command per channel?
CONSTANTS
    t1 = t1
    t2 = t2
    t3 = t3
    NONE = NONE
    Threads <- MCThreads

SPECIFICATION SpecSpurious

INVARIANT OneOutstandingCommand
