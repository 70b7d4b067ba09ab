\* Four processes on three priorities, two of them on the same one.
SPECIFICATION FairSpec
CONSTANTS
    idle = idle
    proc1 = proc1
    proc2 = proc2
    proc3 = proc3
    NULL = NULL
    Idle = idle
    Procs <- MoreProcs
    CREATED <- MoreCreated
    Prio <- MorePrio
    MAX_PRIO = 2
    TICK_QUANTUM = 3
INVARIANTS
    TypeOK
    QueuesIntact
    CurrentIsAlive
    HighestRuns
    IdleQuantumHarmless
PROPERTIES
    EveryoneRuns
