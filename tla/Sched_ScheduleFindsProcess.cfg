SPECIFICATION Spec
CONSTANTS
    idle = idle
    proc1 = proc1
    proc2 = proc2
    proc3 = proc3
    NULL = NULL
    Idle = idle
    Procs <- BootProcs
    CREATED <- BootCreated
    Prio <- BootPrio
    MAX_PRIO = 31
    TICK_QUANTUM = 100
INVARIANT ScheduleFindsProcess
