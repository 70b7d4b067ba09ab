SPECIFICATION Spec
CONSTANTS
    idle = idle
    proc1 = proc1
    proc2 = proc2
    NULL = NULL
    Idle = idle
    Procs <- SomeProcs
    CREATED <- SomeCreated
    Prio <- SomePrio
    MAX_PRIO = 1
    TICK_QUANTUM = 1
    KEY_SETS = {{"ralt", "caps", "letter", "home"}, {"lctrl", "rctrl", "f1"}, {"pause", "num", "lshift", "letter"}}
    MAX_EVENTS = 3
INVARIANT EoiAfterHandling
