CONSTANTS
    Tasks = {idle, shell, c1}
    NoTask = none
    Idle = idle
    Shell = shell
    Prio <- MCPrio
    Ops = {"read", "fork", "wait4", "exit", "sleep"}
    KillSignals = {}
    Targets = {}
    Keys = {"line"}
    NestLimit = 4
    Leaked = 2
    MaxSleep = 2
    MaxEntries = 4
SPECIFICATION Spec
INVARIANTS TypeOK NoLostWakeup NestCountsFrames SleeperIsQueued
PROPERTIES WokenWhenDue
CHECK_DEADLOCK FALSE
