CONSTANTS
    Tasks = {idle, shell, c1}
    NoTask = none
    Idle = idle
    Shell = shell
    Prio <- MCPrio
    Ops = {"read"}
    KillSignals = {}
    Targets = {}
    Keys = {"line"}
    NestLimit = 4
    Leaked = 3
    MaxSleep = 0
    MaxEntries = 9
SPECIFICATION Spec
INVARIANTS RunnableIsQueued
CHECK_DEADLOCK FALSE
