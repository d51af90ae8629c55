CONSTANTS
    Tasks = {idle, shell, c1}
    NoTask = none
    Idle = idle
    Shell = shell
    Prio <- MCPrio
    Ops = {"read", "yield", "fork", "wait4", "kill", "exit", "sleep"}
    KillSignals = {9, 15}
    Targets = {shell, c1}
    Keys = {"line", "ctrl_c"}
    NestLimit = 4
    Leaked = 5
    MaxSleep = 1
    MaxEntries = 9
SPECIFICATION FairSpec
INVARIANTS RunnableIsQueued NoDoubleEnqueue ExitNotifiesParent NeverPanics NeverTorn
PROPERTIES ReadyRuns KilledExits
