--------------------------------- MODULE MCSched ---------------------------------
\* Small instances of Sched: idle below, every user process at one priority, as
\* start_user_process and do_fork make them.
EXTENDS Sched
MCPrio == [t \in Tasks |-> IF t = Idle THEN 0 ELSE 1]
==================================================================================
