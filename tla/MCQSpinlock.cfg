CONSTANTS
    CPUs = {p1, p2, p3}
    Threads = {p1, p2, p3}
    Locks = {a}
    CpuOf <- MCOwnCpu
    Null = null
    MaxHeld = 1
SPECIFICATION FairSpec
INVARIANTS TypeOK MutualExclusion
PROPERTIES ImplementsFifoLock CallsReturn
