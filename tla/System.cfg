\* One invocation of each kind; a worker and room for its next generation.
SPECIFICATION SysFairSpec
CONSTANTS
    Starts = {d1}
    Kills = {k1}
    Reloads = {r1}
    Statuses = {s1}
    NoPid = NoPid
    Pid = {p1, p2}
    WorkerProcesses = 1
INVARIANT
    KilledDismisses
PROPERTIES
    SigtermKillsSystem
    KillLeavesNothing
CHECK_DEADLOCK FALSE
