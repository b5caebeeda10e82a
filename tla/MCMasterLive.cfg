\* One worker, three process ids, fairness of the master and the workers.
SPECIFICATION FairSpec
CONSTANTS
    Pid = {p1, p2, p3}
    WorkerProcesses = 1
PROPERTIES
    TermLeadsToExit
    PoolHeals
    ReloadCompletes
    OrphansVanish
CHECK_DEADLOCK FALSE
