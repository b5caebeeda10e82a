\* The comment on exiting_processes_, with a SIGTERM during a reload.
SPECIFICATION WorkersSpec
CONSTANTS
    Pid = {p1, p2, p3}
    WorkerProcesses = 1
INVARIANT
    ExitingTracked
CHECK_DEADLOCK FALSE
