\* Two workers; five process ids, a reload and one id more. After a SIGTERM the
\* generations are not bounded, and a fork waits for a free id.
SPECIFICATION WorkersSpec
CONSTANTS
    Pid = {p1, p2, p3, p4, p5}
    WorkerProcesses = 2
SYMMETRY PidSymmetry
INVARIANTS
    EntriesAreChildren
    TrackedUntilTerm
CHECK_DEADLOCK FALSE
