\* Two workers, five process ids: a whole reload (four processes) and one id
\* more, so that ids are reused while others are still held.
SPECIFICATION Spec
CONSTANTS
    Pid = {p1, p2, p3, p4, p5}
    WorkerProcesses = 2
SYMMETRY PidSymmetry
INVARIANTS
    ChildrenTracked
    SignalsOnlyChildren
    NoLostSigchld
    PoolFull
    CapacityKept
    ChildBound
    OrphansTermed
    IInv
PROPERTIES
    NoSpawnAfterTerm
    PoolSpec
CHECK_DEADLOCK FALSE
