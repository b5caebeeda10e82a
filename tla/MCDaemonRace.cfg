\* The claim of RunAsDaemon that there is one daemon, without any condition.
SPECIFICATION Spec
CONSTANTS
    Starts = {d1, d2, d3}
    Kills = {}
    Reloads = {}
    Statuses = {}
    NoPid = NoPid
INVARIANT
    SingleDaemon
CHECK_DEADLOCK FALSE
