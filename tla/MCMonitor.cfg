\* Two process ids: the new child may or may not have the id of the old one.
SPECIFICATION FairSpec
CONSTANTS
    Pid = {p1, p2}
    NoChild = NoChild
INVARIANTS
    OneChild
PROPERTIES
    StopLeadsToExit
    ReloadRestarts
CHECK_DEADLOCK FALSE
