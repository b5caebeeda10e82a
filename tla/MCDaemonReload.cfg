\* A -r right after a start.
SPECIFICATION Spec
CONSTANTS
    Starts = {d1}
    Kills = {}
    Reloads = {r1}
    Statuses = {}
    NoPid = NoPid
PROPERTY
    ReloadNeverKills
CHECK_DEADLOCK FALSE
