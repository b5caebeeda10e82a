\* Two starts, a -k and a -s, with fairness.
SPECIFICATION FairSpec
CONSTANTS
    Starts = {d1, d2}
    Kills = {k1}
    Reloads = {}
    Statuses = {s1}
    NoPid = NoPid
INVARIANT
    IInv
PROPERTIES
    CommandsEnd
    SigtermKills
CHECK_DEADLOCK FALSE
