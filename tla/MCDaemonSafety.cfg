\* Three starts, so that a race lost by the second lets a third one in.
SPECIFICATION Spec
CONSTANTS
    Starts = {d1, d2, d3}
    Kills = {k1}
    Reloads = {r1}
    Statuses = {}
    NoPid = NoPid
SYMMETRY StartSymmetry
INVARIANTS
    FoundUnlessRaceLost
    StartHonest
CHECK_DEADLOCK FALSE
