\* Three module objects: the loaded one and two reloads, so that a reload can
\* fail and the next one succeed; two workers of different generations.
SPECIFICATION Spec
CONSTANTS
    Worker = {w1, w2}
    MaxModules = 3
INVARIANTS
    IInv
    UninitOnce
    ServesReadyModule
    DependenciesAlive
    BalancedAtExit
CHECK_DEADLOCK FALSE
