SPECIFICATION AllocFairSpec
CONSTANTS
    Task = {t1, t2, t3}
    Sizes = {1, 2}
    BUFFER_SIZE = 3
INVARIANTS AllocTypeOK NoOverlap
PROPERTIES AllocReturns
