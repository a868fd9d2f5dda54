SPECIFICATION PoolSpec
CHECK_DEADLOCK FALSE
CONSTANTS
    g1 = g1  g2 = g2
    Goroutines = {g1, g2}
    Nobody = Nobody
    PayingPlans = {0, 1, 3}
INVARIANTS
    PoolTypeOK
    HolderGivesBack
PROPERTIES
    ReturnsUnlessStalled
