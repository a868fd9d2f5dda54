SPECIFICATION Spec
CONSTANTS
    c1 = c1  c2 = c2
    Callers = {c1, c2}
    MaxCalls = 3
    MaxDropped = 1
SYMMETRY Symm
INVARIANTS
    TypeOK
    StopIsHeeded
    WelcomesWithinOverlap
