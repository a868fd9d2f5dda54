SPECIFICATION Spec
CHECK_DEADLOCK FALSE
CONSTANTS
    c1 = c1  c2 = c2
    N = 2
    Written = {1, 3}
    ActiveByDefault = {1}
    Callers = {c1, c2}
    MaxCalls = 3
    MaxRestarts = 2
    MaxDisturbed = 1
SYMMETRY Symm
INVARIANTS
    TypeOK
    SeededWithinOverlap
PROPERTIES
    StartMerges
    StartKeepsTemplates
