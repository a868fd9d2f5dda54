SPECIFICATION Spec
CHECK_DEADLOCK FALSE
CONSTANTS
    f1 = f1  f2 = f2  r1 = r1
    Nobody = Nobody
    Flows = {f1, f2}
    PhoneFlows = {f2}
    Loops = {r1}
    MaxTries = 1
    MaxLosses = 1
INVARIANTS
    TypeOK
    CodeIsServed
PROPERTIES
    FlowsEnd
