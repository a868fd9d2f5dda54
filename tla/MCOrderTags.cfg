SPECIFICATION Spec
CHECK_DEADLOCK FALSE
CONSTANTS
    c1 = c1  c2 = c2   pending = pending  shipped = shipped
    Callers = {c1, c2}
    MaxGrants = 2
    NoToken = NoToken
    Online = Online
    Status = {pending, shipped}
    Configured = {pending, shipped}
    NoTag = NoTag
    MaxCalls = 3
SYMMETRY Symm
INVARIANTS
    TypeOK
    RotationKept
    OneStatus
