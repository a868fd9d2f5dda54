SPECIFICATION Spec
CONSTANTS
    a = a  b = b
    Callers = {a, b}
    Kinds = {"worker", "api", "reply", "view"}
    Top = 2
    LimitOf <- MCLimitOf
    PriceOf <- MCPriceOf
    MaxSent = 2
    MaxMonth = 1
    MaxExpiries = 1
    MaxMerchant = 1
SYMMETRY Symmetry
INVARIANTS
    TypeOK
    OvershootExplained
    ResetsPerExpiry
    UsageWithinClimb
    PaidUpgradeIsCharged
