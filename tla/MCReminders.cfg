SPECIFICATION Spec
CONSTANTS
    r1 = r1   s1 = s1  s2 = s2  s3 = s3
    Reminders = {r1}
    Slots = {s1, s2, s3}
    MaxRestarts = 2
    MaxDropped = 2
INVARIANTS
    TypeOK
    ReplyStopsTheRest
    SwitchStopsTheRest
    CopiesWithinOverlap
PROPERTIES
    ReminderSettles
