SPECIFICATION FairSpec
CONSTANTS
    j1 = j1  j2 = j2  c1 = c1
    g1 = g1  g2 = g2  g3 = g3
    NoJob = NoJob
    Jobs = {j1}
    Contacts = {c1}
    ContactOf <- OneCustomer
    TagJobs = {j1}
    Goroutines = {g1, g2}
    MaxAttempts = 2
    CapPerDay = 1
    MaxDropped = 0
    MaxOthers = 0
    MaxRestarts = 1
PROPERTIES
    EventuallySettles
