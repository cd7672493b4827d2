SPECIFICATION Spec
CONSTANTS
    j1 = j1
    j2 = j2
    a1 = a1
    Jobs = {j1, j2}
    Worker = Worker
    Admins = {a1}
    Clients = {"jobs", "events", j1}
    Limits = {0, 3}
    MaxLimit = 2
    Torn = Torn
    None = None
    Budget <- Faults
INVARIANTS LogsIntact SequenceSafe QueuedFirst FollowerExact NoJobMissed
CHECK_DEADLOCK FALSE
