SPECIFICATION Spec
CONSTANTS
    Jobs = {j1, j2}
    Printers = {p1, p2}
    p1 = p1
    p2 = p2
    key = key
    a = a
    b = b
    NoKey = NoKey
    None = None
    Requests <- Mixed
    MaxActive = 1
    ChannelCap = 1
    Budget <- BudgetFaults
SYMMETRY JobSymmetry
INVARIANTS TypeOK SentOnce RecordHonest KeyUnique AdmittedBound AnswerHonest QueuedIsTracked
PROPERTIES KeepsPromise
CHECK_DEADLOCK FALSE
