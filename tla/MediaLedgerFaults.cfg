SPECIFICATION CountedThenCharged
CONSTANTS
    Worker = Worker
    Main = Main
    j1 = j1
    j2 = j2
    j3 = j3
    red = red
    Jobs = {j1, j2, j3}
    Labels <- FewJobs
    Definitions <- OneColour
    Sizes <- Small
    Deltas <- Steps
    Estimate = 1
    BootLoss = 2
    HalfRange = 4
    InboxCap = 2
    None = None
    Budget <- BudgetFaults
    Characters <- FewCharacters
    Texts <- ShortTexts
    Requests <- FewRequests
    Digit <- TwoDigits
    Representable <- Numbers
    ChunkSize = 3
    CarrySize = 3
    MaxCopies = 2
    MaxArtifacts = 2
    MaxJobSize = 6
INVARIANTS TypeOK NothingLost LossBounded LedgerExplains BootCharged ChargedOnce
           PqCutShort LabelsCounted
PROPERTIES BootSettled Atomic
CHECK_DEADLOCK FALSE
