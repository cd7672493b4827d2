SPECIFICATION Spec
CONSTANTS
    Jobs = {j1, j2}
    Printers = {p1}
    p1 = p1
    p2 = p2
    key = key
    a = a
    b = b
    NoKey = NoKey
    None = None
    Requests <- Plain
    MaxActive = 2
    ChannelCap = 1
    Budget <- BudgetControl
SYMMETRY JobSymmetry
INVARIANTS CancelHonoured PauseDurable
PROPERTIES TerminalStable
CHECK_DEADLOCK FALSE
