SPECIFICATION Spec
CONSTANTS
    j1 = j1
    j2 = j2
    p1 = p1
    p2 = p2
    on = on
    moved = moved
    off = off
    a = a
    b = b
    Jobs = {j1, j2}
    V2Jobs = {j2}
    Target <- ToOne
    Printers = {p1}
    Admins = {a}
    Configs = {on, moved, off}
    Enabled = {on, moved}
    Initial <- WithOne
    None = None
    Budget <- OneSwap
INVARIANTS ConsumptionKept
CHECK_DEADLOCK FALSE
