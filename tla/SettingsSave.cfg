SPECIFICATION Spec
CONSTANTS
    Values <- TwoValues
    Transports = {TRUE, FALSE}
    None = None
    Budget <- Power
INVARIANTS FileHonest
PROPERTIES VerifiedUnlessLate SavedUnlessLate
CHECK_DEADLOCK FALSE
