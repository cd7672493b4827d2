SPECIFICATION Spec
CONSTANTS
    Values <- TwoValues
    Transports = {TRUE}
    None = None
    Budget <- LateOnly
PROPERTIES SavedAsAcknowledged
CHECK_DEADLOCK FALSE
