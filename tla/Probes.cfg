SPECIFICATION FairSpec
CONSTANTS
    BaseQueries <- Base
    OptionalQueries <- Optional
    Odometer = "odometer"
    Firmwares <- Printers
    Kinds = {"tcp", "char", "usb", "usb_out"}
    UsbDevices <- Neighbours
    UsbSerial = "own"
    Budget <- Bounds
INVARIANTS TypeOK CapabilityHonest
PROPERTIES ReconnectCharged Recovers AbsenceShown
