SPECIFICATION Spec
CONSTANTS
    Machines <- MCMachines
    USB_MAXADDR = 3
    MaxFaults = 1
    XferKinds = {"uhci", "ohci", "ehci", "xhci"}
    Tds = 2
    RingItems = 5
    MaxParts = 5
    MaxCalls = 4
    BufSlots = 3
    HidKinds = {"uhci", "ohci", "xhci"}
    IntrTds = 3
    NKeys = 2
    Reports <- MCReports
    RepeatWait = 2
    PsKeys = {"caps"}
    MaxKeys = 1
    MaxMoves = 1
    MaxCmds = 7
    MaxPsFaults = 1
INVARIANTS
    EnumerationSafe
    TransfersClean
    KeysArrive
    AnswersOwn
PROPERTIES
    EnumerationEnds
CHECK_DEADLOCK FALSE
