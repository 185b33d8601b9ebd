SPECIFICATION Spec
CONSTANTS
    Main = Main
    Stacks = {s1, s2, s3, s4}
    Programs <- MCPrograms
    Devices <- MCDevices
    Controls = {0, 1, 2}
    Methods = {"BIG", "SMM"}
    Cpus = {c1, c2}
    MaxIrqs = 1
    MaxCalls = 1
    MaxDepth = 16
    Times = {0, 11}
    DayTime = 12
    Hz = 1
    Interval = 1
    Ratio = 1
    Word = 32
    Day = 12
    Byte = 3
    Usec = 2
    Waits = {1, 5}
    TimerPort = "pm"
    Valid = 8
    Delays = {0, 3, 11}
    Modes <- MCModes
    Fonts <- MCFonts
    Eight = 2
    MaxHeight = 4
    Pages = {0, 1}
    PageAlign = 4
    Bank = 8
    VramSize = 24
    Lines = 8
    Chars = {10, 65, 200}
    Strings <- MCStrings
    Attrs = {28, 129}
    Paper = 28
    Shapes <- MCShapes
    Windows <- MCWindows
    MaxVideo = 2
    Rows = 2
    Cols = 3
    Glyphs = {65}
    Seqs <- MCSeqs
    Bytes = {"esc", "[", "A", "2", "~"}
    Buffer = 4
    MaxPrints = 4
    MaxBytes = 4
    FileMachines <- MCFileMachines
    FileThreads = {"post", "disk"}
    FileNames <- MCFileNames
    Unlucky <- MCUnlucky
    Written = 99
    SerialPort = 1016
    Cards <- MCCards
    AskedModes = {3, 257, 258, 280, 324}
    MaxVbe = 3
    RomEnds = {0, 14, 46, 64, 176, 192}
    Writable = TRUE
INVARIANTS
    ThreadsSafe
    BiosIntact
    TimeKept
    ScreensRight
    FilesOwn
PROPERTY
    BootReached
CHECK_DEADLOCK FALSE
