SPECIFICATION Spec
CONSTANTS
    StackAddr = 1
    EbdaMinimum = 5
    EbdaStart = 7
    LowRamEnd = 9
    RomStart = 10
    ZoneLowBase = 14
    BiosAddr = 21
    FSegStart = 22
    FSegEnd = 26
    OneMeg = 27
    Flash = 58
    FourGig = 60
    TopEnd = 66
    DummyRam = 40
    InitSize = 2
    HighTable = 10
    MaxE820 = 12
    DetailSize = 1
    HeaderReserve = 1
    RomAlign = 2
    PageSize = 2
    Platforms <- MCPlatforms
    Sizes = {2, 6}
    Handles = {"h"}
    MaxOps = 2
    Kinds <- MCKinds
    TempSize = 2
    MaxAcpi = 6
    Machines <- MCSound
    Dimm = 5
    Gig4 = 5
    Meg1 = 2
    Low640 = 1
    PciIrqs = {5, 9, 10, 11}
    ProcSize = 84
    SlotSize = 39
    Topologies <- MCTopologies
    MaxBus = 9
    BridgeMem = 4
    BridgeIo = 4
    IoLow = 4
    IoLowEnd = 40
    IoHigh = 48
    IoEnd = 64
    MemEnd = 100
    MemHalf = 48
    Mem3 = 64
    Mmconfig = 72
    Mem4 = 112
    HugePage = 8
    RomSets <- MCRomSets
    RomRoom = 5
    RomSizes = {0, 3}
INVARIANTS
    MemoryOwned
    TablesRight
    DevicesReachable
CHECK_DEADLOCK FALSE
