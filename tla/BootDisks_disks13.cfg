SPECIFICATION Spec
CONSTANTS
    Threads = {"fdc", "ide", "scsi"}
    ScanOf <- MCScan
    Found <- MCFound
    Rank <- MCRank
    FilePrio <- MCFilePrio
    Roms <- MCRoms
    NvramOrders <- MCOrders
    Geometries <- MCGeometries
    MaxExtDrive = 2
    EmuLbas = {3}
    EmuCounts = {6}
    EddSizes = {29, 65}
    BevMax = 4
    HdCountBound = 3
    MaxLocks = 2
    BasicArgs <- MCBasicArgs
    ExtArgs <- MCExtArgs
    EmuChs <- MCEmuChs
INVARIANTS
    BootOrder
    DrivesUsable
    AnswersTrue
PROPERTY
    BootEnds
CHECK_DEADLOCK FALSE
