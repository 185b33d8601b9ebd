\* MaxXfer = 2 has requests of several chunks, sectors and commands, and one that is too
\* large; the rings are short and their indices wrap after a few requests; with three
\* identities a late command can meet the next request and the one after that.
SPECIFICATION FwSpec
CONSTANTS
    Drivers = {"nvme", "virtio-blk", "virtio-scsi", "pvscsi", "megasas", "mpt", "esp", "lsi",
               "ata", "atapi", "ahci", "ahci-atapi", "floppy", "sdcard", "ramdisk", "usb", "uas"}
    \* those that survive a device that answers after their time limit
    LateDrivers = {"mpt", "ata", "atapi", "floppy"}
    MaxXfer = 2
    Ids = 3
    NvmeLen = 2
    PageBlocks = 1
    VringNum = 4
    IdxWrap = 4
    PvEntries = 2
    PvWrap = 4
    FloppyRates = 2
INVARIANTS
    ResourcesKept
PROPERTIES
    PromiseKept
    RequestAnswered
CHECK_DEADLOCK FALSE
