\* Two backups at a time of a machine with two disks, and its restore.
CONSTANTS
    d1 = d1  d2 = d2  p1 = p1  p2 = p2
    DiskSeq <- TwoDisks
    Procs = {p1, p2}
    RawKinds <- VolumeAndOther
    QcowKinds <- QcowOther
    MaxVersion = 1
    MaxClock = 3
SYMMETRY ProcSymmetry
SPECIFICATION BackupSpec
INVARIANTS SnapshotsOwn ImageConsistent RestoreFaithful
