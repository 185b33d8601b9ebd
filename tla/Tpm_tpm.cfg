SPECIFICATION TpmSpec
CONSTANTS
    Machines <- MCMachines
    LargeEvents = {"catalog", "specid", "rom"}
    Roms = 1
    MaxCalls = 1
    MaxBoots = 2
    MaxResets = 1
    MaxFaults = 1
INVARIANTS
    AnswersMatch
    LogReplays
    MeasuredBeforeRun
CHECK_DEADLOCK FALSE
