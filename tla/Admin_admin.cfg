\* Two launches of one machine, beside its shutdown or beside the other commands.
CONSTANTS
    m1 = m1  b1 = b1  b2 = b2  p1 = p1  p2 = p2
    Machines = {m1}
    Boots = {b1, b2}
    MachineOf <- OneMachine
    Unit <- UnitNames
    Pids = {p1, p2}
    NoPid = NoPid
    Free = Free
    Other = Other
    MachineSeq <- SeqOfOne
    Autostart <- SeqOfOne
    Commands = {"shutdown-running", "autostart", "pause", "boot.config"}
SYMMETRY Symmetry
SPECIFICATION MCSpec
INVARIANTS OnExitSparesOthers ShutdownComplete
PROPERTY AskedBeforeKill
