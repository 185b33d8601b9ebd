\* Two launches of one machine, or launches of another one by one, with interfaces of all modes.
CONSTANTS
    m1 = m1  m2 = m2  b1 = b1  b2 = b2  b3 = b3  p1 = p1  p2 = p2
    Machines = {m1, m2}
    Boots = {b1, b2, b3}
    MachineOf <- Launched
    Unit <- UnitNames
    Prefix <- Prefixes
    Ifaces <- AllModes
    Pids = {p1, p2}
    NoPid = NoPid
    Free = Free
    Other = Other
SYMMETRY Symmetry
SPECIFICATION MCSpec
INVARIANTS TapOfRunning ExitCleansUp
