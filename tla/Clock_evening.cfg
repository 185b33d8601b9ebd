SPECIFICATION StartSpec
CONSTANTS
    Times = {0, 360, 720, 1080, 1200, 1310, 1311, 1320, 1380, 1439}
    DayTime = 1440
    Hz = 25
    Interval = 8
    Ratio = 3
    Word = 4096
    Day = 1500
    Byte = 256
    Usec = 1
    Waits = {0}
    TimerPort = "tsc"
    Valid = 4096
    Delays = {0}
INVARIANT ClockRight
CHECK_DEADLOCK FALSE
