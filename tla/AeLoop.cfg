\* Two slots and a descriptor beyond the table; two timers, due at once or later,
\* created and deleted by handlers; a stop request at any moment.
CONSTANTS
    SetSize = 2
    Fd = {0, 1, 2}
    Proc = {p}
    Data = {d}
    Unset = Unset
    MsPerSec = 3
    Delay = {0, 2}
    Period = {1}
    MaxClock = 2
    MaxTimers = 2
    MaxCalls = 3
SPECIFICATION FairSpec
INVARIANTS
    LoopConsistent
    TimersOnTime
PROPERTIES
    NoDueTimerSkipped
    StopEndsLoop
CHECK_DEADLOCK FALSE
