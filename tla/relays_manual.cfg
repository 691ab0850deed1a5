\* Calls and timers by hand, with the build's task priorities;
\* the clock does not wrap.
SPECIFICATION Spec
CONSTANTS
    ULONG = 32
    Second = 2
    AUTO_INTERVAL = 2
    MaxLag = 2
    Horizon = 8
    MaxCalls = 3
    ChannelArgs = {1, 2}
    Durations = {0, 1}
    NoDuration = NoDuration
    Modes = {0}
    Levels = {0}
    MaxL = 90
    MinL = 10
    FillL = 20
    WebPriority = TRUE
INVARIANTS
    BoundedOverrun
    OffStaysOff
    ReportedOffIsOff
    RemainingIsTold
PROPERTY
    KeepsPromise
