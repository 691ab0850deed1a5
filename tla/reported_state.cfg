\* A relay's reported state against its pin.
SPECIFICATION Spec
CONSTANTS
    ULONG = 16
    Second = 2
    AUTO_INTERVAL = 1
    MaxLag = 2
    Horizon = 6
    MaxCalls = 2
    ChannelArgs = {1, 2}
    Durations = {1}
    NoDuration = NoDuration
    Modes = {0}
    Levels = {0}
    MaxL = 90
    MinL = 10
    FillL = 20
    WebPriority = TRUE
INVARIANT
    ReportedStateIsPin
