\* An empty tank after relay 1 was switched off by hand.
SPECIFICATION Spec
CONSTANTS
    ULONG = 6
    Second = 1
    AUTO_INTERVAL = 1
    MaxLag = 1
    Horizon = 6
    MaxCalls = 1
    ChannelArgs = {1, 2}
    Durations = {1}
    NoDuration = NoDuration
    Modes = {1, 2}
    Levels = {0}
    MaxL = 90
    MinL = 10
    FillL = 20
    WebPriority = TRUE
PROPERTY
    LowLevelGetsFilled
