\* Automation with hand-made calls; the clock wraps, and a pass of loop() may
\* step over a deadline.  259 is narrowed to channel 3, which has no pin.
SPECIFICATION Spec
CONSTANTS
    ULONG = 8
    Second = 1
    AUTO_INTERVAL = 1
    MaxLag = 3
    Horizon = 8
    MaxCalls = 1
    ChannelArgs = {2, 259}
    Durations = {2}
    NoDuration = NoDuration
    Modes = {1, 2}
    Levels <- MCLevels
    MaxL = 90
    MinL = 10
    FillL = 20
    WebPriority = TRUE
INVARIANT
    TypeOK
PROPERTIES
    EnergisedForReason
    FailSafe
    TimedGoesOff
