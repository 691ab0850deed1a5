\* The tank holds four times what a full one may; it fills to max in two periods.
SPECIFICATION Spec
CONSTANTS
    Cap = 17
    maxV = 10
    minV = 0
    maxL = 40
    minL = 10
    fillL = 20
    tankVolume = 100
    Rate = 1
    Interval = 1
    Pass = 1
    displayEnabled = TRUE
    Start = {1, 4}
    MaxFails = 1
    Lag = 5
    Error = 10
INVARIANTS
    TypeOK
    NoOverfill
PROPERTIES
    Settles
    DisplaySettles
