\* Outages at any time; the clock wraps every 12 ticks.
SPECIFICATION Spec
CONSTANTS
    ULONG = 12
    CONNECTION_TIMEOUT_MS = 4
    RECONNECT = 2
    WAIT = 3
    MaxOutages = 2
INVARIANTS
    TypeOK
    FallbackInTime
PROPERTIES
    LinkFollowsNetwork
    Rejoins
