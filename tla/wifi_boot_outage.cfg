\* Booting while the network is out of reach.
SPECIFICATION Spec
CONSTANTS
    ULONG = 12
    CONNECTION_TIMEOUT_MS = 4
    RECONNECT = 2
    WAIT = 3
    MaxOutages = 2
PROPERTY
    JoinsNetwork
