\* What the retained status says of a connected device.
SPECIFICATION AllSpec
CONSTANTS
    ULONG = 8
    MQTT_INTERVAL = 1
    RECONNECT = 2
    MaxChanges = 3
INVARIANT
    LateSubscriberKnows
