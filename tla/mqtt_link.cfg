\* Wi-Fi, broker and configuration change at any time; the clock wraps.
SPECIFICATION AllSpec
CONSTANTS
    ULONG = 8
    MQTT_INTERVAL = 1
    RECONNECT = 2
    MaxChanges = 3
INVARIANTS
    TypeOK
    SubscriberKnows
PROPERTY
    ReportsIfSetUp
