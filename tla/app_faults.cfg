SPECIFICATION Spec
CONSTANTS
    NumSensors <- MCNumSensors
    Refreshed <- MCRefreshed
    Handles <- MCHandles
    ServiceChars <- MCServiceChars
    Uuid <- MCUuid
    Readable <- MCReadable
    Notifying <- MCNotifying
    MaxServices = 4
    MaxChars = 8
    AdvTimeout = 0
    LedDepth = 2
    Faults = {"connect", "loss", "att", "command", "silence", "drop"}
    FaultStates = {"DISCOVER_SERVICES", "DISCOVER_CHARACTERISTICS", "SUBSCRIBE", "READ", "CONNECT"}
    MaxFaults = 2
    MaxInbox = 3
INVARIANTS TypeOK OneProcedure NoStaleEvents LedFollows
CHECK_DEADLOCK FALSE
