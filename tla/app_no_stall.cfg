SPECIFICATION FairSpec
CONSTANTS
    NumSensors <- MCNumSensors
    Refreshed <- MCRefreshed
    Handles <- MCHandles
    ServiceChars <- MCServiceChars
    Uuid <- MCUuid
    Readable <- MCReadable
    Notifying <- MCNotifying
    MaxServices = 8
    MaxChars = 16
    AdvTimeout = 0
    LedDepth = 0
    Faults = {"connect", "loss", "command", "silence"}
    FaultStates = {"DISCOVER_SERVICES", "DISCOVER_CHARACTERISTICS", "SUBSCRIBE", "READ", "CONNECT"}
    MaxFaults = 3
    MaxInbox = 2
INVARIANT SensorsRegistered
PROPERTY UploadsOrStops
