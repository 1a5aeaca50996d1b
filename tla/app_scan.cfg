SPECIFICATION SilentSpec
CONSTANTS
    NumSensors <- MCNumSensors
    Refreshed <- MCRefreshed
    Handles <- MCHandles
    ServiceChars <- MCServiceChars
    Uuid <- MCUuid
    Readable <- MCReadable
    Notifying <- MCNotifying
    MaxServices = 8
    MaxChars = 8
    AdvTimeout = 1
    LedDepth = 0
    Faults = {"silence"}
    FaultStates = {}
    MaxFaults = 0
    MaxInbox = 1
PROPERTY ScanEnds
