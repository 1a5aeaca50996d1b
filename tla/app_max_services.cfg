SPECIFICATION Spec
CONSTANTS
    NumSensors <- MCNumSensors
    Refreshed <- MCRefreshed
    Handles <- MCHandles
    ServiceChars <- MCServiceChars
    Uuid <- MCUuid
    Readable <- MCReadable
    Notifying <- MCNotifying
    MaxServices = 3
    MaxChars = 8
    AdvTimeout = 1
    LedDepth = 0
    Faults = {"loss"}
    FaultStates = {"READ"}
    MaxFaults = 1
    MaxInbox = 2
INVARIANT MaxServicesExceeded
