SPECIFICATION FairSpec
CONSTANTS
    NumSensors <- MCNumSensors
    Refreshed <- MCRefreshed
    Handles <- MCHandles
    ServiceChars <- MCServiceChars
    Uuid <- MCUuid
    Readable <- MCReadable
    Notifying <- MCNotifying
    MaxServices = 8
    MaxChars = 4
    AdvTimeout = 1
    LedDepth = 0
    Faults = {"connect", "loss", "att"}
    FaultStates = {"READ"}
    MaxFaults = 3
    MaxInbox = 3
INVARIANTS SensorsMatch DiscoveryInStep KeepsRunning
PROPERTIES RefreshComplete UploadsGoOn
