SPECIFICATION FairSpec
CONSTANTS
    NetworkAttempts = 2
    HostNameRetries = 2
    BufferSize = 1
    HubNames = {"fits", "exact", "long"}
    Atoi <- MCAtoi
    Cut <- MCCut
    Numbers = {"0", "260"}
    Words = {"-b", "-s", "-l", "-n", "0", "260"}
    MaxWords = 4
    Capacity = 2
    Kind <- MCKind
    Red = "red"
    Quit = "quit"
    NoJob = "none"
    StartJob = "colours"
    NetworkJob = "colours"
    ScanJob = "colours"
INVARIANTS TypeOK ArgumentsAsUsage ReadyMeansProvisioned ResponseOfThisRequest DiesAtItsEndsOnly
PROPERTIES StartsOrFails FatalEnds
