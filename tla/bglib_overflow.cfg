SPECIFICATION FairSpec
CONSTANTS
    QueueLen = 3
    MaxEvents = 6
    MaxBacklog = 4
    MaxFailures = 1
INVARIANTS InUseStable
PROPERTIES InOrder CommandsReturn
CHECK_DEADLOCK FALSE
