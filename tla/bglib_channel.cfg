SPECIFICATION FairSpec
CONSTANTS
    QueueLen = 4
    MaxEvents = 8
    MaxBacklog = 3
    MaxFailures = 0
INVARIANTS TypeOK
PROPERTIES ImplementsChannel AllDelivered
