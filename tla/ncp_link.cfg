SPECIFICATION FairSpec
CONSTANTS
    Totals = {255, 257}
    Tails <- MCTails
    EventData <- MCEventData
    MaxData = 2
    MaxLine = 3
    MaxFailures = 1
    CalledAfter = {"system_hello", "system_reset", "user_message_to_target"}
INVARIANTS TypeOK MessagesInStep ResponseOfCommand HeardAsCalled
PROPERTIES CommandsReturn BootIsSeen
CHECK_DEADLOCK FALSE
