SPECIFICATION FairSpec
CONSTANTS
    Capacity = 4
    Kind <- MCKind
    Red = red
    Quit = quit
    NoJob = none
    cycle = cycle
    on = on
    off = off
INVARIANTS TypeOK Contiguous ReadyJobStays QuitIsLast
PROPERTIES ImplementsFifo ShutdownEnds JobsAreTaken
