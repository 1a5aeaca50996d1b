SPECIFICATION Spec
CONSTANTS
    Capacity = 10
    Kind <- MCKind
    Red = red
    Quit = quit
    NoJob = none
    cycle = cycle
    on = on
    off = off
INVARIANT FatalIsShown
