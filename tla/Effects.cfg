CONSTANTS
    panel = panel
    title = title
    box = box
    null = null
    Widgets = {panel}
    Durations = {0, 2}
    MaxCalls = 4
    MaxStops = 2
SPECIFICATION FairSpec
INVARIANTS
    TypeOK
    InTurn
    Driven
    CalledOnce
PROPERTIES
    Settles
    LockReleased
CHECK_DEADLOCK FALSE
