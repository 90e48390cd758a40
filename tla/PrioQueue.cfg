CONSTANTS
    Events = {e1, e2, e3}
    Half = 2
    Slots = 2
    MaxCycle = 17

SPECIFICATION Spec
INVARIANT FirstCycleExact
PROPERTY ImplementsQueue
