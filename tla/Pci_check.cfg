SPECIFICATION Spec
CONSTANTS
    Devices = 3
    Functions = 2
    Machines <- MCMachines
    MaxDepth = 3
INVARIANTS
    WalkedOnce
PROPERTIES
    WalkEnds
CHECK_DEADLOCK FALSE
