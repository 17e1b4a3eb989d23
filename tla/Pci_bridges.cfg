SPECIFICATION Spec
CONSTANTS
    Devices = 3
    Functions = 2
    Machines <- MCMachines
    MaxDepth = 3
INVARIANTS
    BridgesFollowed
CHECK_DEADLOCK FALSE
