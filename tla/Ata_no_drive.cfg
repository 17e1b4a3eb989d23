SPECIFICATION Spec
CONSTANTS
    SECTOR_SIZE = 4
    Counts <- MCCounts
    IdleWords <- MCIdleWords
    Word106 <- MCSizes106
    Machines <- MCSizedMachines
    BootSize = 8
    Sizes <- MCSizes
    Blocks <- MCBlocks
    MaxCalls = 0
INVARIANTS
    BootGoesOn
CHECK_DEADLOCK FALSE
