SPECIFICATION Spec
CONSTANTS
    SECTOR_SIZE = 4
    Counts <- MCCounts
    IdleWords <- MCIdleWords
    Word106 <- MCSizes106
    Machines <- MCMachines
    BootSize = 8
    Sizes <- MCSizes
    Blocks <- MCBlocks
    MaxCalls = 2
INVARIANTS
    Identified
    SurveyIsRight
    InStep
    StaysInBuffer
PROPERTIES
    CallsEnd
CHECK_DEADLOCK FALSE
