\* The file system alone, a chip within the driver's patience, restarts.
CONSTANTS
    Tasks = {"fs"}
    Ops <- OneTask
    Sectors = {"s1", "s2"}
    Data = {"a", "b"}
    Pages = 2
    BusyCheck = 1
    BusyTimeout = 3
    EraseCheck = 2
    EraseTimeout = 4
    ProgramCheck = 1
    ProgramTimeout = 3
    EraseMax = 6
    ProgramMax = 2
    Resets = TRUE
SPECIFICATION FairSpec
PROPERTIES
    IsDisk
