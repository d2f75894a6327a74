\* Two tasks, a chip that may be slower than the driver waits, restarts.
CONSTANTS
    Tasks = {"fs", "qflash"}
    Ops <- TwoTasks
    Sectors = {"s1", "s2"}
    Data = {"a"}
    Pages = 2
    BusyCheck = 1
    BusyTimeout = 2
    EraseCheck = 1
    EraseTimeout = 2
    ProgramCheck = 1
    ProgramTimeout = 2
    EraseMax = 4
    ProgramMax = 2
    Resets = TRUE
SPECIFICATION Spec
INVARIANTS
    TypeOK
    
    
