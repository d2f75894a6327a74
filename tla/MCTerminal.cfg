CONSTANTS
    Commands <- Table
    Letters = {"s", "r", "1"}
    DigitOf <- OneDigit
    MaxParam = 2
    MaxData = 4
    WordMax = 1000
    MaxLine = 6
SPECIFICATION Spec
INVARIANTS
    HandlerRegistered
    
