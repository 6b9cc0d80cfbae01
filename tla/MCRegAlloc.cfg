SPECIFICATION Spec
CHECK_DEADLOCK FALSE
CONSTANTS
    Programs <- MCPrograms
    HelperPreserves = {5, 6, 7, 29, 30}
    MaxNodes = 300
INVARIANTS
    SameEffects
    TakenWhileRead
    CalleeSaved
    Compiled
