SPECIFICATION Spec
CHECK_DEADLOCK FALSE
CONSTANTS
    Programs <- FaultyPrograms
    HelperPreserves = {}
    MaxNodes = 300
INVARIANT CompiledRight
