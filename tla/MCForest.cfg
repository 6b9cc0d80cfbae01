SPECIFICATION Spec
CONSTANTS
    Address <- MCAddress
    InitialStores <- MCStores
    Families <- MCFamilies
    Globals = {"x"}
    Registers = {"y"}
    Volatile = {"v"}
    Pointees = {"x", "w"}
    Callee = "x"
    MaxNodes = 12
INVARIANTS
    SameMeaning
    TableCurrent
