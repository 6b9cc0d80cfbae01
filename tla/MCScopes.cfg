SPECIFICATION Spec
CONSTANTS
    Name <- MCName
    Unit <- MCUnit
INVARIANTS
    TablesSound
    LinkedNames
PROPERTIES
    ImplementsBlockScopes
