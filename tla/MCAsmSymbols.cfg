SPECIFICATION Spec
CONSTANTS
    a = a
    b = b
    NoObject = NoObject
    Name <- MCName
    NameOrder <- MCNameOrder
    Files = 2
    Addend = {0}
    Padding = {1}
    MaxStatements = 5
INVARIANTS
    UsesHeldOnce
    ReferencesMean
    DefinitionsMean
    LinkableOutput
