SPECIFICATION Spec
CONSTANTS
    Width = 4
    Constants <- MCConstants
    InitialSize = 2
    Densities <- MCDensities
    MaxCases = 7
    MaxErrors = 1
INVARIANTS
    SelectsCase
    DuplicatesReported
    CasesInOrder
    TablesDense
    SearchLogarithmic
