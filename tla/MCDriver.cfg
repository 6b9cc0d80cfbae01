SPECIFICATION Spec
CONSTANTS
    None = None
    Arg <- MCArg
    Invocation <- MCInvocation
    Disk <- MCDisk
    TempStem <- MCTempStem
    MaxArgs = 3
INVARIANTS
    LinkedInOrder
    ResultsLeft
    StatusHonest
    FailureKeepsExecutable
    NoTempsLeft
