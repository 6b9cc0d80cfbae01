SPECIFICATION Spec
CONSTANTS
    x = x
    y = y
    two = two
    none = none
    f = f
    g = g
    SYMDEF = SYMDEF
    Missing = Missing
    Damaged = Damaged
    File <- MCFile
    Object <- MCObject
    Symbol <- MCSymbol
    Exports <- MCExports
    Size <- MCSize
    Command <- MCCommand
    StringSize = 6
    MAX_SYM_ENTRIES = 3
    MaxCommands = 3
    MaxTime = 1
INVARIANTS
    AskedFor
    ContentsRecoverable
    LinkableArchive
    NoTempFilesLeft
