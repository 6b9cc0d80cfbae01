SPECIFICATION FairSpec
CONSTANTS
    main = main
    f = f
    g = g
    h = h
    crt = crt
    prog = prog
    libf = libf
    libh = libh
    libfg = libfg
    liboddh = liboddh
    note = note
    crtO = crtO
    progO = progO
    fO = fO
    hO = hO
    gO = gO
    noteO = noteO
    lA = lA
    lB = lB
    lAB = lAB
    lC = lC
    lD = lD
    lS = lS
    lO = lO
    lM = lM
    lE = lE
    lGone = lGone
    lText = lText
    Missing = Missing
    Unset = Unset
    Name <- MCName
    Object <- MCObject
    Contents <- MCContents
    File <- MCFile
    Library <- MCLibrary
    Archive <- MCArchive
    Directory <- MCDirectory
    Invocation <- MCInvocation
    MaxLibs = 3
INVARIANTS
    FirstDefinitionWins
    SectionsEndToEnd
    SegmentsDisjoint
    UnresolvedNotForgotten
    MembersOnceAndCleanedUp
    OnlyMissingSymbolsFail
PROPERTIES
    ImplementsStaticLink
    Termination
