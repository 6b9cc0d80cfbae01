SPECIFICATION Spec
CONSTANTS
    MaxLabel = 21
    UserLabels = {"L"}
    SmallBucket = 1
    BracedBodies = TRUE
    Families <- MCFamilies
INVARIANTS
    SameFlow
    EveryExitReturns
    LabelsResolvable
    ReferencesExact
