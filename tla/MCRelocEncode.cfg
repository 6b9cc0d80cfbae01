SPECIFICATION Spec
CONSTANTS
    Word <- MCWord
    CodeAddress <- MCCodeAddress
    Address <- MCAddress
INVARIANTS
    ExactWithinReach
