CONSTANTS
    MaxHeight = 5
    MaxCopies = 2
SPECIFICATION Spec
INVARIANTS TypeOK CommittedCovered StoredCovered StallsOnlyOnDuplicates
PROPERTIES StoredNeverDecreases AbstractSpec
