\* All pairs of batches of at most two items.
SPECIFICATION Spec
CONSTANTS
    MaxItems = 2
    Batches <- MCBatches
    Domain <- MCDomain
INVARIANTS
    SeedBindsBatch
CHECK_DEADLOCK FALSE
