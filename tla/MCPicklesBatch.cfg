\* The library verifier over every recursion shape; batches of at most two proofs.
SPECIFICATION Spec
CONSTANTS
    StepIpaRounds = 16
    WrapIpaRounds = 15
    Columns = 15
    Sigmas = 6
    MaxBatch = 2
    Tag <- MCTag
    Instances <- MCInstances
    Inputs <- MCInputs
    Files <- MCFiles
INVARIANTS
    TypeOK
    AcceptsExactlyGenuine
    BatchAgreesWithSingles
CHECK_DEADLOCK FALSE
