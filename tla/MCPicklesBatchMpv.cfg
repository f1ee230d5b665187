\* The length of the prev-proof arrays, as the comment on OcamlProof has it.
SPECIFICATION Spec
CONSTANTS
    StepIpaRounds = 16
    WrapIpaRounds = 15
    Columns = 15
    Sigmas = 6
    MaxBatch = 1
    Tag <- MCTag
    Instances <- MCInstances
    Inputs <- MCInputs
    Files <- MCFiles
INVARIANTS
    PrevArraysHaveLengthMpv
CHECK_DEADLOCK FALSE
