\* One run in every mode, while its directory is rewritten file by file.
SPECIFICATION Spec
CONSTANTS
    StepIpaRounds = 2
    WrapIpaRounds = 2
    Columns = 2
    Sigmas = 2
    Runs = {r1}
    Dirs = {"d1"}
    Bundles <- MCBundles
    Args <- SoloArgs
    Redump <- SoloRedump
INVARIANTS
    TypeOK
    
    GenuineNeverRefused
    OrphansAreLocated
PROPERTIES
    RunsEnd
    PromiseKept
