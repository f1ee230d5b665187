\* Two runs that share target/, each on a directory of its own choice.
SPECIFICATION Spec
CONSTANTS
    StepIpaRounds = 2
    WrapIpaRounds = 2
    Columns = 2
    Sigmas = 2
    Runs = {r1, r2}
    Dirs = {"d1", "d2"}
    Bundles <- MCBundles
    Args <- PairArgs
    Redump <- PairRedump
INVARIANTS
    
    GenuineNeverRefused
PROPERTIES
    PromiseKept
