\* A basis section computed for another domain than the key's.
SPECIFICATION Spec
CONSTANTS
    VestaGs <- MCVestaGs
    WrapGs <- MCWrapGs
    H <- MCH
    VKs <- MCVKs
    LagrangeBasis <- MCLagrangeBasis
    NumChunks = 1
    Base = 4096
    MaxUsize = 16777215
    Damages = {"rebase"}
INVARIANT
    MismatchFallsBack
CHECK_DEADLOCK FALSE
