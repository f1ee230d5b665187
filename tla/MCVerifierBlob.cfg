\* Intact, truncated and relengthed blobs; usize scaled to 24 bits.
SPECIFICATION Spec
CONSTANTS
    VestaGs <- MCVestaGs
    WrapGs <- MCWrapGs
    H <- MCH
    VKs <- MCVKs
    LagrangeBasis <- MCLagrangeBasis
    NumChunks = 1
    Base = 4096
    MaxUsize = 16777215
    Damages = {"truncate", "relength", "rebase"}
INVARIANTS
    TypeOK
    WholeBlobOrNothing
    CastsAligned
    LengthFieldHonoured
CHECK_DEADLOCK FALSE
