\* Every text up to one limb, and two hex bytes, longer than a field element.
SPECIFICATION Spec
CONSTANTS
    Base = 2
    LimbBytes = 2
    FieldBytes = 8
    P = 67
    MaxLimbs = 5
    MaxHex = 10
    Texts <- MCTexts
INVARIANTS
    TypeOK
    ReadsWhatIsWritten
CHECK_DEADLOCK FALSE
