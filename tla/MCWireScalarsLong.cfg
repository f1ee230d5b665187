\* The same texts: is what is accepted always the number that is written?
SPECIFICATION Spec
CONSTANTS
    Base = 2
    LimbBytes = 2
    FieldBytes = 8
    P = 67
    MaxLimbs = 5
    MaxHex = 10
    Texts <- MCTexts
INVARIANTS
    AcceptedIsTheNumber
CHECK_DEADLOCK FALSE
