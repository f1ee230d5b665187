\* 1031 and 1033 for the Pasta orders; 2^11 + 1 for the shift.
SPECIFICATION Spec
CONSTANTS
    P = 1031
    Q = 1033
    Shift = 2049
INVARIANTS
    TypeOK
    CircuitRecovers
CHECK_DEADLOCK FALSE
