CONSTANTS
    Modulus = 16
    Width = 4
    Words <- AllWords
    Held = {0, 1, 2, 5, 7, 8, 9, 15}
    PCs = {4}
SPECIFICATION Spec
INVARIANTS TypeOK ImmediatesAreEncoded ComputesWhatItIsNamed OnlyDivisionsCrash
    OperationsFitTogether DecodersAgree
CHECK_DEADLOCK FALSE
