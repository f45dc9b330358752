CONSTANTS
    Modulus = 10
    Reg = {0, 1, 2, 4, 13, 24}
    ALU <- Sum
    None = None
    FpDelay = 2
    AsFloat <- Rounded
    X1 = 4
    Memories <- Filled
    Runs <- AllRuns
SPECIFICATION Spec
INVARIANTS ResultsAreCurrent
CHECK_DEADLOCK FALSE
