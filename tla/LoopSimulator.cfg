CONSTANTS
    Start = 160
    End = 0
    Step = 8
    MaxClock = 400
SPECIFICATION Spec
INVARIANTS TypeOK KeepsTime
PROPERTIES ImplementsLoop Terminates
CHECK_DEADLOCK FALSE
